----------------------------- MODULE Admission ------------------------------
(***************************************************************************)
(* validate_plan (autorelease/_admission.py): the second, independent look *)
(* at a classified plan.  It shares no decision with the classifier and    *)
(* derives every claim again from the capture.                             *)
(*                                                                         *)
(* A plan is [action, key, evidence, edits, allowed, version, risk], a     *)
(* policy [branches, key, evidence], and a base what a plan is checked     *)
(* against at the commit it was classified on: [policy, lists, recorded],  *)
(* recorded being the keys of its event records.  Only the paths lifecycle *)
(* edits touch exist here, and none of them is protected.                  *)
(***************************************************************************)
EXTENDS Evidence

\* A policy written by a lifecycle edit is bound to the evidence for it.
ValidPolicy(policy) ==
  \/ policy.key = <<"bootstrap">>
  \/ policy.key[1] \in LifecycleActions /\ policy.evidence # {}

(***************************************************************************)
(* What the plan is.                                                       *)
(***************************************************************************)
AuthorizesNothing(plan) == ~plan.edits /\ plan.allowed = {} /\ plan.version = None

RebuildOf(v) == <<"recipe_rebuild", v.branch, v.patch, v.rev>>

PlanShape(plan, captures, completed, pendingRebuild) ==
  /\ plan.action \in {"new_patch", "new_branch", "branch_eol"} => plan.key[1] = plan.action
  /\ plan.action \in NoWorkActions => AuthorizesNothing(plan)
  /\ plan.action = "no_change" =>
       plan.key = <<"no_change", captures>> /\ pendingRebuild = None
  /\ plan.action = "recipe_rebuild" =>
       /\ pendingRebuild # None /\ plan.key = RebuildOf(pendingRebuild)
       /\ ~plan.edits /\ plan.allowed = {}
       /\ plan.version = pendingRebuild
  /\ plan.key \notin completed

(***************************************************************************)
(* What the plan asks for.                                                 *)
(***************************************************************************)
EvidenceResolves(plan, captures) ==
  /\ plan.evidence # {}
  /\ \A item \in plan.evidence :
       /\ item.id \notin RuntimeEvidence =>
            item.id \in DOMAIN captures /\ item.digest = captures[item.id]
       /\ Resolved(captures, item) # None

PathsAreAuthorized(plan) ==
  /\ PolicyPath \in plan.allowed => plan.action \in LifecycleActions /\ plan.risk = "lifecycle"
  /\ plan.edits => plan.action \in LifecycleActions

StableReleaseEvidence(plan, captures) ==
  plan.action \in StableReleaseActions =>
    /\ plan.version # None
    /\ \E item \in plan.evidence :
         item.id \in ProofFeeds(plan.version) /\ Resolved(captures, item) = plan.version

\* Both feeds are read whether or not the plan cites them, and only contrary
\* evidence rejects: a feed that cannot be read decides nothing.
ReadableFeeds(captures, v) ==
  {id \in ProofFeeds(v) \cap DOMAIN captures : captures[id].status = 200 /\ captures[id].shaped}

NamedBy(captures, id, v) ==
  IF id = Aggregate THEN AggregateVersion(captures, Major(v.branch))
  ELSE BranchFeedVersion(captures, v.branch)

ReleaseIsNewestPatch(plan, captures) ==
  plan.action \in StableReleaseActions =>
    \A id \in ReadableFeeds(captures, plan.version) :
      \A named \in {NamedBy(captures, id, plan.version)} :
        named # None /\ named.branch = plan.version.branch => named.patch <= plan.version.patch

BranchHasShipped(captures, branch, completed) ==
  \/ \E r \in captures[Releases].body : r.v.branch = branch
  \/ \E k \in completed :
       k[1] \in {"new_branch", "new_patch", "recipe_rebuild"} /\ k[2] = branch

PatchExtendsShippedBranch(plan, captures, completed) ==
  plan.action = "new_patch" => BranchHasShipped(captures, plan.version.branch, completed)

RecipeRebuildEvidence(plan, captures) ==
  plan.action = "recipe_rebuild" =>
    \E item \in plan.evidence :
      /\ item.id = Releases
      /\ Resolved(captures, item) = [plan.version EXCEPT !.rev = @ - 1]

PlanActions(plan, captures) ==
  /\ EvidenceResolves(plan, captures)
  /\ PathsAreAuthorized(plan)
  /\ plan.version # None => plan.version.rev = 0 \/ plan.action = "recipe_rebuild"
  /\ StableReleaseEvidence(plan, captures)
  /\ ReleaseIsNewestPatch(plan, captures)
  /\ RecipeRebuildEvidence(plan, captures)

(***************************************************************************)
(* A lifecycle plan that needs the implementation run but may change       *)
(* nothing resumes an edit that already merged: the base must hold it.     *)
(***************************************************************************)
IsLifecycleResume(plan) == plan.action \in LifecycleActions /\ plan.edits /\ plan.allowed = {}

LifecycleOnBase(plan, base) ==
  /\ ValidPolicy(base.policy) /\ base.policy.key = plan.key
  /\ plan.action = "new_branch" =>
       plan.key[2] \in base.policy.branches /\ plan.key[2] \in base.lists
  /\ plan.action = "branch_eol" => plan.key[2] \notin base.policy.branches
  /\ plan.key \notin base.recorded

ResumeIsOwed(plan, captures, completed, base) ==
  IsLifecycleResume(plan) =>
    /\ LifecycleOnBase(plan, base)
    /\ plan.action = "new_branch" => ~BranchHasShipped(captures, plan.key[2], completed)

(***************************************************************************)
(* validate_plan.  The preconditions, heads and policy, are those of the   *)
(* same checkout in the run that classified the plan.                      *)
(***************************************************************************)
ValidatePlan(plan, captures, completed, pendingRebuild, base) ==
  /\ PlanShape(plan, captures, completed, pendingRebuild)
  /\ PlanActions(plan, captures)
  /\ PatchExtendsShippedBranch(plan, captures, completed)
  /\ ResumeIsOwed(plan, captures, completed, base)
=============================================================================
