----------------------------- MODULE WatchRules -----------------------------
(***************************************************************************)
(* The pure decisions of the watcher (autorelease/_state.py and the rules  *)
(* of the classifier that select releases), as operators.  The state       *)
(* machine that calls them is WatchLoop.                                   *)
(*                                                                         *)
(* A release version is [branch, patch, rev]: PHP 8.5.11-2 is patch 11 and *)
(* revision 2 of branch 8.5, and branches are numbered in version order.   *)
(* The action key of a release is its version: new_patch:<v> when rev is   *)
(* 0, recipe_rebuild:<v>:<rev> otherwise.  A release is                    *)
(* [v, recipe, draft]; recipe is the identity its notes record.            *)
(***************************************************************************)
EXTENDS Integers, FiniteSets

CONSTANT None

\* Versions compare numerically, a plain patch counting as revision 0.
Above(v, w) ==
  \/ v.branch > w.branch
  \/ v.branch = w.branch /\ v.patch > w.patch
  \/ v.branch = w.branch /\ v.patch = w.patch /\ v.rev > w.rev

Published(releases) == {r \in releases : ~r.draft}

\* Whether the publication of v may take the Latest badge.
ReleaseIsNewest(v, releases) ==
  \A r \in Published(releases) : ~Above(r.v, v)

\* The newest revision of the newest published version of each branch.
BranchHeads(releases) ==
  {r \in Published(releases) :
     \A s \in Published(releases) : s.v.branch = r.v.branch => ~Above(s.v, r.v)}

\* identity maps every maintained branch to the recipe it would be built from now.
DueForRebuild(releases, identity) ==
  {r \in BranchHeads(releases) :
     r.v.branch \in DOMAIN identity /\ r.recipe # identity[r.v.branch]}

PendingRebuildCounted(releases, identity) ==
  LET due == DueForRebuild(releases, identity)
      newest == CHOOSE r \in due : \A s \in due : ~Above(s.v, r.v)
      published == {r \in Published(releases) : r.v.branch = newest.v.branch}
  IN IF due = {} THEN None ELSE [newest.v EXCEPT !.rev = Cardinality(published)]

PendingRebuild(releases, identity) ==
  LET due == DueForRebuild(releases, identity)
      newest == CHOOSE r \in due : \A s \in due : ~Above(s.v, r.v)
  IN IF due = {} THEN None ELSE [newest.v EXCEPT !.rev = @ + 1]

\* A release whose key follows from its tag alone.  x.y.0 may have been a
\* new_branch as well as a new_patch, so only its rebuilds qualify.
Recoverable(v) == v.patch > 0 \/ v.rev > 0

\* One published release that no event record names.
UnrecordedRelease(releases, recorded) ==
  LET missing == {r.v : r \in Published(releases)} \ recorded
      found == {v \in missing : Recoverable(v)}
  IN IF found = {} THEN None ELSE CHOOSE v \in found : TRUE

(***************************************************************************)
(* watch_decision.  w is what the investigation captured: healthy and      *)
(* sourcesHealthy, the incomplete records, the captures that differ from   *)
(* the last reviewed evidence, whether HEAD is the commit that recorded    *)
(* that evidence, the releases, the recipe identities and the recorded     *)
(* keys.                                                                   *)
(***************************************************************************)
SnapshotIsTrusted(w) == w.healthy /\ w.sourcesHealthy

Quiet(w) ==
  \/ w.changed = {}
  \/ w.selfEvidence /\ w.changed = {"php_bin_state"}

EvidenceTrigger(w) ==
  CASE ~w.healthy                           -> "health_failed"
    [] w.healthy /\ ~w.sourcesHealthy       -> "source_unhealthy"
    [] SnapshotIsTrusted(w) /\ w.incomplete -> "event_incomplete"
    [] SnapshotIsTrusted(w) /\ ~w.incomplete /\ ~Quiet(w) -> "evidence_changed"
    [] OTHER                                -> "quiet"

WakeOnEvidence(w, rebuild) == EvidenceTrigger(w)

\* A due rebuild wakes the classifier on a quiet day too.
Wake(w, rebuild) ==
  IF rebuild # None /\ EvidenceTrigger(w) = "quiet"
  THEN "rebuild_due" ELSE EvidenceTrigger(w)

WatchDecision(w) ==
  LET rebuild == IF SnapshotIsTrusted(w)
                 THEN PendingRebuild(w.releases, w.identity) ELSE None
      unrecorded == IF SnapshotIsTrusted(w)
                    THEN UnrecordedRelease(w.releases, w.recorded) ELSE None
  IN [trigger |-> IF unrecorded # None THEN "record_missing" ELSE Wake(w, rebuild),
      classify |-> Wake(w, rebuild) # "quiet",
      rebuild |-> rebuild,
      record |-> unrecorded]

(***************************************************************************)
(* The plan, over the captured newest patch of each branch's own feed.     *)
(* Every branch here has shipped before.                                   *)
(***************************************************************************)
Completed(releases, completed) ==
  {r.v : r \in Published(releases)} \cup completed

\* The branches whose feed names a patch above everything published on them.
PatchDue(feed, releases, completed) ==
  {b \in DOMAIN feed :
     \A v \in Completed(releases, completed) : v.branch = b => v.patch < feed[b]}

Plan(action, v) == [action |-> action, v |-> v]

ClassifyPatches(decision, feed, releases, completed) ==
  LET due == PatchDue(feed, releases, completed)
      oldest == CHOOSE b \in due : \A c \in due : b <= c
  IN IF decision.trigger \in {"health_failed", "source_unhealthy"}
     THEN Plan("blocked", None)
     ELSE IF due # {}
     THEN Plan("new_patch", [branch |-> oldest, patch |-> feed[oldest], rev |-> 0])
     ELSE Plan("no_change", None)

\* The first branch with a due patch, else the selected rebuild.
Classify(decision, feed, releases, completed) ==
  LET due == PatchDue(feed, releases, completed)
      oldest == CHOOSE b \in due : \A c \in due : b <= c
  IN IF decision.trigger \in {"health_failed", "source_unhealthy"}
     THEN Plan("blocked", None)
     ELSE IF due # {}
     THEN Plan("new_patch", [branch |-> oldest, patch |-> feed[oldest], rev |-> 0])
     ELSE IF decision.rebuild # None
     THEN Plan("recipe_rebuild", decision.rebuild)
     ELSE Plan("no_change", None)

\* Admission selects the rebuild again and refuses what is already completed.
Admits(plan, pendingRebuild, completed) ==
  /\ plan.action = "no_change" => pendingRebuild = None
  /\ plan.action = "recipe_rebuild" => plan.v = pendingRebuild
  /\ plan.v \notin completed

(***************************************************************************)
(* route_watch_action.  The decision d carries action, key, recordKey,     *)
(* edits, recoveryMerged, evidenceRecorded and publishInFlight.            *)
(***************************************************************************)
LifecycleActions == {"new_branch", "branch_eol"}
PublishActions == {"new_patch", "new_branch", "recipe_rebuild"}
NoWorkActions == {"no_change", "blocked", "needs_human"}
RecoveryAction == "record_completed_event"
HeldForPublish ==
  {"no_change_evidence", "dispatch_implementation", "dispatch_publish",
   "complete_branch_eol"}

RecoveryKey(d) ==
  IF d.recordKey = None /\ d.action = RecoveryAction THEN d.key ELSE d.recordKey

RecoveryRoute(d) ==
  IF RecoveryKey(d) # None /\ ~d.publishInFlight THEN "recover_record" ELSE "none"

ReleasePublishedAlready(d) ==
  d.action \in PublishActions /\ d.recordKey # None /\ d.key = d.recordKey

\* What would commit or build against the base the recovered record just moved.
DeferredByRecovery(d) ==
  /\ d.recoveryMerged
  /\ \/ d.action \in PublishActions \cup {"branch_eol", "no_change"}
     \/ d.edits /\ d.action \in LifecycleActions

RouteByAction(d) ==
  CASE d.action \in LifecycleActions -> "dispatch_implementation"
    [] d.action \in PublishActions \ LifecycleActions -> "dispatch_publish"
    [] d.action = "no_change" -> "no_change_evidence"
    [] OTHER -> "none"

PlanRoute(d) ==
  IF d.action \in {"none", RecoveryAction} \/ ReleasePublishedAlready(d)
       \/ DeferredByRecovery(d) \/ (d.action = "no_change" /\ d.evidenceRecorded)
  THEN "none"
  ELSE IF d.action \in {"blocked", "needs_human"} THEN "notify_blocked"
  ELSE IF d.action = "no_change" THEN "no_change_evidence"
  ELSE IF d.edits
  THEN IF d.action \in LifecycleActions THEN "dispatch_implementation" ELSE "error"
  ELSE IF d.action \in PublishActions THEN "dispatch_publish"
  ELSE IF d.action = "branch_eol" THEN "complete_branch_eol"
  ELSE "error"

RouteAtOnce(d) == [route |-> PlanRoute(d), recoveryRoute |-> RecoveryRoute(d)]

Route(d) ==
  [route |-> IF d.publishInFlight /\ PlanRoute(d) \in HeldForPublish
             THEN "none" ELSE PlanRoute(d),
   recoveryRoute |-> RecoveryRoute(d)]

\* The first of the two calls of one run knows the record key and the flag alone.
RecoveryCall(recordKey, inFlight) ==
  [action |-> "none", key |-> None, recordKey |-> recordKey, edits |-> FALSE,
   recoveryMerged |-> FALSE, evidenceRecorded |-> FALSE,
   publishInFlight |-> inFlight]
=============================================================================
