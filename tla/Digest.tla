------------------------------- MODULE Digest -------------------------------
(***************************************************************************)
(* The one mail a watcher run sends (email_digest, email_fallback): which  *)
(* fixed template the retained state of the run selects.  Wording is left  *)
(* out.  A report is [conclusion, decision, plan, inFlight]; decision is   *)
(* [classify, ...] or None, plan [action, key, ...] or None.               *)
(***************************************************************************)
EXTENDS Status

\* The actions whose route moves main or starts work.
MailHeldActions == {"no_change", "new_patch", "new_branch", "branch_eol", "recipe_rebuild"}

HoldsReleases(action) == action \in PublishActions

HeldMail(action) == action \in MailHeldActions

StartedMail ==
  [recipe_rebuild |-> "recipe_rebuild_started", no_change |-> "no_change_reviewed",
   new_patch |-> "new_patch_started", new_branch |-> "new_branch_detected",
   branch_eol |-> "branch_eol_started", blocked |-> "watcher_attention",
   needs_human |-> "watcher_attention"]

WatcherDigest(report) ==
  IF report.conclusion # "success" THEN "watcher_failed"
  ELSE IF report.decision = None THEN "unexpected_state"
  ELSE IF ~report.decision.classify THEN "quiet_day"
  ELSE IF report.plan = None THEN "unexpected_state"
  ELSE IF ~KeyFitsAction(report.plan.action, report.plan.key) THEN "unexpected_state"
  ELSE IF report.inFlight /\ HeldMail(report.plan.action) THEN "held_for_publish"
  ELSE StartedMail[report.plan.action]
=============================================================================
