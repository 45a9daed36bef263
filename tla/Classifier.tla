----------------------------- MODULE Classifier -----------------------------
(***************************************************************************)
(* classify_evidence (autorelease/_classifier.py): one retained watcher    *)
(* capture becomes exactly one plan, by fixed rules in a fixed order.      *)
(*                                                                         *)
(* The input w holds captures, decision [trigger, incomplete, rebuild],    *)
(* events (key -> [state, ...]), maintained (branches) and policyKey.      *)
(*                                                                         *)
(* Action keys are tuples led by their family: <<"new_patch", b, p>>,      *)
(* <<"recipe_rebuild", b, p, n>>, <<"new_branch", b>>,                     *)
(* <<"branch_eol", b, date>>, <<"no_change", manifest>> and the keys of    *)
(* stops.  A rule yields a plan or None; one that cannot read a body       *)
(* yields the stop that names it, where the code raises SourceFormatError. *)
(***************************************************************************)
EXTENDS Evidence

SupportStates == {"stable", "security", "eol", "future"}
SupportedStates == {"stable", "security"}

Oldest(branches) == CHOOSE b \in branches : \A c \in branches : b <= c

(***************************************************************************)
(* parse_supported_versions, once the page has its table and headers.      *)
(***************************************************************************)
PageReads(capture) ==
  LET rows == capture.body IN
  /\ capture.shaped
  /\ rows # <<>>
  /\ \A i \in DOMAIN rows :
       /\ rows[i].state \in SupportStates
       /\ rows[i].dates[1] <= rows[i].dates[2] /\ rows[i].dates[2] <= rows[i].dates[3]
       /\ \A j \in DOMAIN rows : rows[j].branch = rows[i].branch => i = j

SupportRows(capture) ==
  LET rows == capture.body IN
  [b \in {rows[i].branch : i \in DOMAIN rows} |->
     rows[CHOOSE i \in DOMAIN rows : rows[i].branch = b]]

SecurityUntil(row) == row.dates[3]

(***************************************************************************)
(* Plans.  The preconditions a plan copies from its input belong to the    *)
(* run that holds it.                                                      *)
(***************************************************************************)
PlanOf(action, key, evidence, version) ==
  [action |-> action, key |-> key, evidence |-> evidence, edits |-> FALSE,
   allowed |-> {}, version |-> version,
   risk |-> IF action \in LifecycleActions THEN "lifecycle" ELSE "routine"]

Stop(action, key, evidence) ==
  [PlanOf(action, key, evidence, None) EXCEPT !.risk = "recovery"]

\* A merged edit that is still owed its record: it needs the implementation
\* run, and may change nothing.
LifecycleResume(action, key, evidence, version) ==
  [PlanOf(action, key, evidence, version) EXCEPT !.edits = TRUE]

SourceFormatStop(w, id) ==
  Stop("blocked", <<"source_unhealthy", {id}, w.captures[id]>>,
       {Cite(w.captures, <<"evidence_manifest">>, id)})

(***************************************************************************)
(* What the rules read.                                                    *)
(***************************************************************************)
CompletedKeys(w) == {k \in DOMAIN w.events : w.events[k].state = "complete"}

PublishedVersions(w) ==
  {Version(r.v.branch, r.v.patch) : r \in w.captures[Releases].body} \cup
  {Version(k[2], k[3]) :
     k \in {key \in CompletedKeys(w) : key[1] \in {"new_patch", "recipe_rebuild"}}}

ShippedBranches(w) ==
  {v.branch : v \in PublishedVersions(w)} \cup
  {k[2] : k \in {key \in CompletedKeys(w) : key[1] = "new_branch"}}

OwnFeedIsMisshapen(w, branch) ==
  Feed(branch) \in DOMAIN w.captures /\ ~w.captures[Feed(branch)].shaped

AnyFeedReads(w, branch) == TRUE

FeedsRead(w, branch) == ~OwnFeedIsMisshapen(w, branch) /\ w.captures[Aggregate].shaped

\* The capture a look at branch's feeds fails on: its own first.
UnreadableFeed(w, branch) == IF OwnFeedIsMisshapen(w, branch) THEN Feed(branch) ELSE Aggregate

\* Only a capture older than the per-branch feeds falls back on the aggregate.
OfferedVersion(w, branch) ==
  LET aggregate == AggregateVersion(w.captures, Major(branch))
  IN IF Feed(branch) \in DOMAIN w.captures THEN BranchFeedVersion(w.captures, branch)
     ELSE IF aggregate # None /\ aggregate.branch = branch THEN aggregate ELSE None

\* The one feed value that proves v, or None.
FeedProof(w, v) ==
  LET own == Feed(v.branch) IN
  IF own \in DOMAIN w.captures
  THEN IF BranchFeedVersion(w.captures, v.branch) = v THEN Cite(w.captures, own, None) ELSE None
  ELSE IF AggregateVersion(w.captures, Major(v.branch)) = v
       THEN Cite(w.captures, Aggregate, Major(v.branch)) ELSE None

(***************************************************************************)
(* health                                                                  *)
(***************************************************************************)
SourcesFail(w) == w.decision.trigger = "health_failed" \/ Unhealthy(w.captures) # {}

Health(w) ==
  IF w.decision.trigger = "health_failed"
  THEN Stop("blocked", <<"health_failed", w.captures>>,
            {Cite(w.captures, <<"watch_decision">>, "trigger")})
  ELSE Stop("blocked", <<"source_unhealthy", Unhealthy(w.captures)>>,
            {Cite(w.captures, <<"evidence_manifest">>, id) : id \in Unhealthy(w.captures)})

(***************************************************************************)
(* recipe_rebuild: the one the watch decision selected, citing the release *)
(* it supersedes.                                                          *)
(***************************************************************************)
ReleaseKey(v) ==
  IF v.rev = 0 THEN <<"new_patch", v.branch, v.patch>>
  ELSE <<"recipe_rebuild", v.branch, v.patch, v.rev>>

RebuildIsSelected(w) == w.decision.rebuild # None

RecipeRebuild(w) ==
  LET v == w.decision.rebuild IN
  IF ~w.captures[Releases].shaped THEN SourceFormatStop(w, Releases)
  ELSE PlanOf("recipe_rebuild", ReleaseKey(v),
              {Cite(w.captures, Releases, [v EXCEPT !.rev = @ - 1])}, v)

(***************************************************************************)
(* new_patch: the first maintained branch whose feed has news.             *)
(***************************************************************************)
NewBranchKey(branch) == <<"new_branch", branch>>

\* The accepted policy is this branch's own edit and no record exists for it.
OwedResume(w, branch) ==
  w.policyKey = NewBranchKey(branch) /\ w.policyKey \notin DOMAIN w.events

BehindWhatShipped(w, v) ==
  \E p \in PublishedVersions(w) : p.branch = v.branch /\ v.patch <= p.patch

NeverWaits(w, v) == FALSE

WaitsForItsFeed(w, v) ==
  /\ v.branch \in ShippedBranches(w) \/ OwedResume(w, v.branch)
  /\ w.captures[Aggregate].shaped
  /\ SupersededBy(w.captures, v) # {}

NoNews(w, branch) ==
  LET v == OfferedVersion(w, branch) IN
  /\ Feed(branch) \in DOMAIN w.captures => w.captures[Feed(branch)].shaped
  /\ Feed(branch) \notin DOMAIN w.captures => w.captures[Aggregate].shaped
  /\ \/ v = None
     \/ BehindWhatShipped(w, v)
     \/ WaitsForItsFeed(w, v)

PatchOn(w, branch) ==
  LET v == OfferedVersion(w, branch)
      proof == {FeedProof(w, v)}
      isRead == \/ OwnFeedIsMisshapen(w, branch)
                \/ Feed(branch) \notin DOMAIN w.captures
                \/ branch \in ShippedBranches(w) \/ OwedResume(w, branch)
  IN IF ~FeedsRead(w, branch) /\ isRead
     THEN SourceFormatStop(w, UnreadableFeed(w, branch))
     ELSE IF branch \in ShippedBranches(w)
     THEN PlanOf("new_patch", ReleaseKey(v), proof, v)
     ELSE IF OwedResume(w, branch)
     THEN LifecycleResume("new_branch", NewBranchKey(branch), proof, v)
     ELSE Stop("needs_human", NewBranchKey(branch), proof)

NewPatch(w) ==
  LET news == {b \in w.maintained : ~NoNews(w, b)} IN
  IF ~w.captures[Releases].shaped THEN SourceFormatStop(w, Releases)
  ELSE IF news = {} THEN None ELSE PatchOn(w, Oldest(news))

(***************************************************************************)
(* incomplete_event: the first incomplete record resumes under its key.    *)
(***************************************************************************)
FamilyOrder == <<"branch_eol", "new_branch", "new_patch", "recipe_rebuild">>
Place(key) == CHOOSE i \in DOMAIN FamilyOrder : FamilyOrder[i] = key[1]

FirstIncomplete(w) ==
  CHOOSE k \in w.decision.incomplete :
    \A other \in w.decision.incomplete :
      \/ Place(k) < Place(other)
      \/ Place(k) = Place(other) /\ k[2] <= other[2]

\* The version the resumed release takes now, or None.
ResumedVersion(w, key) ==
  LET own == BranchFeedVersion(w.captures, key[2])
      aggregate == AggregateVersion(w.captures, Major(key[2]))
  IN IF key[1] = "new_patch" THEN Version(key[2], key[3])
     ELSE IF own # None THEN own
     ELSE IF aggregate # None /\ aggregate.branch = key[2] THEN aggregate ELSE None

ResumedRelease(w, key) ==
  LET cited == Cite(w.captures, <<"watch_decision">>, key)
      v == ResumedVersion(w, key)
  IN IF ~FeedsRead(w, key[2]) THEN SourceFormatStop(w, UnreadableFeed(w, key[2]))
     ELSE IF v = None \/ (v # None /\ (FeedProof(w, v) = None \/ SupersededBy(w.captures, v) # {}))
     THEN Stop("needs_human", key, {cited})
     ELSE PlanOf(key[1], key, {FeedProof(w, v), cited}, v)

NotYetReleased(record) == record.state # "release_requested"

\* Only a person moves a stopped record on.
IsStopped(record) == record.state \in {"blocked", "needs_human"}

IncompleteEvent(w) ==
  LET key == FirstIncomplete(w)
      cited == Cite(w.captures, <<"watch_decision">>, key)
  IN IF IsStopped(w.events[key])
     THEN Stop("needs_human", key, {cited})
     ELSE IF key[1] = "branch_eol" THEN PlanOf("branch_eol", key, {cited}, None)
     ELSE IF key[1] = "recipe_rebuild"
     THEN IF RebuildIsSelected(w) /\ ReleaseKey(w.decision.rebuild) = key
          THEN RecipeRebuild(w) ELSE Stop("needs_human", key, {cited})
     ELSE ResumedRelease(w, key)

\* The only incomplete record is lifecycle work that waits for mise-php.
WaitingLifecycleRecord(w) ==
  /\ Cardinality(w.decision.incomplete) = 1
  /\ \A k \in w.decision.incomplete :
       k[1] \in LifecycleActions /\ w.events[k].state = "php_bin_ready"

ResumeInOrder(w) == IncompleteEvent(w)

\* A due patch goes first when the record only waits.
ResumeIncomplete(w) ==
  LET resumed == IncompleteEvent(w)
      patch == NewPatch(w)
  IN IF /\ resumed.action \in LifecycleActions
        /\ WaitingLifecycleRecord(w)
        /\ patch # None /\ patch.action = "new_patch"
     THEN patch ELSE resumed

(***************************************************************************)
(* lifecycle                                                               *)
(***************************************************************************)
Vanished(w, rows) == {b \in w.maintained : b \notin DOMAIN rows}
Misclassified(w, rows) == {b \in w.maintained \cap DOMAIN rows : rows[b].state = "future"}
UnmaintainedOlder(w, rows) ==
  {b \in DOMAIN rows \ w.maintained :
     rows[b].state \in SupportedStates /\ \E c \in w.maintained : b < c}

Contradiction(w, rows) ==
  Vanished(w, rows) \cup Misclassified(w, rows) \cup UnmaintainedOlder(w, rows)

ContradictionStop(w, rows) ==
  Stop("needs_human",
       <<"policy_failure", Vanished(w, rows), Misclassified(w, rows), UnmaintainedOlder(w, rows)>>,
       {Cite(w.captures, <<"evidence_manifest">>, Page)})

NoRetirementIsOwed(w, rows) == FALSE

\* The accepted policy retired a branch the page does not support, and no record
\* exists for it.
RetirementIsOwed(w, rows) ==
  LET key == w.policyKey IN
  /\ key[1] = "branch_eol" /\ key[2] \notin w.maintained /\ key \notin DOMAIN w.events
  /\ key[2] \in DOMAIN rows => rows[key[2]].state = "eol"

\* Its edit took the branch out of the policy, so no other rule reads it again.
ResumedRetirement(w, rows) ==
  LET key == w.policyKey
      cited == IF key[2] \in DOMAIN rows THEN Cite(w.captures, Page, key[2])
               ELSE Cite(w.captures, <<"evidence_manifest">>, Page)
  IN LifecycleResume("branch_eol", key, {cited}, None)

NoResumePending(w) == FALSE

\* No fresh edit may overwrite the policy key of a new branch still owed its record.
BranchResumePending(w) ==
  /\ w.policyKey[1] = "new_branch"
  /\ w.policyKey[2] \in w.maintained \ ShippedBranches(w)

NewBranches(w, rows) ==
  {b \in DOMAIN rows \ w.maintained :
     /\ rows[b].state \in SupportedStates
     /\ \E v \in {AggregateVersion(w.captures, Major(b))} : v # None /\ v.branch = b}

EndedBranches(w, rows) == {b \in w.maintained : rows[b].state = "eol"}

PolicyOnlyPlan(w, branch) ==
  [PlanOf("new_branch", NewBranchKey(branch), {Cite(w.captures, Aggregate, Major(branch))},
          AggregateVersion(w.captures, Major(branch)))
     EXCEPT !.edits = TRUE, !.allowed = {PolicyPath}]

NewBranchPlan(w, branch) ==
  [PlanOf("new_branch", NewBranchKey(branch),
          {Cite(w.captures, Aggregate, Major(branch)), Cite(w.captures, Page, branch)},
          AggregateVersion(w.captures, Major(branch)))
     EXCEPT !.edits = TRUE, !.allowed = {ListPath(branch), PolicyPath}]

RetirementPlan(w, row) ==
  [PlanOf("branch_eol", <<"branch_eol", row.branch, SecurityUntil(row)>>,
          {Cite(w.captures, Page, row.branch)}, None)
     EXCEPT !.edits = TRUE, !.allowed = {PolicyPath}]

LifecycleOf(w, rows) ==
  IF Contradiction(w, rows) # {} THEN ContradictionStop(w, rows)
  ELSE IF RetirementIsOwed(w, rows) THEN ResumedRetirement(w, rows)
  ELSE IF BranchResumePending(w) THEN None
  ELSE IF DOMAIN rows \ w.maintained # {} /\ ~w.captures[Aggregate].shaped
          /\ \E b \in DOMAIN rows \ w.maintained : rows[b].state \in SupportedStates
  THEN SourceFormatStop(w, Aggregate)
  ELSE IF NewBranches(w, rows) # {} THEN NewBranchPlan(w, Oldest(NewBranches(w, rows)))
  ELSE IF EndedBranches(w, rows) # {} THEN RetirementPlan(w, rows[Oldest(EndedBranches(w, rows))])
  ELSE None

Lifecycle(w) ==
  IF PageReads(w.captures[Page]) THEN LifecycleOf(w, SupportRows(w.captures[Page]))
  ELSE SourceFormatStop(w, Page)

NoChange(w) ==
  PlanOf("no_change", <<"no_change", w.captures>>,
         {Cite(w.captures, <<"evidence_manifest">>, "manifestDigest")}, None)

(***************************************************************************)
(* classify_evidence                                                       *)
(***************************************************************************)
LifecycleFirst(w) ==
  IF SourcesFail(w) THEN Health(w)
  ELSE IF Lifecycle(w) # None THEN Lifecycle(w)
  ELSE IF w.decision.incomplete # {} THEN ResumeIncomplete(w)
  ELSE IF NewPatch(w) # None THEN NewPatch(w)
  ELSE NoChange(w)

RebuildsFirst(w) ==
  IF SourcesFail(w) THEN Health(w)
  ELSE IF w.decision.incomplete # {} THEN ResumeIncomplete(w)
  ELSE IF RebuildIsSelected(w) THEN RecipeRebuild(w)
  ELSE IF NewPatch(w) # None THEN NewPatch(w)
  ELSE IF Lifecycle(w) # None THEN Lifecycle(w)
  ELSE NoChange(w)

ClassifyEvidence(w) ==
  IF SourcesFail(w) THEN Health(w)
  ELSE IF w.decision.incomplete # {} THEN ResumeIncomplete(w)
  ELSE IF NewPatch(w) # None THEN NewPatch(w)
  ELSE IF Lifecycle(w) # None THEN Lifecycle(w)
  ELSE IF RebuildIsSelected(w) THEN RecipeRebuild(w)
  ELSE NoChange(w)
=============================================================================
