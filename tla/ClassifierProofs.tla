-------------------------- MODULE ClassifierProofs --------------------------
(***************************************************************************)
(* Proofs about the classifier, for any capture, decision, records and     *)
(* policy.  Each rule has a lemma of its own, and a theorem follows the    *)
(* order of the rules.                                                     *)
(*                                                                         *)
(* First what a plan rests on (PlansAreSound) and when an edit or a        *)
(* release is planned; then, for the readings of a sound commit, that      *)
(* admission accepts every plan (PlansAreAccepted).                        *)
(***************************************************************************)
EXTENDS Classifier, Admission, WatchRulesProofs

RoutableActions == LifecycleActions \cup PublishActions \cup NoWorkActions

\* A plan the coordinate job can route: only lifecycle work edits the repository.
IsRoutable(plan) ==
  /\ plan.action \in RoutableActions
  /\ plan.edits => plan.action \in LifecycleActions

CanBeRead(w, id) == w.captures[id].shaped /\ (id = Page => PageReads(w.captures[id]))

\* A plan that, if it is work, cites nothing the readers could not read.
IsReadable(w, plan) ==
  plan.action \notin NoWorkActions => \A id \in Cited(plan) : CanBeRead(w, id)

IsSound(w, plan) == IsRoutable(plan) /\ IsReadable(w, plan)

LEMMA OldestIsOne ==
  ASSUME NEW S, S \subseteq Nat, S # {}
  PROVE  Oldest(S) \in S /\ \A c \in S : Oldest(S) <= c
BY LeastOfSome DEF Oldest

\* What cites one capture can be read when that capture can.
LEMMA OneCitation ==
  ASSUME NEW w, NEW plan, NEW id,
         \A item \in plan.evidence : item.id \in RuntimeEvidence \/ item.id = id,
         CanBeRead(w, id)
  PROVE  IsReadable(w, plan)
BY DEF IsReadable, Cited, Captured

\* A stop is no work and changes nothing.
LEMMA StopsAreSound ==
  ASSUME NEW w, NEW plan, plan.action \in {"blocked", "needs_human"}, ~plan.edits
  PROVE  IsSound(w, plan)
BY DEF IsSound, IsRoutable, IsReadable, RoutableActions, NoWorkActions

LEMMA FormatStop ==
  ASSUME NEW w, NEW id
  PROVE  LET plan == SourceFormatStop(w, id) IN
         IsSound(w, plan) /\ ~plan.edits /\ plan.action = "blocked"
<1>1. ~SourceFormatStop(w, id).edits /\ SourceFormatStop(w, id).action = "blocked"
  BY DEF SourceFormatStop, Stop, PlanOf
<1> QED BY <1>1, StopsAreSound

-----------------------------------------------------------------------------
(* The rules, one by one. *)

LEMMA HealthIsSound ==
  ASSUME NEW w
  PROVE  IsSound(w, Health(w)) /\ ~Health(w).edits
<1>1. Health(w).action = "blocked" /\ ~Health(w).edits
  BY DEF Health, Stop, PlanOf
<1> QED BY <1>1, StopsAreSound

LEMMA RebuildIsSound ==
  ASSUME NEW w, RebuildIsSelected(w)
  PROVE  IsSound(w, RecipeRebuild(w)) /\ ~RecipeRebuild(w).edits
<1>1. CASE ~w.captures[Releases].shaped
  BY <1>1, FormatStop DEF RecipeRebuild
<1>2. CASE w.captures[Releases].shaped
  <2>1. /\ RecipeRebuild(w).action = "recipe_rebuild" /\ ~RecipeRebuild(w).edits
        /\ \A item \in RecipeRebuild(w).evidence : item.id = Releases
    BY <1>2 DEF RecipeRebuild, PlanOf, Cite
  <2>2. CanBeRead(w, Releases)
    BY <1>2 DEF CanBeRead, Releases, Page
  <2>3. IsReadable(w, RecipeRebuild(w))
    BY <2>1, <2>2, OneCitation
  <2>4. IsRoutable(RecipeRebuild(w))
    BY <2>1 DEF IsRoutable, RoutableActions, PublishActions
  <2> QED BY <2>1, <2>3, <2>4 DEF IsSound
<1> QED BY <1>1, <1>2

\* A feed that proves a version can be read once the feeds of its branch can.
LEMMA ProofIsReadable ==
  ASSUME NEW w, NEW v, FeedsRead(w, v.branch), FeedProof(w, v) # None
  PROVE  CanBeRead(w, FeedProof(w, v).id)
<1>1. /\ w.captures[Aggregate].shaped
      /\ Feed(v.branch) \in DOMAIN w.captures => w.captures[Feed(v.branch)].shaped
  BY DEF FeedsRead, OwnFeedIsMisshapen
<1>2. \/ FeedProof(w, v).id = Aggregate
      \/ Feed(v.branch) \in DOMAIN w.captures /\ FeedProof(w, v).id = Feed(v.branch)
  BY DEF FeedProof, Cite
<1>3. Aggregate # Page /\ Feed(v.branch) # Page
  BY DEF Aggregate, Page, Feed
<1> QED BY <1>1, <1>2, <1>3 DEF CanBeRead

\* The version a branch is offered is proved by the feed that offers it.
LEMMA OfferIsProved ==
  ASSUME NEW w, NEW branch, OfferedVersion(w, branch) # None
  PROVE  LET v == OfferedVersion(w, branch) IN
         v.branch = branch /\ FeedProof(w, v) = Cite(w.captures,
            IF Feed(branch) \in DOMAIN w.captures THEN Feed(branch) ELSE Aggregate,
            IF Feed(branch) \in DOMAIN w.captures THEN None ELSE Major(branch))
<1> DEFINE v == OfferedVersion(w, branch)
<1>1. CASE Feed(branch) \in DOMAIN w.captures
  <2>1. v = BranchFeedVersion(w.captures, branch) /\ v.branch = branch
    BY <1>1 DEF OfferedVersion, BranchFeedVersion, Version
  <2> HIDE DEF v
  <2> QED BY <1>1, <2>1 DEF FeedProof, v
<1>2. CASE Feed(branch) \notin DOMAIN w.captures
  <2>1. v = AggregateVersion(w.captures, Major(branch)) /\ v.branch = branch
    BY <1>2 DEF OfferedVersion
  <2> HIDE DEF v
  <2> QED BY <1>2, <2>1 DEF FeedProof, v
<1> QED BY <1>1, <1>2

LEMMA PatchIsSound ==
  ASSUME NEW w, NEW branch, OfferedVersion(w, branch) # None
  PROVE  /\ IsSound(w, PatchOn(w, branch))
         /\ PatchOn(w, branch).edits =>
              /\ PatchOn(w, branch).action = "new_branch" /\ PatchOn(w, branch).allowed = {}
              /\ PatchOn(w, branch).key = w.policyKey /\ OwedResume(w, branch)
<1> DEFINE v == OfferedVersion(w, branch)
           plan == PatchOn(w, branch)
           taken == branch \in ShippedBranches(w) \/ OwedResume(w, branch)
           isRead == \/ OwnFeedIsMisshapen(w, branch)
                     \/ Feed(branch) \notin DOMAIN w.captures
                     \/ taken
<1>1. CASE ~FeedsRead(w, branch) /\ isRead
  BY <1>1, FormatStop DEF PatchOn
<1>2. CASE ~(~FeedsRead(w, branch) /\ isRead) /\ ~taken
  <2>1. plan.action = "needs_human" /\ ~plan.edits
    BY <1>2 DEF PatchOn, Stop, PlanOf
  <2> QED BY <2>1, StopsAreSound
<1>3. CASE FeedsRead(w, branch) /\ taken
  <2>1. /\ plan.action \in {"new_patch", "new_branch"}
        /\ plan.edits => /\ plan.action = "new_branch" /\ plan.allowed = {}
                         /\ plan.key = NewBranchKey(branch) /\ OwedResume(w, branch)
        /\ plan.evidence = {FeedProof(w, v)}
    BY <1>3 DEF PatchOn, LifecycleResume, PlanOf
  <2>2. FeedProof(w, v).id = IF Feed(branch) \in DOMAIN w.captures THEN Feed(branch) ELSE Aggregate
    BY OfferIsProved DEF Cite
  <2>3. CanBeRead(w, FeedProof(w, v).id)
    BY <1>3, <2>2 DEF FeedsRead, OwnFeedIsMisshapen, CanBeRead, Feed, Aggregate, Page
  <2>4. IsReadable(w, plan)
    BY <2>1, <2>3, OneCitation
  <2>5. IsRoutable(plan)
    BY <2>1 DEF IsRoutable, RoutableActions, LifecycleActions, PublishActions
  <2>6. OwedResume(w, branch) => NewBranchKey(branch) = w.policyKey
    BY DEF OwedResume
  <2> QED BY <2>1, <2>4, <2>5, <2>6 DEF IsSound
<1> QED BY <1>1, <1>2, <1>3

LEMMA NewPatchIsSound ==
  ASSUME NEW w, w.maintained \subseteq Nat, NewPatch(w) # None
  PROVE  /\ IsSound(w, NewPatch(w))
         /\ NewPatch(w).edits =>
              /\ NewPatch(w).action = "new_branch" /\ NewPatch(w).allowed = {}
              /\ NewPatch(w).key = w.policyKey
              /\ \E b \in w.maintained : OwedResume(w, b)
<1> DEFINE news == {b \in w.maintained : ~NoNews(w, b)}
<1>1. CASE ~w.captures[Releases].shaped
  BY <1>1, FormatStop DEF NewPatch
<1>2. CASE w.captures[Releases].shaped
  <2>1. news # {} /\ NewPatch(w) = PatchOn(w, Oldest(news))
    BY <1>2 DEF NewPatch
  <2>2. Oldest(news) \in news
    BY <2>1, OldestIsOne
  <2> DEFINE branch == Oldest(news)
  <2>3. branch \in w.maintained /\ ~NoNews(w, branch)
    BY <2>2
  <2> HIDE DEF branch
  <2>4. CASE OfferedVersion(w, branch) # None
    BY <2>1, <2>3, <2>4, PatchIsSound DEF branch
  <2>5. CASE ~FeedsRead(w, branch) /\ (OwnFeedIsMisshapen(w, branch) \/ Feed(branch) \notin DOMAIN w.captures)
    <3>1. PatchOn(w, branch) = SourceFormatStop(w, UnreadableFeed(w, branch))
      BY <2>5 DEF PatchOn
    <3> QED BY <2>1, <3>1, FormatStop DEF branch
  <2>6. \/ OfferedVersion(w, branch) # None
        \/ ~FeedsRead(w, branch) /\ (OwnFeedIsMisshapen(w, branch) \/ Feed(branch) \notin DOMAIN w.captures)
    BY <2>3 DEF NoNews, FeedsRead, OwnFeedIsMisshapen
  <2> QED BY <2>4, <2>5, <2>6
<1> QED BY <1>1, <1>2

\* A resumed record never leads to an edit.
LEMMA ResumedReleaseIsSound ==
  ASSUME NEW w, NEW key, key[1] \in {"new_patch", "new_branch"}
  PROVE  IsSound(w, ResumedRelease(w, key)) /\ ~ResumedRelease(w, key).edits
<1> DEFINE v == ResumedVersion(w, key)
           plan == ResumedRelease(w, key)
           proved == v # None /\ FeedProof(w, v) # None /\ SupersededBy(w.captures, v) = {}
<1>1. CASE ~FeedsRead(w, key[2])
  BY <1>1, FormatStop DEF ResumedRelease
<1>2. CASE FeedsRead(w, key[2]) /\ ~proved
  <2>1. plan.action = "needs_human" /\ ~plan.edits
    BY <1>2 DEF ResumedRelease, Stop, PlanOf
  <2> QED BY <2>1, StopsAreSound
<1>3. CASE FeedsRead(w, key[2]) /\ proved
  <2>1. v.branch = key[2]
    BY <1>3 DEF ResumedVersion, Version, BranchFeedVersion
  <2> HIDE DEF v
  <2>2. /\ plan.action = key[1] /\ ~plan.edits
        /\ \A item \in plan.evidence :
             item = FeedProof(w, v) \/ item.id = <<"watch_decision">>
    BY <1>3 DEF ResumedRelease, PlanOf, Cite, v
  <2>3. CanBeRead(w, FeedProof(w, v).id)
    BY <1>3, <2>1, ProofIsReadable
  <2>4. IsReadable(w, plan)
    BY <2>2, <2>3, OneCitation DEF RuntimeEvidence
  <2>5. IsRoutable(plan)
    BY <2>2 DEF IsRoutable, RoutableActions, LifecycleActions, PublishActions
  <2> QED BY <2>2, <2>4, <2>5 DEF IsSound
<1> QED BY <1>1, <1>2, <1>3

LEMMA IncompleteIsSound ==
  ASSUME NEW w, FirstIncomplete(w)[1] \in {"branch_eol", "new_branch", "new_patch", "recipe_rebuild"}
  PROVE  IsSound(w, IncompleteEvent(w)) /\ ~IncompleteEvent(w).edits
<1> DEFINE key == FirstIncomplete(w)
           plan == IncompleteEvent(w)
           selected == RebuildIsSelected(w) /\ ReleaseKey(w.decision.rebuild) = key
<1>1. CASE IsStopped(w.events[key]) \/ (key[1] = "recipe_rebuild" /\ ~selected)
  <2>1. plan.action = "needs_human" /\ ~plan.edits
    BY <1>1 DEF IncompleteEvent, Stop, PlanOf
  <2> QED BY <2>1, StopsAreSound
<1>2. CASE ~IsStopped(w.events[key]) /\ key[1] = "branch_eol"
  <2>1. /\ plan.action = "branch_eol" /\ ~plan.edits
        /\ \A item \in plan.evidence : item.id = <<"watch_decision">>
    BY <1>2 DEF IncompleteEvent, PlanOf, Cite
  <2>2. Cited(plan) = {}
    BY <2>1 DEF Cited, Captured, RuntimeEvidence
  <2>3. IsReadable(w, plan)
    BY <2>2 DEF IsReadable
  <2>4. IsRoutable(plan)
    BY <2>1 DEF IsRoutable, RoutableActions, LifecycleActions
  <2> QED BY <2>1, <2>3, <2>4 DEF IsSound
<1>3. CASE ~IsStopped(w.events[key]) /\ key[1] = "recipe_rebuild" /\ selected
  <2>1. plan = RecipeRebuild(w)
    BY <1>3 DEF IncompleteEvent
  <2> QED BY <1>3, <2>1, RebuildIsSound
<1>4. CASE ~IsStopped(w.events[key]) /\ key[1] \in {"new_branch", "new_patch"}
  <2>1. plan = ResumedRelease(w, key)
    BY <1>4 DEF IncompleteEvent
  <2> QED BY <1>4, <2>1, ResumedReleaseIsSound
<1> QED BY <1>1, <1>2, <1>3, <1>4

LEMMA ResumeIsSound ==
  ASSUME NEW w, w.maintained \subseteq Nat,
         FirstIncomplete(w)[1] \in {"branch_eol", "new_branch", "new_patch", "recipe_rebuild"}
  PROVE  IsSound(w, ResumeIncomplete(w)) /\ ~ResumeIncomplete(w).edits
<1>1. \/ ResumeIncomplete(w) = IncompleteEvent(w)
      \/ /\ NewPatch(w) # None /\ NewPatch(w).action = "new_patch"
         /\ ResumeIncomplete(w) = NewPatch(w)
  BY DEF ResumeIncomplete
<1> QED BY <1>1, IncompleteIsSound, NewPatchIsSound

LEMMA LifecycleIsSound ==
  ASSUME NEW w, w.maintained \subseteq Nat, Lifecycle(w) # None,
         PageReads(w.captures[Page]) => DOMAIN SupportRows(w.captures[Page]) \subseteq Nat
  PROVE  /\ IsSound(w, Lifecycle(w))
         /\ Lifecycle(w).edits =>
              \/ /\ Lifecycle(w).allowed = {} /\ Lifecycle(w).key = w.policyKey
                 /\ w.policyKey \notin DOMAIN w.events
              \/ /\ Lifecycle(w).action = "new_branch"
                 /\ \E b \in DOMAIN SupportRows(w.captures[Page]) :
                      Lifecycle(w).key = NewBranchKey(b)
              \/ /\ Lifecycle(w).action = "branch_eol"
                 /\ Lifecycle(w).key[2] \in w.maintained
<1> DEFINE rows == SupportRows(w.captures[Page])
           plan == Lifecycle(w)
           new == NewBranches(w, rows)
<1>1. CASE ~PageReads(w.captures[Page])
  BY <1>1, FormatStop DEF Lifecycle
<1>2. CASE PageReads(w.captures[Page])
  <2>1. plan = LifecycleOf(w, rows)
    BY <1>2 DEF Lifecycle
  <2>2. CanBeRead(w, Page)
    BY <1>2 DEF CanBeRead, PageReads
  <2> HIDE DEF rows
  <2>3. CASE plan = ContradictionStop(w, rows)
    <3>1. plan.action = "needs_human" /\ ~plan.edits
      BY <2>3 DEF ContradictionStop, Stop, PlanOf
    <3> QED BY <3>1, StopsAreSound
  <2>4. CASE RetirementIsOwed(w, rows) /\ plan = ResumedRetirement(w, rows)
    <3>1. /\ plan.action = "branch_eol" /\ plan.allowed = {} /\ plan.key = w.policyKey
          /\ w.policyKey \notin DOMAIN w.events
          /\ \A item \in plan.evidence : item.id \in {Page, <<"evidence_manifest">>}
      BY <2>4 DEF RetirementIsOwed, ResumedRetirement, LifecycleResume, PlanOf, Cite
    <3>2. IsReadable(w, plan)
      BY <2>2, <3>1, OneCitation DEF RuntimeEvidence
    <3>3. IsRoutable(plan)
      BY <3>1 DEF IsRoutable, RoutableActions, LifecycleActions
    <3> QED BY <3>1, <3>2, <3>3 DEF IsSound
  <2>5. CASE plan = SourceFormatStop(w, Aggregate)
    BY <2>5, FormatStop
  <2>6. CASE plan = NewBranchPlan(w, Oldest(new)) /\ new # {} /\ w.captures[Aggregate].shaped
    <3>1. Oldest(new) \in DOMAIN rows
      BY <1>2, <2>6, OldestIsOne DEF NewBranches, rows
    <3>2. /\ plan.action = "new_branch" /\ plan.key = NewBranchKey(Oldest(new))
          /\ \A item \in plan.evidence : item.id \in {Page, Aggregate}
      BY <2>6 DEF NewBranchPlan, PlanOf, Cite
    <3>3. CanBeRead(w, Aggregate)
      BY <2>6 DEF CanBeRead, Aggregate, Page
    <3>4. IsReadable(w, plan)
      BY <2>2, <3>2, <3>3 DEF IsReadable, Cited, Captured
    <3>5. IsRoutable(plan)
      BY <3>2 DEF IsRoutable, RoutableActions, LifecycleActions
    <3> QED BY <3>1, <3>2, <3>4, <3>5 DEF IsSound, rows
  <2>7. CASE /\ Contradiction(w, rows) = {} /\ EndedBranches(w, rows) # {}
             /\ plan = RetirementPlan(w, rows[Oldest(EndedBranches(w, rows))])
    <3> DEFINE branch == Oldest(EndedBranches(w, rows))
    <3>1. branch \in w.maintained /\ branch \in DOMAIN rows
      BY <2>7, OldestIsOne DEF EndedBranches, Contradiction, Vanished
    <3>2. rows[branch].branch = branch
      BY <3>1 DEF rows, SupportRows
    <3>3. /\ plan.action = "branch_eol" /\ plan.key[2] = rows[branch].branch
          /\ \A item \in plan.evidence : item.id = Page
      BY <2>7 DEF RetirementPlan, PlanOf, Cite
    <3>4. IsReadable(w, plan)
      BY <2>2, <3>3, OneCitation
    <3>5. IsRoutable(plan)
      BY <3>3 DEF IsRoutable, RoutableActions, LifecycleActions
    <3> QED BY <3>1, <3>2, <3>3, <3>4, <3>5 DEF IsSound
  <2>8. new # {} => \E b \in DOMAIN rows \ w.maintained : rows[b].state \in SupportedStates
    BY DEF NewBranches
  <2> QED BY <2>1, <2>3, <2>4, <2>5, <2>6, <2>7, <2>8 DEF LifecycleOf
<1> QED BY <1>1, <1>2

-----------------------------------------------------------------------------
(* The whole classification. *)

Families == {"branch_eol", "new_branch", "new_patch", "recipe_rebuild"}

\* What the watcher hands the classifier: numbered branches, and incomplete records
\* of the four families.
IsInput(w) ==
  /\ w.maintained \subseteq Nat
  /\ PageReads(w.captures[Page]) => DOMAIN SupportRows(w.captures[Page]) \subseteq Nat
  /\ \A k \in w.decision.incomplete : k[1] \in Families /\ k[2] \in Nat

\* The first incomplete record is one of them: the order of the families and then of
\* the branches has a first element.
LEMMA FirstIsIncomplete ==
  ASSUME NEW w, IsInput(w), w.decision.incomplete # {}
  PROVE  FirstIncomplete(w) \in w.decision.incomplete
<1> DEFINE inc == w.decision.incomplete
           places == {Place(k) : k \in inc}
           first == Oldest(places)
           branches == {k[2] : k \in {j \in inc : Place(j) = first}}
<1>1. \A k \in inc : Place(k) \in Nat
  <2>1. \A k \in inc : \E i \in DOMAIN FamilyOrder : FamilyOrder[i] = k[1]
    <3> SUFFICES ASSUME NEW k \in inc PROVE \E i \in DOMAIN FamilyOrder : FamilyOrder[i] = k[1]
      OBVIOUS
    <3>1. DOMAIN FamilyOrder = 1..4
      BY DEF FamilyOrder
    <3>2. /\ FamilyOrder[1] = "branch_eol" /\ FamilyOrder[2] = "new_branch"
          /\ FamilyOrder[3] = "new_patch" /\ FamilyOrder[4] = "recipe_rebuild"
      BY DEF FamilyOrder
    <3>3. k[1] \in Families
      BY DEF IsInput
    <3> QED BY <3>1, <3>2, <3>3 DEF Families
  <2>2. DOMAIN FamilyOrder \subseteq Nat
    BY DEF FamilyOrder
  <2>3. \A k \in inc : Place(k) \in DOMAIN FamilyOrder
    BY <2>1 DEF Place
  <2> QED BY <2>2, <2>3
<1>2. first \in places /\ \A p \in places : first <= p
  <2>1. places \subseteq Nat /\ places # {}
    BY <1>1
  <2> QED BY <2>1, OldestIsOne
<1>3. Oldest(branches) \in branches /\ \A b \in branches : Oldest(branches) <= b
  <2>1. branches \subseteq Nat /\ branches # {}
    BY <1>2 DEF IsInput
  <2> QED BY <2>1, OldestIsOne
<1>4. PICK k \in inc : Place(k) = first /\ k[2] = Oldest(branches)
  BY <1>3
<1>5. \A other \in inc :
        \/ Place(k) < Place(other)
        \/ Place(k) = Place(other) /\ k[2] <= other[2]
  <2> SUFFICES ASSUME NEW other \in inc
               PROVE  \/ Place(k) < Place(other)
                      \/ Place(k) = Place(other) /\ k[2] <= other[2]
    OBVIOUS
  <2>1. Place(k) <= Place(other) /\ Place(k) \in Nat /\ Place(other) \in Nat
    BY <1>1, <1>2, <1>4
  <2>2. Place(k) = Place(other) => k[2] <= other[2]
    BY <1>3, <1>4
  <2> HIDE DEF first, branches
  <2> QED BY <2>1, <2>2
<1> QED BY <1>4, <1>5 DEF FirstIncomplete

\* Every input yields a plan the coordinate job can route, and work that rests on
\* healthy sources whose cited bodies could be read.
THEOREM PlansAreSound ==
  ASSUME NEW w, IsInput(w)
  PROVE  LET plan == ClassifyEvidence(w) IN
         /\ IsSound(w, plan)
         /\ plan.action \notin NoWorkActions => Unhealthy(w.captures) = {}
<1> DEFINE plan == ClassifyEvidence(w)
<1>1. CASE SourcesFail(w)
  <2>1. plan = Health(w) /\ Health(w).action = "blocked"
    BY <1>1 DEF ClassifyEvidence, Health, Stop, PlanOf
  <2> QED BY <2>1, HealthIsSound DEF NoWorkActions
<1>2. CASE ~SourcesFail(w)
  <2>1. Unhealthy(w.captures) = {}
    BY <1>2 DEF SourcesFail
  <2>2. CASE w.decision.incomplete # {}
    <3>1. FirstIncomplete(w)[1] \in Families
      BY <2>2, FirstIsIncomplete DEF IsInput
    <3>2. IsSound(w, ResumeIncomplete(w))
      BY <3>1, ResumeIsSound DEF Families, IsInput
    <3> QED BY <1>2, <2>1, <2>2, <3>2 DEF ClassifyEvidence
  <2>3. CASE plan = NoChange(w)
    <3>1. plan.action = "no_change" /\ ~plan.edits
      BY <2>3 DEF NoChange, PlanOf
    <3>2. IsSound(w, plan)
      BY <3>1 DEF IsSound, IsRoutable, IsReadable, RoutableActions, NoWorkActions
    <3> QED BY <2>1, <3>2
  <2>4. CASE w.decision.incomplete = {} /\ plan # NoChange(w)
    <3>1. \/ NewPatch(w) # None /\ plan = NewPatch(w)
          \/ Lifecycle(w) # None /\ plan = Lifecycle(w)
          \/ RebuildIsSelected(w) /\ plan = RecipeRebuild(w)
      BY <1>2, <2>4 DEF ClassifyEvidence
    <3>2. RebuildIsSelected(w) => w.decision.rebuild # None
      BY DEF RebuildIsSelected
    <3>3. IsSound(w, plan)
      BY <3>1, <3>2, NewPatchIsSound, LifecycleIsSound, RebuildIsSound DEF IsInput
    <3> QED BY <2>1, <3>3
  <2> QED BY <2>2, <2>3, <2>4
<1> QED BY <1>1, <1>2

\* An edit is only planned while every record is complete, and for an action that is
\* owed its record, of a branch the policy or the page names.
THEOREM EditsAreFresh ==
  ASSUME NEW w, IsInput(w), ClassifyEvidence(w).edits
  PROVE  LET plan == ClassifyEvidence(w) IN
         /\ w.decision.incomplete = {}
         /\ plan.action \in LifecycleActions
         /\ \/ plan.allowed = {} /\ plan.key = w.policyKey
            \/ /\ plan.action = "new_branch"
               /\ \E b \in DOMAIN SupportRows(w.captures[Page]) : plan.key = NewBranchKey(b)
            \/ plan.action = "branch_eol" /\ plan.key[2] \in w.maintained
<1> DEFINE plan == ClassifyEvidence(w)
<1>1. plan.action \in LifecycleActions
  BY PlansAreSound DEF IsSound, IsRoutable
<1>2. ~SourcesFail(w)
  BY HealthIsSound DEF ClassifyEvidence
<1>3. w.decision.incomplete = {}
  <2> SUFFICES ASSUME w.decision.incomplete # {} PROVE FALSE
    OBVIOUS
  <2>1. FirstIncomplete(w)[1] \in Families
    BY FirstIsIncomplete DEF IsInput
  <2>2. ~ResumeIncomplete(w).edits
    BY <2>1, ResumeIsSound DEF Families, IsInput
  <2> QED BY <1>2, <2>2 DEF ClassifyEvidence
<1>4. \/ NewPatch(w) # None /\ plan = NewPatch(w)
      \/ Lifecycle(w) # None /\ plan = Lifecycle(w)
      \/ RebuildIsSelected(w) /\ plan = RecipeRebuild(w)
      \/ plan = NoChange(w)
  BY <1>2, <1>3 DEF ClassifyEvidence
<1>5. ~NoChange(w).edits
  BY DEF NoChange, PlanOf
<1>6. RebuildIsSelected(w) => ~RecipeRebuild(w).edits
  BY RebuildIsSound DEF RebuildIsSelected
<1> QED BY <1>1, <1>3, <1>4, <1>5, <1>6, NewPatchIsSound, LifecycleIsSound DEF IsInput

\* So every plan has a route, whatever records and runs the coordinate job finds.
THEOREM ClassifiedPlansAreRouted ==
  ASSUME NEW w, IsInput(w), NEW d,
         d.action = ClassifyEvidence(w).action, d.edits = ClassifyEvidence(w).edits
  PROVE  Route(d).route # "error"
<1>1. IsRoutable(ClassifyEvidence(w))
  BY PlansAreSound DEF IsSound
<1> QED BY <1>1, EveryPlanIsRouted DEF IsRoutable, RoutableActions

\* A fresh edit starts only when no edit on main is owed its record: for a supported
\* branch newer than all the policy maintains, or a maintained one the page has
\* ended; and it may change what its edit writes.
THEOREM FreshEditsWait ==
  ASSUME NEW w, IsInput(w), ClassifyEvidence(w).edits, ClassifyEvidence(w).allowed # {}
  PROVE  LET plan == ClassifyEvidence(w)
             rows == SupportRows(w.captures[Page])
         IN
         /\ PageReads(w.captures[Page])
         /\ ~RetirementIsOwed(w, rows) /\ ~BranchResumePending(w)
         /\ \/ /\ plan.action = "new_branch"
               /\ \E b \in DOMAIN rows \ w.maintained :
                    /\ plan.key = NewBranchKey(b) /\ rows[b].state \in SupportedStates
                    /\ plan.allowed = {ListPath(b), PolicyPath}
                    /\ \A c \in w.maintained : ~(b < c)
            \/ /\ plan.action = "branch_eol" /\ plan.allowed = {PolicyPath}
               /\ \E b \in DOMAIN rows \cap w.maintained :
                    /\ plan.key = <<"branch_eol", b, SecurityUntil(rows[b])>>
                    /\ rows[b].state = "eol"
<1> DEFINE plan == ClassifyEvidence(w)
           rows == SupportRows(w.captures[Page])
           new == NewBranches(w, rows)
           ended == EndedBranches(w, rows)
<1>1. ~SourcesFail(w) /\ w.decision.incomplete = {}
  BY EditsAreFresh, HealthIsSound DEF ClassifyEvidence
<1>2. \/ NewPatch(w) # None /\ plan = NewPatch(w)
      \/ Lifecycle(w) # None /\ plan = Lifecycle(w)
      \/ RebuildIsSelected(w) /\ plan = RecipeRebuild(w)
      \/ plan = NoChange(w)
  BY <1>1 DEF ClassifyEvidence
<1>3. ~NoChange(w).edits
  BY DEF NoChange, PlanOf
<1>4. RebuildIsSelected(w) => ~RecipeRebuild(w).edits
  BY RebuildIsSound DEF RebuildIsSelected
<1>5. Lifecycle(w) # None /\ plan = Lifecycle(w)
  BY <1>2, <1>3, <1>4, NewPatchIsSound DEF IsInput
<1>6. \A id : ~SourceFormatStop(w, id).edits
  BY DEF SourceFormatStop, Stop, PlanOf
<1>7. PageReads(w.captures[Page]) /\ plan = LifecycleOf(w, rows)
  BY <1>5, <1>6 DEF Lifecycle
<1>8. ~ContradictionStop(w, rows).edits
  BY DEF ContradictionStop, Stop, PlanOf
<1>9. ResumedRetirement(w, rows).allowed = {}
  BY DEF ResumedRetirement, LifecycleResume, PlanOf
<1> HIDE DEF rows
<1>10. /\ Contradiction(w, rows) = {} /\ ~RetirementIsOwed(w, rows) /\ ~BranchResumePending(w)
       /\ \/ new # {} /\ plan = NewBranchPlan(w, Oldest(new))
          \/ ended # {} /\ plan = RetirementPlan(w, rows[Oldest(ended)])
  BY <1>5, <1>6, <1>7, <1>8, <1>9 DEF LifecycleOf
<1>11. DOMAIN rows \subseteq Nat
  BY <1>7 DEF IsInput, rows
<1>12. ASSUME new # {}, plan = NewBranchPlan(w, Oldest(new))
       PROVE  /\ plan.action = "new_branch"
              /\ \E b \in DOMAIN rows \ w.maintained :
                   /\ plan.key = NewBranchKey(b) /\ rows[b].state \in SupportedStates
                   /\ plan.allowed = {ListPath(b), PolicyPath}
                   /\ \A c \in w.maintained : ~(b < c)
  <2>1. new \subseteq Nat /\ \A b \in new : b \in DOMAIN rows \ w.maintained /\ rows[b].state \in SupportedStates
    BY <1>11 DEF NewBranches
  <2>4. \A b \in new : \A c \in w.maintained : ~(b < c)
    BY <1>10, <2>1 DEF Contradiction, UnmaintainedOlder
  <2> HIDE DEF new
  <2>2. Oldest(new) \in new
    BY <1>12, <2>1, OldestIsOne
  <2>3. /\ plan.action = "new_branch" /\ plan.key = NewBranchKey(Oldest(new))
        /\ plan.allowed = {ListPath(Oldest(new)), PolicyPath}
    BY <1>12 DEF NewBranchPlan, PlanOf
  <2> QED BY <2>1, <2>2, <2>3, <2>4
<1>13. ASSUME ended # {}, plan = RetirementPlan(w, rows[Oldest(ended)])
       PROVE  /\ plan.action = "branch_eol" /\ plan.allowed = {PolicyPath}
              /\ \E b \in DOMAIN rows \cap w.maintained :
                   plan.key = <<"branch_eol", b, SecurityUntil(rows[b])>> /\ rows[b].state = "eol"
  <2>1. /\ ended \subseteq Nat
        /\ \A b \in ended : b \in DOMAIN rows \cap w.maintained /\ rows[b].state = "eol"
    BY <1>10 DEF EndedBranches, Contradiction, Vanished, IsInput
  <2> HIDE DEF ended
  <2>2. Oldest(ended) \in ended
    BY <1>13, <2>1, OldestIsOne
  <2>3. rows[Oldest(ended)].branch = Oldest(ended)
    BY <2>1, <2>2 DEF rows, SupportRows
  <2>4. /\ plan.action = "branch_eol" /\ plan.allowed = {PolicyPath}
        /\ plan.key = <<"branch_eol", rows[Oldest(ended)].branch, SecurityUntil(rows[Oldest(ended)])>>
    BY <1>13 DEF RetirementPlan, PlanOf
  <2> QED BY <2>1, <2>2, <2>3, <2>4
<1> QED BY <1>7, <1>10, <1>12, <1>13 DEF rows

\* What is released is the patch its own key names, or the action of an incomplete
\* record, on the record's branch.
THEOREM ReleasesAreKeyed ==
  ASSUME NEW w, IsInput(w), ClassifyEvidence(w).action \in {"new_patch", "new_branch"},
         ~ClassifyEvidence(w).edits
  PROVE  LET plan == ClassifyEvidence(w) IN
         \/ plan.action = "new_patch" /\ plan.key = ReleaseKey(plan.version)
         \/ /\ plan.key \in w.decision.incomplete
            /\ plan.action = plan.key[1] /\ plan.version.branch = plan.key[2]
<1> DEFINE plan == ClassifyEvidence(w)
           IsPatch(p) == p.action = "new_patch" /\ p.key = ReleaseKey(p.version)
<1>1. \A id : SourceFormatStop(w, id).action = "blocked"
  BY DEF SourceFormatStop, Stop, PlanOf
<1>2. \A p : p = NewPatch(w) /\ p # None /\ p.action \in {"new_patch", "new_branch"} /\ ~p.edits => IsPatch(p)
  <2>1. ASSUME NEW branch, NEW p, p = PatchOn(w, branch), p.action \in {"new_patch", "new_branch"}, ~p.edits
        PROVE  IsPatch(p)
    <3>1. \/ p = PlanOf("new_patch", ReleaseKey(OfferedVersion(w, branch)),
                        {FeedProof(w, OfferedVersion(w, branch))}, OfferedVersion(w, branch))
          \/ p = LifecycleResume("new_branch", NewBranchKey(branch),
                        {FeedProof(w, OfferedVersion(w, branch))}, OfferedVersion(w, branch))
          \/ p = Stop("needs_human", NewBranchKey(branch), {FeedProof(w, OfferedVersion(w, branch))})
      BY <1>1, <2>1 DEF PatchOn
    <3> QED BY <2>1, <3>1 DEF PlanOf, LifecycleResume, Stop
  <2> HIDE DEF IsPatch
  <2> QED BY <1>1, <2>1 DEF NewPatch
<1>3. Health(w).action = "blocked" /\ NoChange(w).action = "no_change"
  BY DEF Health, NoChange, Stop, PlanOf
<1>4. \A p : p = RecipeRebuild(w) => p.action \in {"recipe_rebuild", "blocked"}
  BY <1>1 DEF RecipeRebuild, PlanOf
<1>5. CASE w.decision.incomplete # {}
  <2> DEFINE key == FirstIncomplete(w)
             IsResumed(p) == p.key = key /\ p.action = key[1] /\ p.version.branch = key[2]
  <2>1. key \in w.decision.incomplete /\ key[1] \in Families
    BY <1>5, FirstIsIncomplete DEF IsInput
  <2>2. ASSUME NEW p, p = ResumedRelease(w, key), p.action \in {"new_patch", "new_branch"}
        PROVE  IsResumed(p)
    <3> DEFINE v == ResumedVersion(w, key)
    <3>1. /\ v # None
          /\ p = PlanOf(key[1], key, {FeedProof(w, v), Cite(w.captures, <<"watch_decision">>, key)}, v)
      BY <1>1, <2>2 DEF ResumedRelease, Stop, PlanOf
    <3>2. v.branch = key[2]
      BY <3>1 DEF ResumedVersion, Version, BranchFeedVersion
    <3> QED BY <3>1, <3>2 DEF PlanOf
  <2>3. \/ plan = ResumeIncomplete(w)
        \/ plan = Health(w)
    BY <1>5 DEF ClassifyEvidence
  <2>4. \A key2, c : Stop("needs_human", key2, c).action = "needs_human"
                     /\ PlanOf("branch_eol", key2, c, None).action = "branch_eol"
    BY DEF Stop, PlanOf
  <2>5. ASSUME NEW p, p = IncompleteEvent(w), p.action \in {"new_patch", "new_branch"}
        PROVE  IsResumed(p)
    <3>1. \/ p = ResumedRelease(w, key)
          \/ p = RecipeRebuild(w)
      BY <2>4, <2>5 DEF IncompleteEvent
    <3>2. RecipeRebuild(w).action \in {"recipe_rebuild", "blocked"}
      BY <1>1 DEF RecipeRebuild, PlanOf
    <3> QED BY <2>2, <2>5, <3>1, <3>2
  <2>6. \/ ResumeIncomplete(w) = IncompleteEvent(w)
        \/ NewPatch(w) # None /\ ResumeIncomplete(w) = NewPatch(w)
    BY DEF ResumeIncomplete
  <2> HIDE DEF IsResumed, key, IsPatch
  <2>7. IsPatch(plan) \/ IsResumed(plan)
    BY <1>2, <1>3, <2>3, <2>5, <2>6
  <2> QED BY <2>1, <2>7 DEF IsResumed, IsPatch
<1>6. CASE w.decision.incomplete = {}
  <2>1. \/ plan = Health(w) \/ plan = NoChange(w)
        \/ NewPatch(w) # None /\ plan = NewPatch(w)
        \/ Lifecycle(w) # None /\ plan = Lifecycle(w)
        \/ RebuildIsSelected(w) /\ plan = RecipeRebuild(w)
    BY <1>6 DEF ClassifyEvidence
  <2>2. \A p : p = Lifecycle(w) /\ p # None => p.edits \/ p.action \notin {"new_patch", "new_branch"}
    <3>1. \A rows, p : p = LifecycleOf(w, rows) /\ p # None =>
            p.edits \/ p.action \notin {"new_patch", "new_branch"}
      <4>1. \A rows, b : /\ ContradictionStop(w, rows).action = "needs_human"
                         /\ ResumedRetirement(w, rows).edits
                         /\ NewBranchPlan(w, b).edits /\ RetirementPlan(w, b).edits
        BY DEF ContradictionStop, ResumedRetirement, NewBranchPlan, RetirementPlan,
               LifecycleResume, Stop, PlanOf
      <4> QED BY <1>1, <4>1 DEF LifecycleOf
    <3> QED BY <1>1, <3>1 DEF Lifecycle
  <2> HIDE DEF IsPatch
  <2>3. IsPatch(plan)
    BY <1>2, <1>3, <1>4, <2>1, <2>2
  <2> QED BY <2>3 DEF IsPatch
<1> QED BY <1>5, <1>6

-----------------------------------------------------------------------------
(***************************************************************************)
(* What the classifier plans, admission accepts.                           *)
(*                                                                         *)
(* The classifier looks for reasons to act and admission for reasons to    *)
(* refuse, so each plan is followed from the rule that made it to every    *)
(* claim admission derives again.                                          *)
(***************************************************************************)
\* A feed that can be read names a version without a revision.
FeedsAreTyped(w) ==
  /\ DOMAIN w.captures = EvidenceSources(w.maintained)
  /\ \A b \in w.maintained : w.captures[Feed(b)].shaped => w.captures[Feed(b)].body \in Nat
  /\ w.captures[Aggregate].shaped =>
       \A m \in DOMAIN w.captures[Aggregate].body :
         w.captures[Aggregate].body[m] \in [branch : Nat, patch : Nat, rev : {0}]

\* Both programs read one commit, and what main holds was admitted before.
CommitIsSound(w, base) ==
  /\ w.maintained = base.policy.branches /\ w.policyKey = base.policy.key
  /\ DOMAIN w.events = base.recorded
  /\ ValidPolicy(base.policy) /\ w.maintained \subseteq base.lists

\* The records are of the four families; an open patch is of a branch that shipped;
\* a branch that left is not maintained, and one that entered is, or was ended.
RecordsAreSound(w) ==
  LET rows == SupportRows(w.captures[Page]) IN
  /\ w.decision.incomplete = DOMAIN w.events \ CompletedKeys(w)
  /\ \A k \in DOMAIN w.events : k[1] \in Families
  /\ \A k \in w.decision.incomplete :
       /\ k # None
       /\ k[1] = "new_patch" =>
            k[3] \in Nat /\ BranchHasShipped(w.captures, k[2], CompletedKeys(w))
  /\ \A k \in CompletedKeys(w) :
       /\ k[1] = "branch_eol" => k[2] \notin w.maintained
       /\ k[1] = "new_branch" =>
            \/ k[2] \in w.maintained
            \/ k[2] \in DOMAIN rows => rows[k[2]].state \notin SupportedStates

\* A selected rebuild supersedes a published release and has no complete record.
SelectionIsSound(w) ==
  LET v == w.decision.rebuild IN
  RebuildIsSelected(w) =>
    /\ v \in [branch : Nat, patch : Nat, rev : Nat \ {0}]
    /\ \E r \in w.captures[Releases].body : r.v = [v EXCEPT !.rev = @ - 1]
    /\ ReleaseKey(v) \notin CompletedKeys(w)

IsReading(w, base) ==
  /\ IsInput(w) /\ FeedsAreTyped(w) /\ CommitIsSound(w, base)
  /\ RecordsAreSound(w) /\ SelectionIsSound(w)

Accepted(w, base, plan) ==
  ValidatePlan(plan, w.captures, CompletedKeys(w), w.decision.rebuild, base)

PlainVersions == [branch : Nat, patch : Nat, rev : {0}]

-----------------------------------------------------------------------------
(* What the citations stand for. *)

LEMMA FeedIds ==
  ASSUME NEW b
  PROVE  /\ Feed(b) \notin FixedCaptures /\ Feed(b) \notin RuntimeEvidence
         /\ IsBranchFeed(Feed(b)) /\ Feed(b)[2] = b
<1>1. Feed(b)[1] = "php_release_feed" /\ Feed(b)[2] = b /\ Len(Feed(b)) = 2
  BY DEF Feed
<1>2. \A id \in FixedCaptures : Len(id) = 1
  BY DEF FixedCaptures, Page, Aggregate, Tags, Releases, State, MiseReleases, MiseState
<1>3. \A id \in RuntimeEvidence : id[1] # "php_release_feed"
  BY DEF RuntimeEvidence
<1> QED BY <1>1, <1>2, <1>3 DEF IsBranchFeed, IsReleaseFeed

LEMMA FixedIds ==
  /\ ~IsBranchFeed(Aggregate) /\ ~IsBranchFeed(Releases) /\ ~IsBranchFeed(Page)
  /\ Releases # Aggregate /\ Page # Aggregate /\ Page # Releases
  /\ FixedCaptures \cap RuntimeEvidence = {}
  /\ {Aggregate, Releases, Page} \subseteq FixedCaptures
<1>1. Len(Aggregate) = 1
  BY DEF Aggregate
<1> QED BY <1>1 DEF IsBranchFeed, IsReleaseFeed, FixedCaptures, RuntimeEvidence, Page, Aggregate, Tags,
           Releases, State, MiseReleases, MiseState

LEMMA Readings ==
  ASSUME NEW c
  PROVE  /\ \A b, at : Resolved(c, Cite(c, Feed(b), at)) = Version(b, c[Feed(b)].body)
         /\ \A at : Resolved(c, Cite(c, Aggregate, at)) = AggregateVersion(c, at)
         /\ \A at : (\E r \in c[Releases].body : r.v = at) => Resolved(c, Cite(c, Releases, at)) = at
         /\ \A at : (\E i \in DOMAIN c[Page].body : c[Page].body[i].branch = at) =>
                      Resolved(c, Cite(c, Page, at)) = at
         /\ \A id \in RuntimeEvidence : \A at : Resolved(c, Cite(c, id, at)) = at
<1>1. \A id, at : Cite(c, id, at).id = id /\ Cite(c, id, at).at = at
  BY DEF Cite
<1>2. \A id \in RuntimeEvidence :
        ~IsBranchFeed(id) /\ id # Aggregate /\ id # Releases /\ id # Page
  BY DEF RuntimeEvidence, IsBranchFeed, IsReleaseFeed, Aggregate, Releases, Page
<1>3. \A b, at : Resolved(c, Cite(c, Feed(b), at)) = Version(b, c[Feed(b)].body)
  <2> SUFFICES ASSUME NEW b, NEW at
               PROVE  Resolved(c, Cite(c, Feed(b), at)) = Version(b, c[Feed(b)].body)
    OBVIOUS
  <2> DEFINE item == Cite(c, Feed(b), at)
  <2>1. item.id = Feed(b) /\ IsBranchFeed(item.id) /\ item.id[2] = b
    BY <1>1, FeedIds
  <2> HIDE DEF item
  <2>2. Resolved(c, item) = Version(b, c[Feed(b)].body)
    BY <2>1, FixedIds DEF Resolved
  <2> QED BY <2>2 DEF item
<1>4. \A at : Resolved(c, Cite(c, Aggregate, at)) = AggregateVersion(c, at)
  BY <1>1, FixedIds DEF Resolved
<1>5. \A at : (\E r \in c[Releases].body : r.v = at) => Resolved(c, Cite(c, Releases, at)) = at
  BY <1>1, FixedIds DEF Resolved
<1>6. \A at : (\E i \in DOMAIN c[Page].body : c[Page].body[i].branch = at) =>
                Resolved(c, Cite(c, Page, at)) = at
  BY <1>1, FixedIds DEF Resolved
<1>7. \A id \in RuntimeEvidence : \A at : Resolved(c, Cite(c, id, at)) = at
  BY <1>1, <1>2 DEF Resolved
<1> QED BY <1>3, <1>4, <1>5, <1>6, <1>7

\* An item a plan may cite: of a capture that is there, or of the run itself, and
\* standing for a value.
IsCitation(c, item) ==
  \E id, at :
    /\ item = Cite(c, id, at) /\ id \in DOMAIN c \cup RuntimeEvidence
    /\ Resolved(c, item) # None

LEMMA CitationsResolve ==
  ASSUME NEW c, NEW plan, plan.evidence # {}, \A item \in plan.evidence : IsCitation(c, item)
  PROVE  EvidenceResolves(plan, c)
<1>1. ASSUME NEW item \in plan.evidence
      PROVE  /\ item.id \notin RuntimeEvidence => item.id \in DOMAIN c /\ item.digest = c[item.id]
             /\ Resolved(c, item) # None
  <2>1. PICK id, at : /\ item = Cite(c, id, at) /\ id \in DOMAIN c \cup RuntimeEvidence
                      /\ Resolved(c, item) # None
    BY DEF IsCitation
  <2>2. item.id = id /\ (id \notin RuntimeEvidence => item.digest = c[id])
    BY <2>1 DEF Cite
  <2> QED BY <2>1, <2>2
<1> QED BY <1>1 DEF EvidenceResolves

LEMMA RuntimeCitation ==
  ASSUME NEW c, NEW id \in RuntimeEvidence, NEW at, at # None
  PROVE  IsCitation(c, Cite(c, id, at))
BY Readings DEF IsCitation

\* The identities of captures and the keys of actions are values.
LEMMA IdsAreValues ==
  ASSUME NEW w, w.maintained \subseteq Nat, NEW id \in EvidenceSources(w.maintained)
  PROVE  id # None
<1>1. \A x \in FixedCaptures : x # None
  BY NoneIsNoValue
<1>2. \A b \in Nat : Feed(b) # None
  <2> SUFFICES ASSUME NEW b \in Nat PROVE Feed(b) # None
    OBVIOUS
  <2>1. <<"php_release_feed", b>> \in {"php_release_feed"} \X Nat
    OBVIOUS
  <2> QED BY <2>1, NoneIsNoValue DEF Feed
<1> QED BY <1>1, <1>2 DEF EvidenceSources

LEMMA VersionsAreValues ==
  /\ \A v \in PlainVersions : v # None
  /\ \A b, p \in Nat : Version(b, p) \in PlainVersions
BY NoneIsNoValue DEF PlainVersions, Version

\* What counts as shipped is the same for both programs.
LEMMA ShippedAgrees ==
  ASSUME NEW w, NEW b
  PROVE  BranchHasShipped(w.captures, b, CompletedKeys(w)) <=> b \in ShippedBranches(w)
<1>1. \A x, y : Version(x, y).branch = x
  BY DEF Version
<1>2. b \in {v.branch : v \in PublishedVersions(w)} <=>
        \/ \E r \in w.captures[Releases].body : r.v.branch = b
        \/ \E k \in CompletedKeys(w) : k[1] \in {"new_patch", "recipe_rebuild"} /\ k[2] = b
  BY <1>1 DEF PublishedVersions
<1> QED BY <1>2 DEF BranchHasShipped, ShippedBranches

LEMMA CompletedFamilies ==
  ASSUME NEW w, NEW base, IsReading(w, base), NEW key, key[1] \notin Families
  PROVE  key \notin CompletedKeys(w)
BY DEF IsReading, RecordsAreSound, CompletedKeys

-----------------------------------------------------------------------------
(* What is accepted, by the kind of the plan. *)

LEMMA StopIsAccepted ==
  ASSUME NEW w, NEW base, NEW plan,
         plan.action \in {"blocked", "needs_human"} \/
           (plan.action = "no_change" /\ plan.key = <<"no_change", w.captures>>
              /\ w.decision.rebuild = None),
         AuthorizesNothing(plan), plan.key \notin CompletedKeys(w), EvidenceResolves(plan, w.captures)
  PROVE  Accepted(w, base, plan)
<1>1. /\ plan.action \notin LifecycleActions /\ plan.action \notin StableReleaseActions
      /\ plan.action # "recipe_rebuild"
  BY DEF LifecycleActions, StableReleaseActions
<1>2. PlanShape(plan, w.captures, CompletedKeys(w), w.decision.rebuild)
  BY <1>1 DEF PlanShape, LifecycleActions, StableReleaseActions
<1>3. PlanActions(plan, w.captures)
  BY <1>1 DEF PlanActions, PathsAreAuthorized, StableReleaseEvidence, ReleaseIsNewestPatch,
              RecipeRebuildEvidence, AuthorizesNothing
<1> QED BY <1>1, <1>2, <1>3 DEF Accepted, ValidatePlan, PatchExtendsShippedBranch, ResumeIsOwed,
           IsLifecycleResume, StableReleaseActions

LEMMA FormatStopIsAccepted ==
  ASSUME NEW w, NEW base, IsReading(w, base), NEW id \in DOMAIN w.captures
  PROVE  Accepted(w, base, SourceFormatStop(w, id))
<1> DEFINE plan == SourceFormatStop(w, id)
           item == Cite(w.captures, <<"evidence_manifest">>, id)
<1>1. /\ plan.action = "blocked" /\ AuthorizesNothing(plan) /\ plan.evidence = {item}
      /\ plan.key[1] = "source_unhealthy"
  BY DEF SourceFormatStop, Stop, PlanOf, AuthorizesNothing
<1>2. id # None
  BY IdsAreValues DEF IsReading, IsInput, FeedsAreTyped
<1>3. IsCitation(w.captures, item)
  BY <1>2, RuntimeCitation DEF RuntimeEvidence
<1> HIDE DEF plan, item
<1>4. EvidenceResolves(plan, w.captures)
  BY <1>1, <1>3, CitationsResolve
<1>5. plan.key \notin CompletedKeys(w)
  BY <1>1, CompletedFamilies DEF Families
<1>6. Accepted(w, base, plan)
  BY <1>1, <1>4, <1>5, StopIsAccepted
<1> QED BY <1>6 DEF plan

LEMMA HealthIsAccepted ==
  ASSUME NEW w, NEW base, SourcesFail(w), w.maintained \subseteq Nat,
         DOMAIN w.captures = EvidenceSources(w.maintained),
         \A k \in DOMAIN w.events : k[1] \in Families
  PROVE  Accepted(w, base, Health(w))
<1> DEFINE plan == Health(w)
<1>1. plan.action = "blocked" /\ AuthorizesNothing(plan) /\ plan.key[1] \in {"health_failed", "source_unhealthy"}
  BY DEF Health, Stop, PlanOf, AuthorizesNothing
<1>2. /\ plan.evidence # {}
      /\ \A item \in plan.evidence :
           \/ item = Cite(w.captures, <<"watch_decision">>, "trigger")
           \/ \E id \in DOMAIN w.captures : item = Cite(w.captures, <<"evidence_manifest">>, id)
  <2>1. CASE w.decision.trigger = "health_failed"
    BY <2>1 DEF Health, Stop, PlanOf
  <2>2. CASE w.decision.trigger # "health_failed"
    <3>1. Unhealthy(w.captures) # {} /\ Unhealthy(w.captures) \subseteq DOMAIN w.captures
      BY <2>2 DEF SourcesFail, Unhealthy
    <3>2. plan.evidence = {Cite(w.captures, <<"evidence_manifest">>, id) : id \in Unhealthy(w.captures)}
      BY <2>2 DEF Health, Stop, PlanOf
    <3> QED BY <3>1, <3>2
  <2> QED BY <2>1, <2>2
<1>3. \A id \in DOMAIN w.captures : id # None
  BY IdsAreValues
<1>4. "trigger" # None
  BY NoneIsNoValue
<1> HIDE DEF plan
<1>5. \A item \in plan.evidence : IsCitation(w.captures, item)
  BY <1>2, <1>3, <1>4, RuntimeCitation DEF RuntimeEvidence
<1>6. EvidenceResolves(plan, w.captures)
  BY <1>2, <1>5, CitationsResolve
<1>7. plan.key \notin CompletedKeys(w)
  BY <1>1 DEF CompletedKeys, Families
<1>8. Accepted(w, base, plan)
  BY <1>1, <1>6, <1>7, StopIsAccepted
<1> QED BY <1>8 DEF plan

\* No readable feed names a newer patch than one no feed supersedes.
LEMMA NewestIsAccepted ==
  ASSUME NEW w, NEW base, IsReading(w, base), NEW plan, plan.version \in PlainVersions,
         SupersededBy(w.captures, plan.version) = {}
  PROVE  ReleaseIsNewestPatch(plan, w.captures)
<1> DEFINE v == plan.version
           c == w.captures
<1>1. ASSUME NEW id \in ReadableFeeds(c, v), NEW named, named = NamedBy(c, id, v),
             named # None, named.branch = v.branch
      PROVE  named.patch <= v.patch
  <2>1. named \in {BranchFeedVersion(c, v.branch), AggregateVersion(c, Major(v.branch))}
    BY <1>1 DEF NamedBy
  <2>2. ~(named.patch > v.patch)
    BY <1>1, <2>1 DEF SupersededBy, FeedVersions
  <2>3. id \in {Aggregate, Feed(v.branch)} /\ id \in DOMAIN c /\ c[id].shaped
    BY <1>1 DEF ReadableFeeds, ProofFeeds
  <2>4. CASE id = Aggregate
    <3>1. named = AggregateVersion(c, Major(v.branch))
      BY <1>1, <2>4 DEF NamedBy
    <3>2. named.patch \in Nat
      BY <1>1, <2>3, <2>4, <3>1 DEF AggregateVersion, IsReading, FeedsAreTyped
    <3> QED BY <2>2, <3>2 DEF PlainVersions
  <2>5. CASE id = Feed(v.branch) /\ id # Aggregate
    <3>1. named = Version(v.branch, c[id].body)
      BY <1>1, <2>3, <2>5 DEF NamedBy, BranchFeedVersion
    <3>2. v.branch \in w.maintained
      <4>1. id \in EvidenceSources(w.maintained)
        BY <2>3 DEF IsReading, FeedsAreTyped
      <4>2. PICK b \in w.maintained : Feed(v.branch) = Feed(b)
        BY <2>5, <4>1, FeedIds DEF EvidenceSources
      <4>3. Feed(v.branch)[2] = v.branch /\ Feed(b)[2] = b
        BY DEF Feed
      <4> QED BY <4>2, <4>3
    <3>3. named.patch \in Nat
      BY <2>3, <2>5, <3>1, <3>2 DEF Version, IsReading, FeedsAreTyped
    <3> QED BY <2>2, <3>3 DEF PlainVersions
  <2> QED BY <2>3, <2>4, <2>5
<1> QED BY <1>1 DEF ReleaseIsNewestPatch

LEMMA ReleaseWorkIsAccepted ==
  ASSUME NEW w, NEW base, IsReading(w, base), NEW plan,
         plan.action \in StableReleaseActions, plan.key[1] = plan.action,
         plan.key \notin CompletedKeys(w),
         plan.version \in PlainVersions, SupersededBy(w.captures, plan.version) = {},
         plan.edits => plan.action = "new_branch" /\ plan.risk = "lifecycle",
         plan.allowed # {} => plan.edits,
         \A item \in plan.evidence : IsCitation(w.captures, item),
         \E item \in plan.evidence :
           item.id \in ProofFeeds(plan.version) /\ Resolved(w.captures, item) = plan.version,
         plan.action = "new_patch" => plan.version.branch \in ShippedBranches(w),
         plan.edits /\ plan.allowed = {} =>
           LifecycleOnBase(plan, base) /\ plan.key[2] \notin ShippedBranches(w)
  PROVE  Accepted(w, base, plan)
<1>1. plan.action = "new_patch" \/ plan.action = "new_branch"
  BY DEF StableReleaseActions
<1>2. PlanShape(plan, w.captures, CompletedKeys(w), w.decision.rebuild)
  BY <1>1 DEF PlanShape, NoWorkActions
<1>3. EvidenceResolves(plan, w.captures)
  <2>1. plan.evidence # {}
    OBVIOUS
  <2> QED BY <2>1, CitationsResolve
<1>4. PathsAreAuthorized(plan)
  BY DEF PathsAreAuthorized, LifecycleActions
<1>5. plan.version # None /\ plan.version.rev = 0
  BY VersionsAreValues DEF PlainVersions
<1>6. ReleaseIsNewestPatch(plan, w.captures)
  BY NewestIsAccepted
<1>7. PlanActions(plan, w.captures)
  BY <1>1, <1>3, <1>4, <1>5, <1>6 DEF PlanActions, StableReleaseEvidence, RecipeRebuildEvidence
<1>8. PatchExtendsShippedBranch(plan, w.captures, CompletedKeys(w))
  BY ShippedAgrees DEF PatchExtendsShippedBranch
<1>9. ResumeIsOwed(plan, w.captures, CompletedKeys(w), base)
  BY ShippedAgrees DEF ResumeIsOwed, IsLifecycleResume
<1> QED BY <1>2, <1>7, <1>8, <1>9 DEF Accepted, ValidatePlan

\* A retirement, or the record of one.
LEMMA RetirementWorkIsAccepted ==
  ASSUME NEW w, NEW base, NEW plan, plan.action = "branch_eol", plan.key[1] = "branch_eol",
         plan.key \notin CompletedKeys(w), plan.version = None, plan.risk = "lifecycle",
         plan.evidence # {}, \A item \in plan.evidence : IsCitation(w.captures, item),
         plan.edits /\ plan.allowed = {} => LifecycleOnBase(plan, base)
  PROVE  Accepted(w, base, plan)
<1>1. PlanShape(plan, w.captures, CompletedKeys(w), w.decision.rebuild)
  BY DEF PlanShape, NoWorkActions
<1>2. PlanActions(plan, w.captures)
  BY CitationsResolve DEF PlanActions, PathsAreAuthorized, StableReleaseEvidence,
     ReleaseIsNewestPatch, RecipeRebuildEvidence, StableReleaseActions, LifecycleActions
<1> QED BY <1>1, <1>2 DEF Accepted, ValidatePlan, PatchExtendsShippedBranch, ResumeIsOwed,
           IsLifecycleResume

LEMMA RebuildIsAccepted ==
  ASSUME NEW w, NEW base, IsReading(w, base), RebuildIsSelected(w)
  PROVE  Accepted(w, base, RecipeRebuild(w))
<1> DEFINE v == w.decision.rebuild
           superseded == [v EXCEPT !.rev = @ - 1]
           item == Cite(w.captures, Releases, superseded)
           plan == PlanOf("recipe_rebuild", ReleaseKey(v), {item}, v)
<1>1. CASE ~w.captures[Releases].shaped
  <2>1. Releases \in DOMAIN w.captures
    BY FixedIds DEF IsReading, FeedsAreTyped, EvidenceSources
  <2> QED BY <1>1, <2>1, FormatStopIsAccepted DEF RecipeRebuild
<1>2. CASE w.captures[Releases].shaped
  <2>1. /\ v \in [branch : Nat, patch : Nat, rev : Nat \ {0}]
        /\ \E r \in w.captures[Releases].body : r.v = superseded
        /\ ReleaseKey(v) \notin CompletedKeys(w) /\ v # None
    BY DEF IsReading, SelectionIsSound, RebuildIsSelected
  <2>2. superseded # None
    <3>1. superseded \in [branch : Nat, patch : Nat, rev : Nat]
      BY <2>1
    <3> QED BY <3>1, NoneIsNoValue
  <2>3. RecipeRebuild(w) = plan
    BY <1>2 DEF RecipeRebuild
  <2>4. /\ plan.action = "recipe_rebuild" /\ plan.key = ReleaseKey(v) /\ plan.version = v
        /\ ~plan.edits /\ plan.allowed = {} /\ plan.evidence = {item}
    BY DEF PlanOf
  <2>5. ReleaseKey(v) = RebuildOf(v)
    BY <2>1 DEF ReleaseKey, RebuildOf
  <2> HIDE DEF v, superseded
  <2>6. Resolved(w.captures, item) = superseded
    BY <2>1, Readings
  <2>7. Releases \in DOMAIN w.captures
    BY FixedIds DEF IsReading, FeedsAreTyped, EvidenceSources
  <2>8. IsCitation(w.captures, item) /\ item.id = Releases
    <3>1. item.id = Releases
      BY DEF Cite
    <3> QED BY <2>2, <2>6, <2>7, <3>1 DEF IsCitation
  <2> HIDE DEF item, plan
  <2>9. PlanShape(plan, w.captures, CompletedKeys(w), w.decision.rebuild)
    BY <2>1, <2>4, <2>5 DEF PlanShape, NoWorkActions, v
  <2>10. EvidenceResolves(plan, w.captures)
    BY <2>4, <2>8, CitationsResolve
  <2>11. RecipeRebuildEvidence(plan, w.captures)
    BY <2>4, <2>6, <2>8 DEF RecipeRebuildEvidence, superseded
  <2>12. PlanActions(plan, w.captures)
    BY <2>4, <2>10, <2>11 DEF PlanActions, PathsAreAuthorized, StableReleaseEvidence,
       ReleaseIsNewestPatch, StableReleaseActions
  <2> QED BY <2>3, <2>4, <2>9, <2>12 DEF Accepted, ValidatePlan, PatchExtendsShippedBranch,
             ResumeIsOwed, IsLifecycleResume
<1> QED BY <1>1, <1>2

-----------------------------------------------------------------------------
(* What is accepted, rule by rule. *)

\* The feed of a maintained branch is captured; once readable, it names a version
\* that can be cited from it.
LEMMA OwnFeedProves ==
  ASSUME NEW w, NEW base, IsReading(w, base), NEW branch \in w.maintained,
         ~OwnFeedIsMisshapen(w, branch)
  PROVE  LET v == OfferedVersion(w, branch) IN
         /\ v \in PlainVersions /\ v.branch = branch
         /\ FeedProof(w, v).id \in ProofFeeds(v) /\ Resolved(w.captures, FeedProof(w, v)) = v
         /\ IsCitation(w.captures, FeedProof(w, v))
<1> DEFINE v == OfferedVersion(w, branch)
<1>1. Feed(branch) \in DOMAIN w.captures
  BY DEF IsReading, FeedsAreTyped, EvidenceSources
<1>2. w.captures[Feed(branch)].body \in Nat /\ branch \in Nat
  BY <1>1 DEF OwnFeedIsMisshapen, IsReading, FeedsAreTyped, IsInput
<1>3. v = Version(branch, w.captures[Feed(branch)].body)
  BY <1>1 DEF OfferedVersion, BranchFeedVersion
<1>4. v \in PlainVersions /\ v.branch = branch /\ v # None
  BY <1>2, <1>3, VersionsAreValues DEF Version
<1>5. FeedProof(w, v) = Cite(w.captures, Feed(branch), None)
  BY <1>1, <1>4, OfferIsProved
<1>6. Resolved(w.captures, FeedProof(w, v)) = v
  BY <1>3, <1>5, Readings
<1>7. FeedProof(w, v).id = Feed(branch)
  BY <1>5 DEF Cite
<1> HIDE DEF v
<1>8. IsCitation(w.captures, FeedProof(w, v))
  BY <1>1, <1>4, <1>5, <1>6 DEF IsCitation
<1> QED BY <1>4, <1>6, <1>7, <1>8 DEF ProofFeeds, v

LEMMA PatchIsAccepted ==
  ASSUME NEW w, NEW base, IsReading(w, base), NEW branch \in w.maintained, ~NoNews(w, branch)
  PROVE  Accepted(w, base, PatchOn(w, branch))
<1> DEFINE v == OfferedVersion(w, branch)
           proof == FeedProof(w, v)
           plan == PatchOn(w, branch)
           isRead == \/ OwnFeedIsMisshapen(w, branch)
                     \/ Feed(branch) \notin DOMAIN w.captures
                     \/ branch \in ShippedBranches(w) \/ OwedResume(w, branch)
<1>1. Feed(branch) \in DOMAIN w.captures /\ Aggregate \in DOMAIN w.captures
  BY FixedIds DEF IsReading, FeedsAreTyped, EvidenceSources
<1>2. CASE ~FeedsRead(w, branch) /\ isRead
  <2>1. UnreadableFeed(w, branch) \in DOMAIN w.captures
    BY <1>1 DEF UnreadableFeed
  <2>2. plan = SourceFormatStop(w, UnreadableFeed(w, branch))
    BY <1>2 DEF PatchOn
  <2> QED BY <2>1, <2>2, FormatStopIsAccepted
<1>3. CASE ~(~FeedsRead(w, branch) /\ isRead)
  <2>1. ~OwnFeedIsMisshapen(w, branch)
    BY <1>3 DEF FeedsRead
  <2>2. /\ v \in PlainVersions /\ v.branch = branch
        /\ proof.id \in ProofFeeds(v) /\ Resolved(w.captures, proof) = v
        /\ IsCitation(w.captures, proof)
    BY <2>1, OwnFeedProves
  <2>3. \/ branch \in ShippedBranches(w) /\ plan = PlanOf("new_patch", ReleaseKey(v), {proof}, v)
        \/ /\ branch \notin ShippedBranches(w) /\ OwedResume(w, branch)
           /\ plan = LifecycleResume("new_branch", NewBranchKey(branch), {proof}, v)
        \/ /\ branch \notin ShippedBranches(w)
           /\ plan = Stop("needs_human", NewBranchKey(branch), {proof})
    BY <1>3 DEF PatchOn
  <2>4. branch \in ShippedBranches(w) \/ OwedResume(w, branch) => SupersededBy(w.captures, v) = {}
    <3> SUFFICES ASSUME branch \in ShippedBranches(w) \/ OwedResume(w, branch)
                 PROVE  SupersededBy(w.captures, v) = {}
      OBVIOUS
    <3>1. FeedsRead(w, branch)
      BY <1>3
    <3>2. ~WaitsForItsFeed(w, v)
      BY <1>1, <2>1, <3>1 DEF NoNews, FeedsRead, OwnFeedIsMisshapen
    <3> QED BY <2>2, <3>1, <3>2 DEF WaitsForItsFeed, FeedsRead
  <2>5. ~BehindWhatShipped(w, v)
    <3>1. \/ Feed(branch) \in DOMAIN w.captures /\ ~w.captures[Feed(branch)].shaped
          \/ Feed(branch) \notin DOMAIN w.captures
          \/ ~BehindWhatShipped(w, v)
      BY DEF NoNews
    <3> QED BY <1>1, <2>1, <3>1 DEF OwnFeedIsMisshapen
  <2>6. NewBranchKey(branch)[1] = "new_branch" /\ NewBranchKey(branch)[2] = branch
    BY DEF NewBranchKey
  <2> HIDE DEF v, proof
  <2>7. CASE branch \in ShippedBranches(w) /\ plan = PlanOf("new_patch", ReleaseKey(v), {proof}, v)
    <3>1. /\ plan.action = "new_patch" /\ plan.key = ReleaseKey(v) /\ plan.version = v
          /\ plan.evidence = {proof} /\ ~plan.edits /\ plan.allowed = {}
      BY <2>7 DEF PlanOf
    <3>2. ReleaseKey(v) = <<"new_patch", v.branch, v.patch>>
      BY <2>2 DEF ReleaseKey, PlainVersions
    <3>3. ReleaseKey(v) \notin CompletedKeys(w)
      <4> SUFFICES ASSUME ReleaseKey(v) \in CompletedKeys(w) PROVE FALSE
        OBVIOUS
      <4> DEFINE done == Version(ReleaseKey(v)[2], ReleaseKey(v)[3])
      <4>1. done \in PublishedVersions(w)
        BY <3>2 DEF PublishedVersions
      <4>2. done.branch = v.branch /\ done.patch = v.patch
        BY <3>2 DEF Version
      <4>3. v.patch <= v.patch
        BY <2>2 DEF PlainVersions
      <4> HIDE DEF done
      <4> QED BY <2>5, <4>1, <4>2, <4>3 DEF BehindWhatShipped
    <3>4. "new_patch" \in StableReleaseActions
      BY DEF StableReleaseActions
    <3> HIDE DEF plan
    <3>5. /\ plan.action \in StableReleaseActions /\ plan.key[1] = plan.action
          /\ plan.key \notin CompletedKeys(w)
      BY <3>1, <3>2, <3>3, <3>4
    <3>6. /\ plan.version \in PlainVersions /\ plan.version.branch \in ShippedBranches(w)
          /\ SupersededBy(w.captures, plan.version) = {}
      BY <2>2, <2>4, <2>7, <3>1
    <3>7. /\ \A item \in plan.evidence : IsCitation(w.captures, item)
          /\ \E item \in plan.evidence :
               item.id \in ProofFeeds(plan.version) /\ Resolved(w.captures, item) = plan.version
      <4>1. plan.evidence = {proof} /\ plan.version = v
        BY <3>1
      <4> QED BY <2>2, <4>1
    <3>8. Accepted(w, base, plan)
      BY <3>1, <3>5, <3>6, <3>7, ReleaseWorkIsAccepted
    <3> QED BY <3>8 DEF plan
  <2>8. CASE /\ branch \notin ShippedBranches(w) /\ OwedResume(w, branch)
             /\ plan = LifecycleResume("new_branch", NewBranchKey(branch), {proof}, v)
    <3>1. /\ plan.action = "new_branch" /\ plan.key = NewBranchKey(branch) /\ plan.version = v
          /\ plan.evidence = {proof} /\ plan.edits /\ plan.allowed = {} /\ plan.risk = "lifecycle"
      BY <2>8 DEF PlanOf, LifecycleResume, LifecycleActions
    <3>2. w.policyKey = plan.key /\ plan.key \notin DOMAIN w.events
      BY <2>8, <3>1 DEF OwedResume
    <3>3. LifecycleOnBase(plan, base)
      BY <2>6, <3>1, <3>2 DEF LifecycleOnBase, IsReading, CommitIsSound
    <3>4. "new_branch" \in StableReleaseActions /\ plan.key \notin CompletedKeys(w)
      BY <3>2 DEF StableReleaseActions, CompletedKeys
    <3> HIDE DEF plan
    <3>5. /\ plan.action \in StableReleaseActions /\ plan.key[1] = plan.action
          /\ plan.key \notin CompletedKeys(w) /\ plan.key[2] \notin ShippedBranches(w)
      BY <2>6, <2>8, <3>1, <3>4
    <3>6. plan.version \in PlainVersions /\ SupersededBy(w.captures, plan.version) = {}
      BY <2>2, <2>4, <2>8, <3>1
    <3>7. /\ \A item \in plan.evidence : IsCitation(w.captures, item)
          /\ \E item \in plan.evidence :
               item.id \in ProofFeeds(plan.version) /\ Resolved(w.captures, item) = plan.version
      <4>1. plan.evidence = {proof} /\ plan.version = v
        BY <3>1
      <4> QED BY <2>2, <4>1
    <3>8. Accepted(w, base, plan)
      BY <3>1, <3>3, <3>5, <3>6, <3>7, ReleaseWorkIsAccepted
    <3> QED BY <3>8 DEF plan
  <2>9. CASE /\ branch \notin ShippedBranches(w)
             /\ plan = Stop("needs_human", NewBranchKey(branch), {proof})
    <3>1. plan.action = "needs_human" /\ AuthorizesNothing(plan) /\ plan.key = NewBranchKey(branch)
          /\ plan.evidence = {proof}
      BY <2>9 DEF Stop, PlanOf, AuthorizesNothing
    <3>2. plan.key \notin CompletedKeys(w)
      BY <2>6, <2>9, <3>1 DEF ShippedBranches
    <3> HIDE DEF plan
    <3>3. EvidenceResolves(plan, w.captures)
      BY <2>2, <3>1, CitationsResolve
    <3>4. Accepted(w, base, plan)
      BY <3>1, <3>2, <3>3, StopIsAccepted
    <3> QED BY <3>4 DEF plan
  <2> QED BY <2>3, <2>7, <2>8, <2>9
<1> QED BY <1>2, <1>3

LEMMA NewPatchIsAccepted ==
  ASSUME NEW w, NEW base, IsReading(w, base), NewPatch(w) # None
  PROVE  Accepted(w, base, NewPatch(w))
<1> DEFINE news == {b \in w.maintained : ~NoNews(w, b)}
<1>1. CASE ~w.captures[Releases].shaped
  <2>1. Releases \in DOMAIN w.captures
    BY FixedIds DEF IsReading, FeedsAreTyped, EvidenceSources
  <2> QED BY <1>1, <2>1, FormatStopIsAccepted DEF NewPatch
<1>2. CASE w.captures[Releases].shaped
  <2>1. news # {} /\ NewPatch(w) = PatchOn(w, Oldest(news))
    BY <1>2 DEF NewPatch
  <2>2. news \subseteq Nat
    BY DEF IsReading, IsInput
  <2>3. Oldest(news) \in news
    BY <2>1, <2>2, OldestIsOne
  <2> QED BY <2>1, <2>3, PatchIsAccepted
<1> QED BY <1>1, <1>2

LEMMA ResumedReleaseIsAccepted ==
  ASSUME NEW w, NEW base, IsReading(w, base), NEW key \in w.decision.incomplete,
         key[1] \in {"new_patch", "new_branch"}
  PROVE  Accepted(w, base, ResumedRelease(w, key))
<1> DEFINE v == ResumedVersion(w, key)
           plan == ResumedRelease(w, key)
           cited == Cite(w.captures, <<"watch_decision">>, key)
           proof == FeedProof(w, v)
           proved == v # None /\ FeedProof(w, v) # None /\ SupersededBy(w.captures, v) = {}
<1>1. key # None /\ key \notin CompletedKeys(w) /\ key[2] \in Nat
  BY DEF IsReading, IsInput, RecordsAreSound
<1>2. IsCitation(w.captures, cited)
  BY <1>1, RuntimeCitation DEF RuntimeEvidence
<1>3. CASE ~FeedsRead(w, key[2])
  <2>1. UnreadableFeed(w, key[2]) \in DOMAIN w.captures
    BY FixedIds DEF UnreadableFeed, OwnFeedIsMisshapen, IsReading, FeedsAreTyped, EvidenceSources
  <2> QED BY <1>3, <2>1, FormatStopIsAccepted DEF ResumedRelease
<1>4. CASE FeedsRead(w, key[2]) /\ ~proved
  <2>1. /\ plan.action = "needs_human" /\ AuthorizesNothing(plan) /\ plan.key = key
        /\ plan.evidence = {cited}
    BY <1>4 DEF ResumedRelease, Stop, PlanOf, AuthorizesNothing
  <2> HIDE DEF plan, cited
  <2>2. EvidenceResolves(plan, w.captures)
    BY <1>2, <2>1, CitationsResolve
  <2>3. Accepted(w, base, plan)
    BY <1>1, <2>1, <2>2, StopIsAccepted
  <2> QED BY <2>3 DEF plan
<1>5. CASE FeedsRead(w, key[2]) /\ proved
  <2>1. /\ w.captures[Aggregate].shaped
        /\ Feed(key[2]) \in DOMAIN w.captures => w.captures[Feed(key[2])].shaped
    BY <1>5 DEF FeedsRead, OwnFeedIsMisshapen
  <2>2. \A m : LET a == AggregateVersion(w.captures, m) IN a # None => a \in PlainVersions
    BY <2>1 DEF AggregateVersion, IsReading, FeedsAreTyped, PlainVersions
  <2>3. BranchFeedVersion(w.captures, key[2]) # None =>
          BranchFeedVersion(w.captures, key[2]) \in PlainVersions
    <3>1. Feed(key[2]) \in DOMAIN w.captures => w.captures[Feed(key[2])].body \in Nat
      <4> SUFFICES ASSUME Feed(key[2]) \in DOMAIN w.captures
                   PROVE  w.captures[Feed(key[2])].body \in Nat
        OBVIOUS
      <4>1. PICK b \in w.maintained : Feed(key[2]) = Feed(b)
        BY FeedIds DEF IsReading, FeedsAreTyped, EvidenceSources
      <4> QED BY <2>1, <4>1 DEF IsReading, FeedsAreTyped
    <3> QED BY <1>1, <3>1, VersionsAreValues DEF BranchFeedVersion
  <2>4. v.branch = key[2]
    BY <1>5 DEF ResumedVersion, Version, BranchFeedVersion
  <2>5. v \in PlainVersions
    <3>1. key[1] = "new_patch" => key[3] \in Nat
      BY DEF IsReading, RecordsAreSound
    <3> QED BY <1>1, <1>5, <2>2, <2>3, <3>1, VersionsAreValues DEF ResumedVersion
  <2> HIDE DEF v
  <2>6. /\ proof.id \in ProofFeeds(v) /\ Resolved(w.captures, proof) = v
        /\ IsCitation(w.captures, proof)
    <3>1. CASE Feed(v.branch) \in DOMAIN w.captures
      <4>1. BranchFeedVersion(w.captures, v.branch) = v
            /\ proof = Cite(w.captures, Feed(v.branch), None)
        BY <1>5, <3>1 DEF FeedProof
      <4>2. Resolved(w.captures, proof) = v
        BY <3>1, <4>1, Readings DEF BranchFeedVersion
      <4>3. proof.id = Feed(v.branch)
        BY <4>1 DEF Cite
      <4> HIDE DEF proof
      <4> QED BY <1>5, <3>1, <4>1, <4>2, <4>3 DEF ProofFeeds, IsCitation
    <3>2. CASE Feed(v.branch) \notin DOMAIN w.captures
      <4>1. AggregateVersion(w.captures, Major(v.branch)) = v
            /\ proof = Cite(w.captures, Aggregate, Major(v.branch))
        BY <1>5, <3>2 DEF FeedProof
      <4>2. Resolved(w.captures, proof) = v
        BY ZenonT(30), <4>1, Readings
      <4>3. proof.id = Aggregate /\ Aggregate \in DOMAIN w.captures
        BY <4>1, FixedIds DEF Cite, IsReading, FeedsAreTyped, EvidenceSources
      <4> HIDE DEF proof
      <4> QED BY <1>5, <4>1, <4>2, <4>3 DEF ProofFeeds, IsCitation
    <3> QED BY <3>1, <3>2
  <2>7. /\ plan.action = key[1] /\ plan.key = key /\ plan.version = v /\ ~plan.edits
        /\ plan.allowed = {} /\ plan.evidence = {proof, cited}
    BY <1>5 DEF ResumedRelease, PlanOf, v
  <2>8. plan.action = "new_patch" => plan.version.branch \in ShippedBranches(w)
    BY <2>4, <2>7, ShippedAgrees DEF IsReading, RecordsAreSound
  <2>9. plan.action \in StableReleaseActions
    BY <2>7 DEF StableReleaseActions
  <2> HIDE DEF plan, cited, proof
  <2>10. Accepted(w, base, plan)
    BY <1>1, <1>2, <1>5, <2>5, <2>6, <2>7, <2>8, <2>9, ReleaseWorkIsAccepted
  <2> QED BY <2>10 DEF plan
<1> QED BY <1>3, <1>4, <1>5

LEMMA IncompleteIsAccepted ==
  ASSUME NEW w, NEW base, IsReading(w, base), w.decision.incomplete # {}
  PROVE  Accepted(w, base, IncompleteEvent(w))
<1> DEFINE key == FirstIncomplete(w)
           plan == IncompleteEvent(w)
           cited == Cite(w.captures, <<"watch_decision">>, key)
           selected == RebuildIsSelected(w) /\ ReleaseKey(w.decision.rebuild) = key
<1>1. key \in w.decision.incomplete
  BY FirstIsIncomplete DEF IsReading
<1>2. key # None /\ key \notin CompletedKeys(w) /\ key[1] \in Families
  BY <1>1 DEF IsReading, RecordsAreSound
<1>3. IsCitation(w.captures, cited)
  BY <1>2, RuntimeCitation DEF RuntimeEvidence
<1> HIDE DEF key, cited
<1>4. CASE plan = Stop("needs_human", key, {cited})
  <2>1. /\ plan.action = "needs_human" /\ AuthorizesNothing(plan) /\ plan.key = key
        /\ plan.evidence = {cited}
    BY <1>4 DEF Stop, PlanOf, AuthorizesNothing
  <2> HIDE DEF plan
  <2>2. EvidenceResolves(plan, w.captures)
    BY <1>3, <2>1, CitationsResolve
  <2>3. Accepted(w, base, plan)
    BY <1>2, <2>1, <2>2, StopIsAccepted
  <2> QED BY <2>3 DEF plan
<1>5. CASE key[1] = "branch_eol" /\ plan = PlanOf("branch_eol", key, {cited}, None)
  <2>1. /\ plan.action = "branch_eol" /\ plan.key = key /\ plan.version = None
        /\ plan.risk = "lifecycle" /\ plan.evidence = {cited} /\ ~plan.edits
    BY <1>5 DEF PlanOf, LifecycleActions
  <2> HIDE DEF plan
  <2>2. Accepted(w, base, plan)
    BY <1>2, <1>3, <1>5, <2>1, RetirementWorkIsAccepted
  <2> QED BY <2>2 DEF plan
<1>6. CASE RebuildIsSelected(w) /\ plan = RecipeRebuild(w)
  BY <1>6, RebuildIsAccepted
<1>7. CASE key[1] \in {"new_patch", "new_branch"} /\ plan = ResumedRelease(w, key)
  BY <1>1, <1>7, ResumedReleaseIsAccepted
<1>8. \/ plan = Stop("needs_human", key, {cited})
      \/ key[1] = "branch_eol" /\ plan = PlanOf("branch_eol", key, {cited}, None)
      \/ RebuildIsSelected(w) /\ plan = RecipeRebuild(w)
      \/ key[1] \in {"new_patch", "new_branch"} /\ plan = ResumedRelease(w, key)
  BY <1>2 DEF IncompleteEvent, Families, key, cited
<1> QED BY <1>4, <1>5, <1>6, <1>7, <1>8

LEMMA LifecycleIsAccepted ==
  ASSUME NEW w, NEW base, IsReading(w, base), Lifecycle(w) # None
  PROVE  Accepted(w, base, Lifecycle(w))
<1> DEFINE rows == SupportRows(w.captures[Page])
           plan == Lifecycle(w)
           new == NewBranches(w, rows)
<1>1. {Page, Aggregate} \subseteq DOMAIN w.captures
  BY FixedIds DEF IsReading, FeedsAreTyped, EvidenceSources
<1>2. CASE ~PageReads(w.captures[Page])
  BY <1>1, <1>2, FormatStopIsAccepted DEF Lifecycle
<1>3. CASE PageReads(w.captures[Page])
  <2>1. plan = LifecycleOf(w, rows)
    BY <1>3 DEF Lifecycle
  <2>2. DOMAIN rows \subseteq Nat /\ w.maintained \subseteq Nat
    BY <1>3 DEF IsReading, IsInput
  <2>3. \A b \in DOMAIN rows : IsCitation(w.captures, Cite(w.captures, Page, b))
    <3> SUFFICES ASSUME NEW b \in DOMAIN rows
                 PROVE  IsCitation(w.captures, Cite(w.captures, Page, b))
      OBVIOUS
    <3>1. \E i \in DOMAIN w.captures[Page].body : w.captures[Page].body[i].branch = b
      BY DEF SupportRows
    <3>2. Resolved(w.captures, Cite(w.captures, Page, b)) = b /\ b # None
      BY <2>2, <3>1, Readings, NoneIsNoValue
    <3> QED BY <1>1, <3>2 DEF IsCitation
  <2>4. \A b \in DOMAIN rows : rows[b].branch = b
    BY DEF SupportRows
  <2>5. IsCitation(w.captures, Cite(w.captures, <<"evidence_manifest">>, Page))
    <3>1. Page # None
      BY <1>1, <2>2, IdsAreValues DEF IsReading, FeedsAreTyped
    <3> QED BY <3>1, RuntimeCitation DEF RuntimeEvidence
  <2>6. \A k \in CompletedKeys(w) :
          /\ k[1] \in Families
          /\ k[1] = "branch_eol" => k[2] \notin w.maintained
          /\ k[1] = "new_branch" =>
               \/ k[2] \in w.maintained
               \/ k[2] \in DOMAIN rows => rows[k[2]].state \notin SupportedStates
    BY DEF IsReading, RecordsAreSound, CompletedKeys
  <2> HIDE DEF rows
  <2>7. CASE plan = ContradictionStop(w, rows)
    <3>1. /\ plan.action = "needs_human" /\ AuthorizesNothing(plan)
          /\ plan.key[1] = "policy_failure"
          /\ plan.evidence = {Cite(w.captures, <<"evidence_manifest">>, Page)}
      BY <2>7 DEF ContradictionStop, Stop, PlanOf, AuthorizesNothing
    <3> HIDE DEF plan
    <3>2. plan.key \notin CompletedKeys(w)
      BY <2>6, <3>1 DEF Families
    <3>3. EvidenceResolves(plan, w.captures)
      BY <2>5, <3>1, CitationsResolve
    <3>4. Accepted(w, base, plan)
      BY <3>1, <3>2, <3>3, StopIsAccepted
    <3> QED BY <3>4 DEF plan
  <2>8. CASE RetirementIsOwed(w, rows) /\ plan = ResumedRetirement(w, rows)
    <3>1. /\ plan.action = "branch_eol" /\ plan.key = w.policyKey /\ plan.version = None
          /\ plan.risk = "lifecycle" /\ plan.evidence # {}
          /\ \A item \in plan.evidence :
               \/ plan.key[2] \in DOMAIN rows /\ item = Cite(w.captures, Page, plan.key[2])
               \/ item = Cite(w.captures, <<"evidence_manifest">>, Page)
      BY <2>8 DEF ResumedRetirement, LifecycleResume, PlanOf, LifecycleActions
    <3>2. /\ plan.key[1] = "branch_eol" /\ plan.key[2] \notin w.maintained
          /\ plan.key \notin DOMAIN w.events
      BY <2>8, <3>1 DEF RetirementIsOwed
    <3> HIDE DEF plan
    <3>3. plan.key \notin CompletedKeys(w)
      BY <3>2 DEF CompletedKeys
    <3>4. LifecycleOnBase(plan, base)
      BY <3>1, <3>2 DEF LifecycleOnBase, IsReading, CommitIsSound
    <3>5. \A item \in plan.evidence : IsCitation(w.captures, item)
      BY <2>3, <2>5, <3>1
    <3>6. Accepted(w, base, plan)
      BY <3>1, <3>2, <3>3, <3>4, <3>5, RetirementWorkIsAccepted
    <3> QED BY <3>6 DEF plan
  <2>9. CASE plan = SourceFormatStop(w, Aggregate)
    BY <1>1, <2>9, FormatStopIsAccepted
  <2>10. CASE plan = NewBranchPlan(w, Oldest(new)) /\ new # {} /\ w.captures[Aggregate].shaped
    <3> DEFINE b == Oldest(new)
               v == AggregateVersion(w.captures, Major(b))
               item == Cite(w.captures, Aggregate, Major(b))
    <3>1. b \in new
      BY <2>2, <2>10, OldestIsOne DEF NewBranches
    <3>2. /\ b \in DOMAIN rows \ w.maintained /\ rows[b].state \in SupportedStates
          /\ v # None /\ v.branch = b
      BY <3>1 DEF NewBranches
    <3>3. v \in PlainVersions
      BY <2>10, <3>2 DEF AggregateVersion, PlainVersions, IsReading, FeedsAreTyped
    <3>4. /\ plan.action = "new_branch" /\ plan.key = NewBranchKey(b) /\ plan.version = v
          /\ plan.evidence = {item, Cite(w.captures, Page, b)} /\ plan.edits
          /\ plan.allowed # {} /\ plan.risk = "lifecycle"
      BY <2>10 DEF NewBranchPlan, PlanOf, LifecycleActions
    <3>5. Resolved(w.captures, item) = v /\ item.id = Aggregate
      BY Readings DEF Cite
    <3> HIDE DEF b
    <3>6. NewBranchKey(b)[1] = "new_branch" /\ NewBranchKey(b)[2] = b
      BY DEF NewBranchKey
    <3>7. plan.key \notin CompletedKeys(w)
      BY <2>6, <3>2, <3>4, <3>6
    <3>8. SupersededBy(w.captures, v) = {}
      <4>1. Feed(b) \notin DOMAIN w.captures
        <5> SUFFICES ASSUME Feed(b) \in DOMAIN w.captures PROVE FALSE
          OBVIOUS
        <5>1. PICK c \in w.maintained : Feed(b) = Feed(c)
          BY FeedIds DEF IsReading, FeedsAreTyped, EvidenceSources
        <5>2. Feed(b)[2] = b /\ Feed(c)[2] = c
          BY DEF Feed
        <5> QED BY <3>2, <5>1, <5>2
      <4>2. BranchFeedVersion(w.captures, b) = None
        BY <4>1 DEF BranchFeedVersion
      <4>3. ~(v.patch > v.patch)
        BY <3>3 DEF PlainVersions
      <4>4. FeedVersions(w.captures, b) \subseteq {v}
        BY <4>2 DEF FeedVersions
      <4> HIDE DEF v
      <4> QED BY <3>2, <4>3, <4>4 DEF SupersededBy
    <3> HIDE DEF v, item
    <3>9. IsCitation(w.captures, item)
      BY <1>1, <3>2, <3>5 DEF IsCitation, item
    <3>10. "new_branch" \in StableReleaseActions /\ Aggregate \in ProofFeeds(v)
      BY DEF StableReleaseActions, ProofFeeds
    <3> HIDE DEF plan
    <3>11. Accepted(w, base, plan)
      BY <2>3, <3>2, <3>3, <3>4, <3>5, <3>6, <3>7, <3>8, <3>9, <3>10, ReleaseWorkIsAccepted
    <3> QED BY <3>11 DEF plan
  <2>11. CASE /\ Contradiction(w, rows) = {} /\ EndedBranches(w, rows) # {}
              /\ plan = RetirementPlan(w, rows[Oldest(EndedBranches(w, rows))])
    <3> DEFINE branch == Oldest(EndedBranches(w, rows))
    <3>1. branch \in w.maintained /\ branch \in DOMAIN rows
      BY <2>2, <2>11, OldestIsOne DEF EndedBranches, Contradiction, Vanished
    <3> HIDE DEF branch
    <3>2. /\ plan.action = "branch_eol" /\ plan.key[1] = "branch_eol" /\ plan.key[2] = branch
          /\ plan.version = None /\ plan.risk = "lifecycle" /\ plan.allowed # {}
          /\ plan.evidence = {Cite(w.captures, Page, branch)}
      BY <2>4, <2>11, <3>1 DEF RetirementPlan, PlanOf, LifecycleActions, branch
    <3> HIDE DEF plan
    <3>3. plan.key \notin CompletedKeys(w)
      BY <2>6, <3>1, <3>2
    <3>4. \A item \in plan.evidence : IsCitation(w.captures, item)
      BY <2>3, <3>1, <3>2
    <3>5. Accepted(w, base, plan)
      BY <3>2, <3>3, <3>4, RetirementWorkIsAccepted
    <3> QED BY <3>5 DEF plan
  <2>12. new # {} => \E b \in DOMAIN rows \ w.maintained : rows[b].state \in SupportedStates
    BY DEF NewBranches
  <2> QED BY <2>1, <2>7, <2>8, <2>9, <2>10, <2>11, <2>12 DEF LifecycleOf
<1> QED BY <1>2, <1>3

LEMMA NoChangeIsAccepted ==
  ASSUME NEW w, NEW base, IsReading(w, base), ~RebuildIsSelected(w)
  PROVE  Accepted(w, base, NoChange(w))
<1> DEFINE plan == NoChange(w)
           item == Cite(w.captures, <<"evidence_manifest">>, "manifestDigest")
<1>1. /\ plan.action = "no_change" /\ plan.key = <<"no_change", w.captures>>
      /\ AuthorizesNothing(plan) /\ plan.evidence = {item} /\ plan.key[1] = "no_change"
  BY DEF NoChange, PlanOf, AuthorizesNothing
<1>2. "manifestDigest" # None
  BY NoneIsNoValue
<1>3. IsCitation(w.captures, item)
  BY <1>2, RuntimeCitation DEF RuntimeEvidence
<1> HIDE DEF plan, item
<1>4. EvidenceResolves(plan, w.captures)
  BY <1>1, <1>3, CitationsResolve
<1>5. plan.key \notin CompletedKeys(w)
  BY <1>1, CompletedFamilies DEF Families
<1>6. Accepted(w, base, plan)
  BY <1>1, <1>4, <1>5, StopIsAccepted DEF RebuildIsSelected
<1> QED BY <1>6 DEF plan

(***************************************************************************)
(* classify_evidence and validate_plan agree: no reading of a sound commit *)
(* gives a plan that admission refuses, so the job never fails between the *)
(* two on evidence that one of them accepts.                               *)
(***************************************************************************)
THEOREM PlansAreAccepted ==
  ASSUME NEW w, NEW base, IsReading(w, base)
  PROVE  Accepted(w, base, ClassifyEvidence(w))
<1>1. CASE SourcesFail(w)
  BY <1>1, HealthIsAccepted DEF ClassifyEvidence, IsReading, IsInput, FeedsAreTyped, RecordsAreSound
<1>2. CASE ~SourcesFail(w) /\ w.decision.incomplete # {}
  <2>1. \/ ClassifyEvidence(w) = IncompleteEvent(w)
        \/ NewPatch(w) # None /\ ClassifyEvidence(w) = NewPatch(w)
    BY <1>2 DEF ClassifyEvidence, ResumeIncomplete
  <2> QED BY <1>2, <2>1, IncompleteIsAccepted, NewPatchIsAccepted
<1>3. CASE ~SourcesFail(w) /\ w.decision.incomplete = {}
  <2>1. \/ NewPatch(w) # None /\ ClassifyEvidence(w) = NewPatch(w)
        \/ Lifecycle(w) # None /\ ClassifyEvidence(w) = Lifecycle(w)
        \/ RebuildIsSelected(w) /\ ClassifyEvidence(w) = RecipeRebuild(w)
        \/ ~RebuildIsSelected(w) /\ ClassifyEvidence(w) = NoChange(w)
    BY <1>3 DEF ClassifyEvidence
  <2> QED BY <2>1, NewPatchIsAccepted, LifecycleIsAccepted, RebuildIsAccepted, NoChangeIsAccepted
<1> QED BY <1>1, <1>2, <1>3

-----------------------------------------------------------------------------
(***************************************************************************)
(* What woke the watcher decides nothing but the failure of its health     *)
(* check: the same capture of the same commit gives the same plan.         *)
(***************************************************************************)
THEOREM TriggersDecideNothing ==
  ASSUME NEW w, NEW v,
         v.captures = w.captures, v.events = w.events, v.maintained = w.maintained,
         v.policyKey = w.policyKey, v.decision.rebuild = w.decision.rebuild,
         w.decision.incomplete = {}, v.decision.incomplete = {},
         w.decision.trigger # "health_failed", v.decision.trigger # "health_failed"
  PROVE  ClassifyEvidence(v) = ClassifyEvidence(w)
<1>1. CompletedKeys(v) = CompletedKeys(w)
  BY DEF CompletedKeys
<1>2. PublishedVersions(v) = PublishedVersions(w)
  BY <1>1 DEF PublishedVersions
<1>3. ShippedBranches(v) = ShippedBranches(w)
  BY <1>1, <1>2 DEF ShippedBranches
<1>4. ASSUME NEW b
      PROVE  /\ OwnFeedIsMisshapen(v, b) <=> OwnFeedIsMisshapen(w, b)
             /\ OfferedVersion(v, b) = OfferedVersion(w, b)
             /\ OwedResume(v, b) <=> OwedResume(w, b)
  BY DEF OwnFeedIsMisshapen, OfferedVersion, OwedResume
<1>5. ASSUME NEW b
      PROVE  /\ FeedsRead(v, b) <=> FeedsRead(w, b)
             /\ UnreadableFeed(v, b) = UnreadableFeed(w, b)
  BY <1>4 DEF FeedsRead, UnreadableFeed
<1>6. ASSUME NEW offer
      PROVE  /\ FeedProof(v, offer) = FeedProof(w, offer)
             /\ BehindWhatShipped(v, offer) <=> BehindWhatShipped(w, offer)
             /\ WaitsForItsFeed(v, offer) <=> WaitsForItsFeed(w, offer)
  BY <1>2, <1>3, <1>4 DEF FeedProof, BehindWhatShipped, WaitsForItsFeed
<1>7. ASSUME NEW id
      PROVE  SourceFormatStop(v, id) = SourceFormatStop(w, id)
  BY DEF SourceFormatStop
<1>8. ASSUME NEW b
      PROVE  NoNews(v, b) <=> NoNews(w, b)
  BY <1>4, <1>6 DEF NoNews
<1>9. ASSUME NEW b
      PROVE  PatchOn(v, b) = PatchOn(w, b)
  BY <1>3, <1>4, <1>5, <1>6, <1>7 DEF PatchOn
<1>10. NewPatch(v) = NewPatch(w)
  <2>1. {b \in v.maintained : ~NoNews(v, b)} = {b \in w.maintained : ~NoNews(w, b)}
    BY <1>8
  <2> QED BY <1>7, <1>9, <2>1 DEF NewPatch
<1>11. ASSUME NEW rows
       PROVE  LifecycleOf(v, rows) = LifecycleOf(w, rows)
  <2>1. /\ Vanished(v, rows) = Vanished(w, rows)
        /\ Misclassified(v, rows) = Misclassified(w, rows)
        /\ UnmaintainedOlder(v, rows) = UnmaintainedOlder(w, rows)
    BY DEF Vanished, Misclassified, UnmaintainedOlder
  <2>2. /\ Contradiction(v, rows) = Contradiction(w, rows)
        /\ ContradictionStop(v, rows) = ContradictionStop(w, rows)
    BY <2>1 DEF Contradiction, ContradictionStop
  <2>3. /\ RetirementIsOwed(v, rows) <=> RetirementIsOwed(w, rows)
        /\ ResumedRetirement(v, rows) = ResumedRetirement(w, rows)
    BY DEF RetirementIsOwed, ResumedRetirement
  <2>4. BranchResumePending(v) <=> BranchResumePending(w)
    BY <1>3 DEF BranchResumePending
  <2>5. NewBranches(v, rows) = NewBranches(w, rows) /\ EndedBranches(v, rows) = EndedBranches(w, rows)
    BY DEF NewBranches, EndedBranches
  <2>6. ASSUME NEW b
        PROVE  NewBranchPlan(v, b) = NewBranchPlan(w, b) /\ RetirementPlan(v, b) = RetirementPlan(w, b)
    BY DEF NewBranchPlan, RetirementPlan
  <2> QED BY <1>7, <2>2, <2>3, <2>4, <2>5, <2>6 DEF LifecycleOf
<1>12. Lifecycle(v) = Lifecycle(w)
  BY <1>7, <1>11 DEF Lifecycle
<1>13. (SourcesFail(v) <=> SourcesFail(w)) /\ Health(v) = Health(w)
  BY DEF SourcesFail, Health
<1>14. (RebuildIsSelected(v) <=> RebuildIsSelected(w)) /\ RecipeRebuild(v) = RecipeRebuild(w)
  BY <1>7 DEF RebuildIsSelected, RecipeRebuild
<1>15. NoChange(v) = NoChange(w)
  BY DEF NoChange
<1> QED BY <1>10, <1>12, <1>13, <1>14, <1>15 DEF ClassifyEvidence
=============================================================================
