----------------------------- MODULE WatchLoop ------------------------------
(***************************************************************************)
(* The watcher workflow and the publish runs it starts, over every         *)
(* maintained branch.  A watcher run checks out the commit it was queued   *)
(* at, reads whether a publish run is in flight, captures the feeds and    *)
(* the releases, and decides; its coordinate job then recovers a missing   *)
(* record and takes the route of the plan against whatever main has become *)
(* meanwhile.  A publish run that recorded its release starts the next     *)
(* watcher run.                                                            *)
(*                                                                         *)
(* The inside of a publish run is ReleaseTransaction; here it is the steps *)
(* that other versions and the watcher can see.  A commit of main is the   *)
(* content the loop reads from it: each merge makes a content main never   *)
(* had before.                                                             *)
(***************************************************************************)
EXTENDS WatchRules

CONSTANTS
  Branches,     \* maintained branches, numbers in version order
  Recipe,       \* the recipe identity of each branch after each reviewed edit
  MaxPatch,     \* bound: patches php.net releases on a branch
  MaxEdit,      \* bound: reviewed edits merged to main
  MaxFailures,  \* bound: steps that fail without a reason in the model
  MaxReruns     \* bound: runs whose failed jobs a person runs again

Edits == 0 .. MaxEdit
Patches == 0 .. MaxPatch

\* Finitely many branches are maintained: one of them is the newest.
ASSUME BranchesAreOrdered ==
  Branches \subseteq Nat /\ \E last \in Branches : \A b \in Branches : b <= last
ASSUME NoneIsNoVersion ==
  None \notin [branch : Branches, patch : Patches, rev : Nat]
ASSUME RecipeOfEveryEdit ==
  DOMAIN Recipe = Edits /\ \A e \in Edits : DOMAIN Recipe[e] = Branches
ASSUME BoundsAreNaturals ==
  {MaxPatch, MaxEdit, MaxFailures, MaxReruns} \subseteq Nat

VARIABLES
  feed,      \* the newest patch each branch's own feed names
  main,      \* [edit, records, reviewed, evidence]: the head commit
  public,    \* the published releases, as WatchRules has them
  drafts,    \* [v, commit]: tag and draft a publish run has staged
  badge,     \* the version with the Latest badge
  queue,     \* the pending watcher run, None when there is none
  watch,     \* the watcher run at work
  runs,      \* the publish runs dispatched and not yet ended
  stopped,   \* ended runs whose failed jobs may be run again
  failures,
  reruns

github == <<public, drafts, badge>>
bounds == <<failures, reruns>>
vars == <<feed, main, public, drafts, badge, queue, watch, runs, stopped,
          failures, reruns>>

Initially == [b \in Branches |-> [branch |-> b, patch |-> 0, rev |-> 0]]
InitialReleases ==
  {[v |-> Initially[b], recipe |-> Recipe[0][b], draft |-> FALSE] : b \in Branches}

Idle ==
  [phase |-> "idle", base |-> None, inFlight |-> FALSE, feed |-> None,
   releases |-> {}, plan |-> Plan("none", None), record |-> None, tip |-> None,
   merged |-> FALSE, repairFailed |-> FALSE, evidenceRecorded |-> FALSE]

Init ==
  /\ feed = [b \in Branches |-> 0]
  /\ main = [edit |-> 0, records |-> {Initially[b] : b \in Branches},
             reviewed |-> None, evidence |-> FALSE]
  /\ public = InitialReleases
  /\ drafts = {}
  /\ badge = (CHOOSE r \in public : ReleaseIsNewest(r.v, public)).v
  /\ queue = None
  /\ watch = Idle
  /\ runs = {}
  /\ stopped = {}
  /\ failures = 0
  /\ reruns = 0

\* A merge on top of m.
Merged(m) == [m EXCEPT !.evidence = FALSE]
WithRecord(m, v) == [Merged(m) EXCEPT !.records = @ \cup {v}]

InFlightStarted == {run \in runs : run.phase \notin {"queued", "recorded"}}

\* A publish run is in flight until its record job has completed.
InFlight == {run \in runs : run.phase # "recorded"}

-----------------------------------------------------------------------------
(* What happens around the workflows. *)

\* php.net releases the next patch of a branch.
FeedMoves(b) ==
  /\ feed[b] < MaxPatch
  /\ feed' = [feed EXCEPT ![b] = @ + 1]
  /\ UNCHANGED <<main, github, queue, watch, runs, stopped, bounds>>

\* A reviewed pull request merges; it may change the recipe of some branches.
MergeEdit ==
  /\ main.edit < MaxEdit
  /\ main' = [Merged(main) EXCEPT !.edit = @ + 1]
  /\ UNCHANGED <<feed, github, queue, watch, runs, stopped, bounds>>

\* The schedule or a person starts a watcher run at the present main.  GitHub
\* keeps one pending run per group and cancels the older pending one.
Schedule ==
  /\ queue' = [Idle EXCEPT !.phase = "start", !.base = main]
  /\ queue' # queue
  /\ UNCHANGED <<feed, main, github, watch, runs, stopped, bounds>>

\* An owner deletes a draft and its tag once no run is at work on its version.
DiscardDraft(d) ==
  /\ ~ \E run \in runs : run.v = d.v
  /\ drafts' = drafts \ {d}
  /\ UNCHANGED <<feed, main, public, badge, queue, watch, runs, stopped, bounds>>

-----------------------------------------------------------------------------
(* The watcher run. *)

\* Whoever is idle again: what a failed run leaves for "Re-run failed jobs".
EndWatcher(left) ==
  /\ watch' = Idle
  /\ stopped' = stopped \cup left

StartWatcher ==
  /\ watch.phase = "idle"
  /\ queue # None
  /\ watch' = queue
  /\ queue' = None
  /\ UNCHANGED <<feed, main, github, runs, stopped, bounds>>

\* Find a publish run still in flight, before anything is captured.
ReadInFlight ==
  /\ watch.phase = "start"
  /\ watch' = [watch EXCEPT !.phase = "feeds", !.inFlight = InFlight # {}]
  /\ UNCHANGED <<feed, main, github, queue, runs, stopped, bounds>>

CaptureFeeds ==
  /\ watch.phase = "feeds"
  /\ watch' = [watch EXCEPT !.phase = "releases", !.feed = feed]
  /\ UNCHANGED <<feed, main, github, queue, runs, stopped, bounds>>

Snapshot(w) == [feed |-> w.feed, releases |-> w.releases]

\* The commit that recorded evidence is never the commit that evidence captured.
ChangedCaptures(w) ==
  IF w.base.reviewed = Snapshot(w) THEN {"php_bin_state"}
  ELSE {"php_bin_state", "releases_or_feeds"}

CapturedOnMain(w, sourcesHealthy) ==
  [healthy |-> TRUE, sourcesHealthy |-> sourcesHealthy, incomplete |-> FALSE,
   changed |-> ChangedCaptures(w), selfEvidence |-> w.base.evidence,
   releases |-> w.releases, identity |-> Recipe[main.edit],
   recorded |-> w.base.records]

Captured(w, sourcesHealthy) ==
  [healthy |-> TRUE, sourcesHealthy |-> sourcesHealthy, incomplete |-> FALSE,
   changed |-> ChangedCaptures(w), selfEvidence |-> w.base.evidence,
   releases |-> w.releases, identity |-> Recipe[w.base.edit],
   recorded |-> w.base.records]

Fails ==
  /\ failures < MaxFailures
  /\ failures' = failures + 1
  /\ UNCHANGED reruns

Decision(w, sourcesHealthy) == WatchDecision(Captured(w, sourcesHealthy))

PlanOf(w, decision) ==
  IF decision.classify
  THEN Classify(decision, w.feed, w.releases, w.base.records)
  ELSE Plan("none", None)

\* What the coordinate job reads of the investigation: a rebuild cites the
\* releases, and reviewed evidence is the whole snapshot.
Retained(w, plan) ==
  [w EXCEPT
    !.base = IF plan.action \in PublishActions THEN @ ELSE None,
    !.feed = IF plan.action = "no_change" THEN @ ELSE None,
    !.releases = IF plan.action \in {"no_change", "recipe_rebuild"} THEN @ ELSE {}]

\* The releases are captured last; decision, classification and admission
\* then work on the captured bytes and the checkout alone.  Admission stops a
\* plan it refuses.
Investigate(sourcesHealthy) ==
  /\ watch.phase = "releases"
  /\ LET w == [watch EXCEPT !.releases = public]
         decision == Decision(w, sourcesHealthy)
         plan == PlanOf(w, decision)
         admitted == Admits(plan, decision.rebuild, w.base.records)
     IN watch' = IF ~admitted \/ (plan.action = "none" /\ decision.record = None)
                 THEN Idle
                 ELSE [Retained(w, plan) EXCEPT
                        !.phase = "checkout", !.plan = plan,
                        !.record = decision.record]
  /\ IF sourcesHealthy THEN UNCHANGED bounds ELSE Fails
  /\ UNCHANGED <<feed, main, github, queue, runs, stopped>>

\* The coordinate job works on main as it is now.
Checkout ==
  /\ watch.phase = "checkout"
  /\ watch' = [watch EXCEPT !.phase = "recover", !.tip = main]
  /\ UNCHANGED <<feed, main, github, queue, runs, stopped, bounds>>

RecoveryIsRouted ==
  Route(RecoveryCall(watch.record, watch.inFlight)).recoveryRoute = "recover_record"

\* Nothing is due, or the record reached main after the decision was taken.
NoRecovery ==
  /\ watch.phase = "recover"
  /\ RecoveryIsRouted => watch.record \in watch.tip.records
  /\ watch' = [watch EXCEPT !.phase = "evidence"]
  /\ UNCHANGED <<feed, main, github, queue, runs, stopped, bounds>>

RecoveryUnrouted ==
  /\ watch.phase = "recover"
  /\ watch.record \notin watch.tip.records

RecoveryIsDue ==
  /\ watch.phase = "recover"
  /\ RecoveryIsRouted
  /\ watch.record \notin watch.tip.records

\* merge-record-pr merges only onto the base the record was cut from.
RecoverRecord ==
  /\ RecoveryIsDue
  /\ main = watch.tip
  /\ main' = WithRecord(main, watch.record)
  /\ watch' = [watch EXCEPT !.phase = "evidence", !.merged = TRUE]
  /\ UNCHANGED <<feed, github, queue, runs, stopped, bounds>>

\* A repair that is refused, or fails before its merge, does not stop the job;
\* it fails the job at its end.
RecoveryRefused ==
  /\ RecoveryIsDue
  /\ watch' = [watch EXCEPT !.phase = "evidence", !.repairFailed = TRUE]
  /\ IF main # watch.tip THEN UNCHANGED bounds ELSE Fails
  /\ UNCHANGED <<feed, main, github, queue, runs, stopped>>

\* So does one whose merge went through and only its reply was lost:
\* recoveryMerged is then not set.
RecoveryReplyLost ==
  /\ RecoveryIsDue
  /\ main = watch.tip
  /\ main' = WithRecord(main, watch.record)
  /\ watch' = [watch EXCEPT !.phase = "evidence", !.repairFailed = TRUE]
  /\ UNCHANGED <<feed, github, queue, runs, stopped, bounds>>

\* No-change evidence is always cut from the current main.  The file names the
\* captured head of main too, so equal captures need not be an equal file.
PrepareEvidence ==
  /\ watch.phase = "evidence"
  /\ \E recorded \in BOOLEAN :
       /\ recorded => watch.plan.action = "no_change" /\ main.reviewed = Snapshot(watch)
       /\ watch' = [watch EXCEPT
            !.phase = "dispatch",
            !.tip = IF watch.plan.action = "no_change" THEN main ELSE None,
            !.evidenceRecorded = recorded]
  /\ UNCHANGED <<feed, main, github, queue, runs, stopped, bounds>>

Routed ==
  Route([action |-> watch.plan.action, key |-> watch.plan.v,
         recordKey |-> watch.record, edits |-> FALSE,
         recoveryMerged |-> watch.merged,
         evidenceRecorded |-> watch.evidenceRecorded,
         publishInFlight |-> watch.inFlight]).route

\* Where "Re-run failed jobs" begins again: at the start with the commit of
\* the first attempt, or at the coordinate job with everything investigated.
Resumption(w) ==
  IF w.phase \in {"start", "feeds", "releases"}
  THEN [Idle EXCEPT !.phase = "start", !.base = w.base]
  ELSE [w EXCEPT !.phase = "checkout", !.tip = None, !.merged = FALSE,
                 !.repairFailed = FALSE, !.evidenceRecorded = FALSE]

MayRerun(x) == IF reruns < MaxReruns THEN {x} ELSE {}

\* What the job leaves when it fails.
Leaves(failed) ==
  IF failed THEN MayRerun([kind |-> "watcher", run |-> Resumption(watch)]) ELSE {}

RouteNothing ==
  /\ watch.phase = "dispatch"
  /\ Routed \in {"none", "notify_blocked"}
  /\ EndWatcher(Leaves(watch.repairFailed))
  /\ UNCHANGED <<feed, main, github, queue, runs, bounds>>

\* The publish run builds the commit the plan was admitted on.  A rebuild
\* cites the list of releases it was selected from.
DispatchPublish ==
  /\ watch.phase = "dispatch"
  /\ Routed = "dispatch_publish"
  /\ runs' = runs \cup
       {[v |-> watch.plan.v, commit |-> watch.base,
         cites |-> watch.releases,
         phase |-> "queued", latest |-> FALSE]}
  /\ EndWatcher(Leaves(watch.repairFailed))
  /\ UNCHANGED <<feed, main, github, queue, bounds>>

RecordEvidence ==
  /\ watch.phase = "dispatch"
  /\ Routed = "no_change_evidence"
  /\ main' = IF main = watch.tip
             THEN [main EXCEPT !.reviewed = Snapshot(watch), !.evidence = TRUE]
             ELSE main
  /\ EndWatcher(Leaves(watch.repairFailed \/ main # watch.tip))
  /\ UNCHANGED <<feed, github, queue, runs, bounds>>

WatcherFails ==
  /\ watch.phase # "idle"
  /\ EndWatcher(Leaves(TRUE))
  /\ Fails
  /\ UNCHANGED <<feed, main, github, queue, runs>>

-----------------------------------------------------------------------------
(* A publish run. *)

WithLatest(run, latest) == [run EXCEPT !.latest = latest]
Step(run, phase) == (runs \ {run}) \cup {[run EXCEPT !.phase = phase]}

IsPublic(v) == \E r \in public : r.v = v

\* validate-recaptured-evidence: a patch binds its own branch feed, a rebuild
\* the list of releases.
EvidenceHolds(run) ==
  IF run.v.rev = 0 THEN feed[run.v.branch] = run.v.patch ELSE public = run.cites

\* The tag of a draft names the commit of the run that staged it.
TagAllows(run) == \A d \in drafts : d.v = run.v => d.commit = run.commit

\* GitHub runs one publish run of a version at a time.
HasTheGroup(run) ==
  \A other \in runs \ {run} : other.v = run.v => other.phase = "queued"

StageDraftAgain(run) ==
  /\ run.phase = "queued"
  /\ HasTheGroup(run)
  /\ TagAllows(run)
  /\ drafts' = drafts \cup {[v |-> run.v, commit |-> run.commit]}
  /\ runs' = Step(run, "staged")
  /\ UNCHANGED <<feed, main, public, badge, queue, watch, stopped, bounds>>

StageDraft(run) ==
  /\ run.phase = "queued"
  /\ HasTheGroup(run)
  /\ EvidenceHolds(run)
  /\ TagAllows(run)
  /\ ~IsPublic(run.v)
  /\ drafts' = drafts \cup {[v |-> run.v, commit |-> run.commit]}
  /\ runs' = Step(run, "staged")
  /\ UNCHANGED <<feed, main, public, badge, queue, watch, stopped, bounds>>

\* The write token lists drafts too.
Listing ==
  public \cup
  {[v |-> d.v, recipe |-> Recipe[d.commit.edit][d.v.branch], draft |-> TRUE] :
     d \in drafts}

ReadLatestAlways(run) ==
  /\ run.phase = "staged"
  /\ EvidenceHolds(run)
  /\ [v |-> run.v, commit |-> run.commit] \in drafts
  /\ runs' = (runs \ {run}) \cup
       {[WithLatest(run, TRUE) EXCEPT !.phase = "publishing"]}
  /\ UNCHANGED <<feed, main, github, queue, watch, stopped, bounds>>

\* The publish job recaptures, then reads the list that decides the badge.
ReadLatest(run) ==
  /\ run.phase = "staged"
  /\ EvidenceHolds(run)
  /\ [v |-> run.v, commit |-> run.commit] \in drafts
  /\ runs' = (runs \ {run}) \cup
       {[WithLatest(run, ReleaseIsNewest(run.v, Listing)) EXCEPT
          !.phase = "publishing"]}
  /\ UNCHANGED <<feed, main, github, queue, watch, stopped, bounds>>

\* One PATCH makes the draft public and sets or withholds the badge.
Publish(run) ==
  /\ run.phase = "publishing"
  /\ public' = public \cup
       {[v |-> run.v, recipe |-> Recipe[run.commit.edit][run.v.branch],
         draft |-> FALSE]}
  /\ badge' = IF run.latest THEN run.v ELSE badge
  /\ drafts' = {d \in drafts : d.v # run.v}
  /\ runs' = Step(run, "public")
  /\ UNCHANGED <<feed, main, queue, watch, stopped, bounds>>

\* A record another actor has filed meanwhile ends the job as well.
FileRecord(run) ==
  /\ run.phase = "public"
  /\ main' = IF run.v \in main.records THEN main ELSE WithRecord(main, run.v)
  /\ runs' = Step(run, "recorded")
  /\ UNCHANGED <<feed, github, queue, watch, stopped, bounds>>

StartNextWatcher(run) ==
  /\ run.phase = "recorded"
  /\ queue' = [Idle EXCEPT !.phase = "start", !.base = main]
  /\ runs' = runs \ {run}
  /\ UNCHANGED <<feed, main, github, watch, stopped, bounds>>

\* The release is public already: with the bytes of this run's draft the run
\* goes on to its record.
FindPublic(run) ==
  /\ run.phase \in {"queued", "staged"}
  /\ HasTheGroup(run)
  /\ IsPublic(run.v)
  /\ runs' = Step(run, "public")
  /\ UNCHANGED <<feed, main, github, queue, watch, stopped, bounds>>

EndRun(run, left) ==
  /\ runs' = runs \ {run}
  /\ stopped' = stopped \cup left
  /\ UNCHANGED <<feed, main, github, queue, watch>>

\* A publish job that begins again reads the draft and the badge anew.
Rerunnable(run) == MayRerun([kind |-> "publish", run |->
  [WithLatest(run, FALSE) EXCEPT
    !.phase = IF run.phase = "publishing" THEN "staged" ELSE run.phase]])

\* Evidence that moved, a tag of another commit, or a public release with
\* other bytes stops the run before any effect.
Refused(run) ==
  /\ \/ /\ run.phase = "queued"
        /\ HasTheGroup(run)
        /\ ~(EvidenceHolds(run) /\ TagAllows(run)) \/ IsPublic(run.v)
     \/ /\ run.phase = "staged"
        /\ \/ ~EvidenceHolds(run)
           \/ [v |-> run.v, commit |-> run.commit] \notin drafts
  /\ EndRun(run, Rerunnable(run))
  /\ UNCHANGED bounds

RunFails(run) ==
  /\ EndRun(run, Rerunnable(run))
  /\ Fails

-----------------------------------------------------------------------------
(* A person chooses "Re-run failed jobs" of an ended run. *)

\* Beyond the bound nothing is run again, and nothing is kept for it.
StillStopped(s) ==
  stopped' = IF reruns + 1 = MaxReruns THEN {} ELSE stopped \ {s}

RerunPublish(s) ==
  /\ s.kind = "publish"
  /\ reruns < MaxReruns
  /\ \A run \in runs : run.v # s.run.v
  /\ runs' = runs \cup {s.run}
  /\ StillStopped(s)
  /\ reruns' = reruns + 1
  /\ UNCHANGED <<feed, main, github, queue, watch, failures>>

RerunWatcher(s) ==
  /\ s.kind = "watcher"
  /\ reruns < MaxReruns
  /\ queue' = s.run
  /\ StillStopped(s)
  /\ reruns' = reruns + 1
  /\ UNCHANGED <<feed, main, github, watch, runs, failures>>

-----------------------------------------------------------------------------
Around ==
  \/ \E b \in Branches : FeedMoves(b)
  \/ MergeEdit
  \/ Schedule
  \/ \E d \in drafts : DiscardDraft(d)
  \/ \E s \in stopped : RerunPublish(s) \/ RerunWatcher(s)

Coordinate ==
  \/ Checkout
  \/ NoRecovery
  \/ RecoverRecord
  \/ RecoveryRefused
  \/ PrepareEvidence
  \/ RouteNothing
  \/ DispatchPublish
  \/ RecordEvidence

\* The watcher's steps that succeed.
WatcherStep ==
  \/ ReadInFlight
  \/ CaptureFeeds
  \/ Investigate(TRUE)
  \/ Coordinate

Publication(run) ==
  \/ StageDraft(run)
  \/ ReadLatest(run)
  \/ Publish(run)
  \/ FileRecord(run)
  \/ StartNextWatcher(run)
  \/ FindPublic(run)
  \/ Refused(run)

PublishStep == \E run \in runs : Publication(run)

Next ==
  \/ Around
  \/ StartWatcher
  \/ WatcherStep
  \/ Investigate(FALSE)
  \/ RecoveryReplyLost
  \/ WatcherFails
  \/ PublishStep
  \/ \E run \in runs : RunFails(run)

Spec == Init /\ [][Next]_vars

(***************************************************************************)
(* The schedule starts watcher runs twice a day, every job has a timeout,  *)
(* and GitHub starts the pending run of a free group.  Failures end when   *)
(* their bound is used up; nothing is assumed about people or php.net.     *)
(***************************************************************************)
Fairness ==
  /\ WF_vars(Schedule)
  /\ WF_vars(StartWatcher)
  /\ WF_vars(WatcherStep)
  /\ WF_vars(PublishStep)

FairSpec == Spec /\ Fairness

\* The owner deletes a draft whose commit main has left behind.
AttendedSpec ==
  FairSpec /\ SF_vars(\E d \in drafts : d.commit # main /\ DiscardDraft(d))

-----------------------------------------------------------------------------
Versions == [branch : Branches, patch : Patches, rev : Nat]
Identities == {Recipe[e][b] : e \in Edits, b \in Branches}

\* Every variable keeps its type; a record on main names a version.
TypeOK ==
  /\ feed \in [Branches -> Patches]
  /\ main.edit \in Edits /\ main.evidence \in BOOLEAN
  /\ main.records \subseteq Versions
  /\ public \subseteq [v : Versions, recipe : Identities, draft : {FALSE}]
  /\ {d.v : d \in drafts} \cup {badge} \subseteq Versions
  /\ watch.phase \in {"idle", "start", "feeds", "releases", "checkout",
                      "recover", "evidence", "dispatch"}
  /\ \A run \in runs :
       /\ run.v \in Versions
       /\ run.phase \in {"queued", "staged", "publishing", "public", "recorded"}

\* Whatever the classifier selects, admission accepts: the two derive the
\* same release from one capture, so no run stops between them.
EveryPlanIsAdmitted ==
  watch.phase = "releases" =>
    LET w == [watch EXCEPT !.releases = public]
        decision == Decision(w, TRUE)
    IN Admits(PlanOf(w, decision), decision.rebuild, w.base.records)

\* A version is published once: no run, however late it resumes, publishes a
\* second build of it.
PublishedOnce ==
  \A r, s \in public : r.v = s.v => r = s

\* A revision is published only on top of the one before it.
RevisionsAreASequence ==
  \A r \in public : r.v.rev > 0 => IsPublic([r.v EXCEPT !.rev = @ - 1])

\* No rebuild goes back to an older recipe; identities are numbered in the
\* order of the edits.
RebuildsMoveOn ==
  \A r, s \in public :
    r.v.branch = s.v.branch /\ r.v.patch = s.v.patch /\ r.v.rev < s.v.rev
      => r.recipe < s.recipe

\* What makes PublishedOnce inductive: the group admits one run of a version
\* beyond its queue, a draft is never kept beside its own publication, and the
\* run about to publish read a draft.
IsRun(run) ==
  run = [v |-> run.v, commit |-> run.commit, cites |-> run.cites,
         phase |-> run.phase, latest |-> run.latest]

RunsAreRuns ==
  /\ \A run \in runs : IsRun(run)
  /\ \A s \in stopped : s.kind = "publish" =>
       IsRun(s.run) /\ s.run.phase # "publishing"

OneActiveRun ==
  \A run, other \in runs :
    run.v = other.v /\ "queued" \notin {run.phase, other.phase} => run = other

DraftsAreNotPublic ==
  \A d \in drafts : ~IsPublic(d.v)

PublishingIsNew ==
  \A run \in runs : run.phase = "publishing" => ~IsPublic(run.v)

\* A version is published once, and no run is on its way to do it again: nothing
\* that is public has a draft beside it or a run that is about to publish it.
SinglePublication ==
  /\ PublishedOnce
  /\ DraftsAreNotPublic
  /\ PublishingIsNew

OnceInv ==
  /\ RunsAreRuns
  /\ OneActiveRun
  /\ DraftsAreNotPublic
  /\ PublishingIsNew
  /\ PublishedOnce

WatcherActs ==
  /\ watch.phase \in {"recover", "dispatch"}
  /\ watch' # watch
  /\ main' # main \/ runs' # runs

\* What makes WorkIsHeldForPublish inductive while nobody reruns anything: the
\* runs in flight only end after the watcher looked for them.
IsWatcher(w) == {"phase", "inFlight"} \subseteq DOMAIN w

WatchersAreWatchers ==
  /\ IsWatcher(watch)
  /\ queue # None => IsWatcher(queue) /\ queue.phase = "start"

NothingIsRerun == reruns = 0 /\ stopped = {}

InFlightOnlyShrinks ==
  \/ watch.phase \in {"idle", "start"}
  \/ watch.inFlight
  \/ InFlight = {}

HeldInv == WatchersAreWatchers /\ NothingIsRerun /\ InFlightOnlyShrinks

\* The watcher merges and dispatches nothing while a publish run is in flight,
\* although it looked only when its run began.
WorkIsHeldForPublish ==
  [][WatcherActs => InFlight = {}]_vars

\* A publish run is dispatched only for a version that is not public.
NoRepeatedDispatch ==
  [][\A run \in runs' \ runs : run.phase = "queued" => ~IsPublic(run.v)]_vars

Line == INSTANCE ReleaseLine WITH Initial <- InitialReleases

\* The releases as a whole keep the promise of ReleaseLine: each publication
\* continues the line of its branch, and the badge follows the newest.
ImplementsReleaseLine == Line!Spec

HeadOf(b) == CHOOSE r \in BranchHeads(public) : r.v.branch = b

Settled ==
  /\ \A b \in Branches :
       /\ HeadOf(b).v.patch = feed[b]
       /\ HeadOf(b).recipe = Recipe[main.edit][b]
  /\ {r.v : r \in public} \subseteq main.records
  /\ runs = {}

\* Once php.net and the recipe rest, every branch ends at its newest patch,
\* built from the current recipe and recorded, and the chain of runs ends.
EventuallySettled == <>[]Settled
=============================================================================
