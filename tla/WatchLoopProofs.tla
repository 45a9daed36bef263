--------------------------- MODULE WatchLoopProofs ---------------------------
(***************************************************************************)
(* Proofs about the watch loop, for any branches, recipes and bounds.      *)
(*                                                                         *)
(* First what its publish runs keep among themselves: a version is public  *)
(* at most once.  Then the line of releases: every record, plan and run    *)
(* rests on releases that are public, and those never go away; so what was *)
(* selected from a capture is still above everything done when it is       *)
(* published.  Where nobody reruns a run, the watcher acts only while none *)
(* is in flight (HeldInv), hence one run at a time moves the line, and the *)
(* line it was planned on is the line it publishes on.                     *)
(* Where runs are rerun that is lost; what is left is what the publish job *)
(* verifies anew before it decides (RestInv): the decision is right when   *)
(* it is taken, and the line holds while one run at a time is between its  *)
(* decision and its publication.  Even where several are, the next version *)
(* above all releases takes the badge (WithheldInv).                       *)
(***************************************************************************)
EXTENDS WatchLoop, WatchRulesProofs

-----------------------------------------------------------------------------
(* No version is published twice. *)

LEMMA InitIsOnce == Init => OnceInv
<1> SUFFICES ASSUME Init PROVE OnceInv
  OBVIOUS
<1>1. PublishedOnce
  <2>1. \A b \in Branches : Initially[b].branch = b
    BY DEF Initially
  <2>2. \A r \in public : \E b \in Branches :
          r = [v |-> Initially[b], recipe |-> Recipe[0][b], draft |-> FALSE]
    BY DEF Init, InitialReleases
  <2>3. \A r \in public : /\ r.v.branch \in Branches
                          /\ r = [v |-> Initially[r.v.branch],
                                  recipe |-> Recipe[0][r.v.branch],
                                  draft |-> FALSE]
    BY <2>1, <2>2
  <2> QED BY <2>3 DEF PublishedOnce
<1>2. RunsAreRuns /\ OneActiveRun /\ DraftsAreNotPublic /\ PublishingIsNew
  BY DEF Init, RunsAreRuns, OneActiveRun, DraftsAreNotPublic, PublishingIsNew
<1> QED BY <1>1, <1>2 DEF OnceInv

\* A step that leaves the releases, drafts and runs alone, and stops no publish
\* run, keeps the invariant.
LEMMA OnceUntouched ==
  ASSUME OnceInv, UNCHANGED <<public, drafts, runs>>,
         \A s \in stopped' \ stopped : s.kind = "watcher"
  PROVE  OnceInv'
BY DEF OnceInv, RunsAreRuns, OneActiveRun, DraftsAreNotPublic,
       PublishingIsNew, PublishedOnce, IsRun, IsPublic

\* A run that moves on in a phase the group admits keeps the run parts.
LEMMA StepKeepsRuns ==
  ASSUME RunsAreRuns, OneActiveRun, UNCHANGED stopped,
         NEW run \in runs, run.phase # "queued" \/ HasTheGroup(run),
         NEW next, IsRun(next), next.v = run.v,
         runs' = (runs \ {run}) \cup {next}
  PROVE  RunsAreRuns' /\ OneActiveRun'
<1>1. RunsAreRuns'
  BY DEF RunsAreRuns, IsRun
<1>2. \A other \in runs \ {run} : other.v = run.v => other.phase = "queued"
  BY DEF OneActiveRun, HasTheGroup
<1>3. OneActiveRun'
  BY <1>2 DEF OneActiveRun
<1> QED BY <1>1, <1>3

LEMMA StepIsRun ==
  ASSUME NEW run, IsRun(run), NEW phase
  PROVE  /\ IsRun([run EXCEPT !.phase = phase])
         /\ [run EXCEPT !.phase = phase].v = run.v
         /\ [run EXCEPT !.phase = phase].phase = phase
<1>1. [run EXCEPT !.phase = phase] =
        [v |-> run.v, commit |-> run.commit, cites |-> run.cites,
         phase |-> phase, latest |-> run.latest]
  BY DEF IsRun
<1> QED BY <1>1 DEF IsRun

LEMMA LatestIsRun ==
  ASSUME NEW run, IsRun(run), NEW latest
  PROVE  IsRun(WithLatest(run, latest)) /\ WithLatest(run, latest).v = run.v
<1>1. WithLatest(run, latest) =
        [v |-> run.v, commit |-> run.commit, cites |-> run.cites,
         phase |-> run.phase, latest |-> latest]
  BY DEF IsRun, WithLatest
<1> QED BY <1>1 DEF IsRun

\* The run that left the queue is the one in "next"; every other run is in
\* the phase it was in.
LEMMA StagingKeepsOnce ==
  ASSUME OnceInv, NEW run \in runs, StageDraft(run)
  PROVE  OnceInv'
<1> DEFINE next == [run EXCEPT !.phase = "staged"]
<1>1. IsRun(next) /\ next.v = run.v /\ next.phase = "staged"
  BY StepIsRun DEF OnceInv, RunsAreRuns
<1>2. runs' = (runs \ {run}) \cup {next}
  BY DEF StageDraft, Step
<1>3. RunsAreRuns' /\ OneActiveRun'
  BY <1>1, <1>2, StepKeepsRuns DEF OnceInv, StageDraft
<1>4. DraftsAreNotPublic'
  BY DEF OnceInv, DraftsAreNotPublic, StageDraft, IsPublic
<1>5. PublishingIsNew'
  BY <1>1, <1>2 DEF OnceInv, PublishingIsNew, StageDraft, IsPublic
<1>6. PublishedOnce'
  BY DEF OnceInv, PublishedOnce, StageDraft
<1> QED BY <1>3, <1>4, <1>5, <1>6 DEF OnceInv

\* The draft the publish job reads has no publication beside it.
LEMMA ReadingKeepsOnce ==
  ASSUME OnceInv, NEW run \in runs, ReadLatest(run)
  PROVE  OnceInv'
<1> DEFINE judged == WithLatest(run, ReleaseIsNewest(run.v, Listing))
           next == [judged EXCEPT !.phase = "publishing"]
<1>1. IsRun(next) /\ next.v = run.v /\ next.phase = "publishing"
  <2>1. IsRun(judged) /\ judged.v = run.v
    BY LatestIsRun DEF OnceInv, RunsAreRuns
  <2> HIDE DEF judged
  <2> QED BY <2>1, StepIsRun
<1>2. runs' = (runs \ {run}) \cup {next}
  BY DEF ReadLatest
<1>3. RunsAreRuns' /\ OneActiveRun'
  BY <1>1, <1>2, StepKeepsRuns DEF OnceInv, ReadLatest
<1>4. ~IsPublic(run.v)
  BY DEF OnceInv, DraftsAreNotPublic, ReadLatest
<1>5. PublishingIsNew'
  BY <1>1, <1>2, <1>4 DEF OnceInv, PublishingIsNew, ReadLatest, IsPublic, github
<1>6. DraftsAreNotPublic' /\ PublishedOnce'
  BY DEF OnceInv, DraftsAreNotPublic, PublishedOnce, ReadLatest, IsPublic, github
<1> QED BY <1>3, <1>5, <1>6 DEF OnceInv

\* The publication itself: the version is new, its draft goes, and no other run
\* of the version is about to publish.
LEMMA PublishingKeepsOnce ==
  ASSUME OnceInv, NEW run \in runs, Publish(run)
  PROVE  OnceInv'
<1> DEFINE next == [run EXCEPT !.phase = "public"]
           release == [v |-> run.v,
                       recipe |-> Recipe[run.commit.edit][run.v.branch],
                       draft |-> FALSE]
<1>1. IsRun(next) /\ next.v = run.v /\ next.phase = "public"
  BY StepIsRun DEF OnceInv, RunsAreRuns
<1>2. runs' = (runs \ {run}) \cup {next} /\ public' = public \cup {release}
  BY DEF Publish, Step
<1>3. RunsAreRuns' /\ OneActiveRun'
  BY <1>1, <1>2, StepKeepsRuns DEF OnceInv, Publish
<1>4. ~IsPublic(run.v) /\ release.v = run.v
  BY DEF OnceInv, PublishingIsNew, Publish
<1>5. PublishedOnce'
  BY <1>2, <1>4 DEF OnceInv, PublishedOnce, IsPublic
<1>6. DraftsAreNotPublic'
  BY <1>2, <1>4 DEF OnceInv, DraftsAreNotPublic, IsPublic, Publish
<1>7. PublishingIsNew'
  <2> SUFFICES ASSUME NEW other \in runs', other.phase = "publishing"
               PROVE  ~IsPublic(other.v)'
    BY DEF PublishingIsNew
  <2>1. other \in runs \ {run}
    BY <1>1, <1>2
  <2>2. other.v # run.v
    BY <2>1 DEF OnceInv, OneActiveRun, Publish
  <2> QED BY <1>2, <1>4, <2>1, <2>2 DEF OnceInv, PublishingIsNew, IsPublic
<1> QED BY <1>3, <1>5, <1>6, <1>7 DEF OnceInv

\* A run that goes on to its record, or has filed it.
LEMMA AdvanceKeepsOnce ==
  ASSUME OnceInv, NEW run \in runs, NEW phase,
         phase # "publishing", phase # "queued",
         run.phase # "queued" \/ HasTheGroup(run),
         runs' = Step(run, phase), UNCHANGED <<github, stopped>>
  PROVE  OnceInv'
<1> DEFINE next == [run EXCEPT !.phase = phase]
<1>1. IsRun(next) /\ next.v = run.v /\ next.phase = phase
  BY StepIsRun DEF OnceInv, RunsAreRuns
<1>2. runs' = (runs \ {run}) \cup {next}
  BY DEF Step
<1>3. RunsAreRuns' /\ OneActiveRun'
  BY <1>1, <1>2, StepKeepsRuns DEF OnceInv
<1>4. PublishingIsNew'
  BY <1>1, <1>2 DEF OnceInv, PublishingIsNew, IsPublic, github
<1>5. DraftsAreNotPublic' /\ PublishedOnce'
  BY DEF OnceInv, DraftsAreNotPublic, PublishedOnce, IsPublic, github
<1> QED BY <1>3, <1>4, <1>5 DEF OnceInv

\* A run that ends leaves at most itself to be run again, before its draft is
\* read a second time.
LEMMA EndKeepsOnce ==
  ASSUME OnceInv, NEW run \in runs,
         runs' = runs \ {run}, UNCHANGED github,
         stopped' = stopped \/ stopped' = stopped \cup Rerunnable(run)
  PROVE  OnceInv'
<1>1. \A s \in Rerunnable(run) : IsRun(s.run) /\ s.run.phase # "publishing"
  <2> DEFINE phase == IF run.phase = "publishing" THEN "staged" ELSE run.phase
             cleared == WithLatest(run, FALSE)
             left == [cleared EXCEPT !.phase = phase]
  <2>1. IsRun(cleared)
    BY LatestIsRun DEF OnceInv, RunsAreRuns
  <2>2. IsRun(left) /\ left.phase = phase
    <3> HIDE DEF phase, cleared
    <3> QED BY <2>1, StepIsRun
  <2>3. phase # "publishing"
    OBVIOUS
  <2>4. Rerunnable(run) \subseteq {[kind |-> "publish", run |-> left]}
    BY DEF Rerunnable, MayRerun
  <2> HIDE DEF left
  <2> QED BY <2>2, <2>3, <2>4
<1>2. RunsAreRuns'
  BY <1>1 DEF OnceInv, RunsAreRuns, IsRun
<1>3. OneActiveRun' /\ PublishingIsNew' /\ DraftsAreNotPublic' /\ PublishedOnce'
  BY DEF OnceInv, OneActiveRun, PublishingIsNew, DraftsAreNotPublic,
         PublishedOnce, IsPublic, github
<1> QED BY <1>2, <1>3 DEF OnceInv

\* A new run joins its group behind the others.
LEMMA DispatchKeepsOnce ==
  ASSUME OnceInv, DispatchPublish
  PROVE  OnceInv'
<1> DEFINE new == [v |-> watch.plan.v, commit |-> watch.base,
                   cites |-> watch.releases,
                   phase |-> "queued", latest |-> FALSE]
<1>1. /\ runs' = runs \cup {new} /\ UNCHANGED github
      /\ \A s \in stopped' : s.kind = "publish" => s \in stopped
  BY DEF DispatchPublish, EndWatcher, Leaves, MayRerun
<1>2. IsRun(new) /\ new.phase = "queued"
  BY DEF IsRun
<1>3. RunsAreRuns' /\ OneActiveRun'
  BY <1>1, <1>2 DEF OnceInv, RunsAreRuns, OneActiveRun, IsRun
<1>4. PublishingIsNew'
  BY <1>1, <1>2 DEF OnceInv, PublishingIsNew, IsPublic, github
<1>5. DraftsAreNotPublic' /\ PublishedOnce'
  BY <1>1 DEF OnceInv, DraftsAreNotPublic, PublishedOnce, IsPublic, github
<1> QED BY <1>3, <1>4, <1>5 DEF OnceInv

\* A person resumes a run only when no other run of its version is left.
LEMMA RerunKeepsOnce ==
  ASSUME OnceInv, NEW s \in stopped, RerunPublish(s)
  PROVE  OnceInv'
<1>1. IsRun(s.run) /\ s.run.phase # "publishing"
  BY DEF OnceInv, RunsAreRuns, RerunPublish
<1>2. runs' = runs \cup {s.run} /\ UNCHANGED github /\ stopped' \subseteq stopped
  BY DEF RerunPublish, StillStopped
<1>3. RunsAreRuns'
  BY <1>1, <1>2 DEF OnceInv, RunsAreRuns, IsRun
<1>4. OneActiveRun'
  BY <1>2 DEF OnceInv, OneActiveRun, RerunPublish
<1>5. PublishingIsNew'
  BY <1>1, <1>2 DEF OnceInv, PublishingIsNew, IsPublic, github
<1>6. DraftsAreNotPublic' /\ PublishedOnce'
  BY <1>2 DEF OnceInv, DraftsAreNotPublic, PublishedOnce, IsPublic, github
<1> QED BY <1>3, <1>4, <1>5, <1>6 DEF OnceInv

\* What the loop does around a publish run.
LEMMA AroundKeepsOnce ==
  ASSUME OnceInv, Around
  PROVE  OnceInv'
<1>1. CASE \E b \in Branches : FeedMoves(b)
  BY <1>1, OnceUntouched DEF FeedMoves, github
<1>2. CASE MergeEdit \/ Schedule
  BY <1>2, OnceUntouched DEF MergeEdit, Schedule, github
<1>3. CASE \E d \in drafts : DiscardDraft(d)
  BY <1>3 DEF DiscardDraft, OnceInv, RunsAreRuns, OneActiveRun, IsRun, IsPublic,
              DraftsAreNotPublic, PublishingIsNew, PublishedOnce
<1>4. CASE \E s \in stopped : RerunPublish(s)
  BY <1>4, RerunKeepsOnce
<1>5. CASE \E s \in stopped : RerunWatcher(s)
  BY <1>5, OnceUntouched DEF RerunWatcher, StillStopped, github
<1> QED BY <1>1, <1>2, <1>3, <1>4, <1>5 DEF Around

LEMMA WatcherKeepsOnce ==
  ASSUME OnceInv,
         StartWatcher \/ WatcherStep \/ Investigate(FALSE) \/ RecoveryReplyLost
           \/ WatcherFails
  PROVE  OnceInv'
<1>1. CASE StartWatcher \/ ReadInFlight \/ CaptureFeeds
  BY <1>1, OnceUntouched DEF StartWatcher, ReadInFlight, CaptureFeeds, github
<1>2. CASE Investigate(TRUE) \/ Investigate(FALSE)
  BY <1>2, OnceUntouched DEF Investigate, github
<1>3. CASE Checkout \/ NoRecovery \/ RecoverRecord \/ RecoveryRefused
             \/ RecoveryReplyLost \/ PrepareEvidence
  BY <1>3, OnceUntouched DEF Checkout, NoRecovery, RecoverRecord,
       RecoveryRefused, RecoveryReplyLost, PrepareEvidence, github
<1>4. CASE RouteNothing \/ RecordEvidence
  BY <1>4, OnceUntouched DEF RouteNothing, RecordEvidence, EndWatcher, Leaves, MayRerun, github
<1>5. CASE DispatchPublish
  BY <1>5, DispatchKeepsOnce
<1>6. CASE WatcherFails
  BY <1>6, OnceUntouched DEF WatcherFails, EndWatcher, Leaves, MayRerun, github
<1> QED BY <1>1, <1>2, <1>3, <1>4, <1>5, <1>6 DEF WatcherStep, Coordinate

LEMMA PublicationKeepsOnce ==
  ASSUME OnceInv, NEW run \in runs, Publication(run) \/ RunFails(run)
  PROVE  OnceInv'
<1>1. CASE StageDraft(run) \/ ReadLatest(run) \/ Publish(run)
  BY <1>1, StagingKeepsOnce, ReadingKeepsOnce, PublishingKeepsOnce
<1>2. CASE FileRecord(run)
  BY <1>2, AdvanceKeepsOnce DEF FileRecord
<1>3. CASE FindPublic(run)
  BY <1>3, AdvanceKeepsOnce DEF FindPublic
<1>4. CASE StartNextWatcher(run)
  BY <1>4, EndKeepsOnce DEF StartNextWatcher
<1>5. CASE Refused(run) \/ RunFails(run)
  BY <1>5, EndKeepsOnce DEF Refused, RunFails, EndRun
<1> QED BY <1>1, <1>2, <1>3, <1>4, <1>5 DEF Publication

LEMMA OnceIsInductive ==
  ASSUME OnceInv, [Next]_vars
  PROVE  OnceInv'
<1>1. CASE Around
  BY <1>1, AroundKeepsOnce
<1>2. CASE StartWatcher \/ WatcherStep \/ Investigate(FALSE) \/ RecoveryReplyLost
             \/ WatcherFails
  BY <1>2, WatcherKeepsOnce
<1>3. CASE PublishStep \/ \E run \in runs : RunFails(run)
  BY <1>3, PublicationKeepsOnce DEF PublishStep
<1>4. CASE UNCHANGED vars
  BY <1>4, OnceUntouched DEF vars
<1> QED BY <1>1, <1>2, <1>3, <1>4 DEF Next

\* In every behaviour, with any number of failures and reruns, a version is
\* published at most once, and no run prepares to publish it again.
THEOREM NoSecondPublication == Spec => []SinglePublication
<1>1. Init => OnceInv
  BY InitIsOnce
<1>2. OnceInv /\ [Next]_vars => OnceInv'
  BY OnceIsInductive
<1>3. OnceInv => SinglePublication
  BY DEF OnceInv, SinglePublication
<1> QED BY <1>1, <1>2, <1>3, PTL DEF Spec

-----------------------------------------------------------------------------
(* No work is done while a publish run is in flight, unless somebody reruns. *)

LEMMA InitIsHeld == Init => HeldInv
BY DEF Init, HeldInv, WatchersAreWatchers, IsWatcher, NothingIsRerun,
       InFlightOnlyShrinks, Idle

\* Without a rerun no ended run is kept.
LEMMA NoneIsKept ==
  ASSUME MaxReruns = 0, NothingIsRerun, NEW x
  PROVE  MayRerun(x) = {}
BY DEF NothingIsRerun, MayRerun

\* The watcher merges or dispatches only on a route that the flag did not hold.
LEMMA ActingIsUnheld ==
  ASSUME \/ RecoverRecord \/ RecoveryReplyLost
         \/ DispatchPublish \/ RecordEvidence
  PROVE  ~watch.inFlight
<1>1. CASE RecoverRecord \/ RecoveryReplyLost
  <2>1. RecoveryIsRouted
    BY <1>1 DEF RecoverRecord, RecoveryReplyLost, RecoveryIsDue
  <2> QED BY <2>1 DEF RecoveryIsRouted, Route, RecoveryRoute, RecoveryCall
<1>2. CASE DispatchPublish \/ RecordEvidence
  <2>1. Routed \in HeldForPublish
    BY <1>2 DEF DispatchPublish, RecordEvidence, HeldForPublish
  <2> QED BY <2>1 DEF Routed, Route, HeldForPublish
<1> QED BY <1>1, <1>2

\* A publish run in flight may end; none begins, and none comes back.
LEMMA InFlightShrinks ==
  ASSUME InFlight = {}, NEW run \in runs, Publication(run) \/ RunFails(run)
  PROVE  InFlight' = {}
<1>1. run.phase = "recorded"
  BY DEF InFlight
<1>2. runs' = runs \ {run}
  BY <1>1 DEF Publication, StageDraft, ReadLatest, Publish, FileRecord,
       StartNextWatcher, FindPublic, Refused, RunFails, EndRun
<1> QED BY <1>2 DEF InFlight

LEMMA PublicationKeepsHeld ==
  ASSUME MaxReruns = 0, HeldInv, NEW run \in runs,
         Publication(run) \/ RunFails(run)
  PROVE  HeldInv'
<1>1. watch' = watch
  BY DEF Publication, StageDraft, ReadLatest, Publish, FileRecord,
       StartNextWatcher, FindPublic, Refused, RunFails, EndRun
<1>2. InFlightOnlyShrinks'
  BY <1>1, InFlightShrinks DEF HeldInv, InFlightOnlyShrinks
<1>3. WatchersAreWatchers'
  <2>1. queue' = queue \/ (IsWatcher(queue') /\ queue'.phase = "start")
    BY DEF Publication, StageDraft, ReadLatest, Publish, FileRecord,
         StartNextWatcher, FindPublic, Refused, RunFails, EndRun, IsWatcher, Idle
  <2> QED BY <1>1, <2>1 DEF HeldInv, WatchersAreWatchers, IsWatcher
<1>4. NothingIsRerun'
  <2>1. Rerunnable(run) = {}
    BY NoneIsKept DEF HeldInv, Rerunnable
  <2> QED BY <2>1 DEF HeldInv, NothingIsRerun, Publication, StageDraft,
       ReadLatest, Publish, FileRecord, StartNextWatcher, FindPublic, Refused,
       RunFails, EndRun, Fails, bounds
<1> QED BY <1>2, <1>3, <1>4 DEF HeldInv

\* Around the workflows nothing begins a publish run while nobody reruns one.
LEMMA AroundKeepsHeld ==
  ASSUME MaxReruns = 0, HeldInv, Around
  PROVE  HeldInv'
<1>1. \A s \in stopped : ~RerunPublish(s) /\ ~RerunWatcher(s)
  BY DEF HeldInv, NothingIsRerun
<1>2. UNCHANGED <<watch, runs, stopped, reruns>>
  BY <1>1 DEF Around, FeedMoves, MergeEdit, Schedule, DiscardDraft, bounds
<1>3. queue' = queue \/ (IsWatcher(queue') /\ queue'.phase = "start")
  BY <1>1 DEF Around, FeedMoves, MergeEdit, Schedule, DiscardDraft, IsWatcher, Idle
<1> QED BY <1>2, <1>3 DEF HeldInv, WatchersAreWatchers, IsWatcher,
             NothingIsRerun, InFlightOnlyShrinks, InFlight

\* The watcher looks once, keeps what it saw, and is idle when it dispatches.
LEMMA WatcherKeepsHeld ==
  ASSUME MaxReruns = 0, HeldInv,
         StartWatcher \/ WatcherStep \/ Investigate(FALSE) \/ RecoveryReplyLost
           \/ WatcherFails
  PROVE  HeldInv'
<1> USE DEF HeldInv, WatchersAreWatchers, IsWatcher, NothingIsRerun,
            InFlightOnlyShrinks, InFlight, bounds
<1>1. CASE StartWatcher
  BY <1>1 DEF StartWatcher, Idle
<1>2. CASE ReadInFlight \/ CaptureFeeds
  BY <1>2 DEF ReadInFlight, CaptureFeeds
<1>3. CASE Investigate(TRUE) \/ Investigate(FALSE)
  <2>1. /\ watch.phase = "releases"
        /\ UNCHANGED <<queue, runs, stopped, reruns>>
    BY <1>3 DEF Investigate, Fails
  <2>2. watch' = Idle \/ (IsWatcher(watch') /\ watch'.inFlight = watch.inFlight)
    BY <1>3 DEF Investigate, Retained
  <2> QED BY <2>1, <2>2 DEF Idle
<1>4. CASE Checkout \/ NoRecovery \/ RecoverRecord \/ RecoveryRefused
             \/ RecoveryReplyLost \/ PrepareEvidence
  BY <1>4 DEF Checkout, NoRecovery, RecoverRecord, RecoveryRefused,
       RecoveryReplyLost, PrepareEvidence, RecoveryIsDue, Fails
<1>5. CASE RouteNothing \/ DispatchPublish \/ RecordEvidence
  BY <1>5, NoneIsKept DEF RouteNothing, DispatchPublish, RecordEvidence,
       EndWatcher, Leaves, Idle
<1>6. CASE WatcherFails
  BY <1>6, NoneIsKept DEF WatcherFails, EndWatcher, Leaves, Fails, Idle
<1> QED BY <1>1, <1>2, <1>3, <1>4, <1>5, <1>6 DEF WatcherStep, Coordinate

LEMMA HeldIsInductive ==
  ASSUME MaxReruns = 0, HeldInv, [Next]_vars
  PROVE  HeldInv'
<1>1. CASE Around
  BY <1>1, AroundKeepsHeld
<1>2. CASE StartWatcher \/ WatcherStep \/ Investigate(FALSE) \/ RecoveryReplyLost
             \/ WatcherFails
  BY <1>2, WatcherKeepsHeld
<1>3. CASE PublishStep \/ \E run \in runs : RunFails(run)
  BY <1>3, PublicationKeepsHeld DEF PublishStep
<1>4. CASE UNCHANGED vars
  BY <1>4 DEF vars, bounds, HeldInv, WatchersAreWatchers, IsWatcher,
       NothingIsRerun, InFlightOnlyShrinks, InFlight
<1> QED BY <1>1, <1>2, <1>3, <1>4 DEF Next

\* Of all steps only four let the watcher act, and those are unheld.
LEMMA ActsOnlyUnheld ==
  ASSUME HeldInv, [Next]_vars, WatcherActs
  PROVE  InFlight = {}
<1>1. \/ RecoverRecord \/ RecoveryReplyLost \/ DispatchPublish \/ RecordEvidence
  BY DEF WatcherActs, Next, Around, FeedMoves, MergeEdit, Schedule, DiscardDraft,
       RerunPublish, RerunWatcher, StartWatcher, WatcherStep, ReadInFlight,
       CaptureFeeds, Investigate, Coordinate, Checkout, NoRecovery,
       RecoveryRefused, PrepareEvidence, RouteNothing, WatcherFails, PublishStep,
       Publication, StageDraft, ReadLatest, Publish, FileRecord, StartNextWatcher,
       FindPublic, Refused, RunFails, EndRun, vars
<1>2. ~watch.inFlight /\ watch.phase \notin {"idle", "start"}
  BY <1>1, ActingIsUnheld DEF RecoverRecord, RecoveryReplyLost, RecoveryIsDue,
       DispatchPublish, RecordEvidence
<1> QED BY <1>2 DEF HeldInv, InFlightOnlyShrinks

\* The argument of the workflow's comment, with the premise it needs: if nobody
\* reruns a run, the watcher merges and dispatches nothing while a publish run
\* is in flight.
THEOREM HeldWithoutReruns ==
  ASSUME MaxReruns = 0
  PROVE  Spec => WorkIsHeldForPublish
<1>1. Init => HeldInv
  BY InitIsHeld
<1>2. HeldInv /\ [Next]_vars => HeldInv'
  BY HeldIsInductive
<1>3. HeldInv /\ [Next]_vars => [WatcherActs => InFlight = {}]_vars
  BY ActsOnlyUnheld
<1> QED BY <1>1, <1>2, <1>3, PTL DEF Spec, WorkIsHeldForPublish

-----------------------------------------------------------------------------
(* The line of releases. *)

(***************************************************************************)
(* What holds in every behaviour, however often runs are rerun.            *)
(***************************************************************************)
\* The versions of a set of releases, and the version a revision is built on.
VersionsOf(releases) == {r.v : r \in releases}
Predecessor(v) == [v EXCEPT !.rev = @ - 1]

\* A version of the loop, on top of its predecessor when it is a revision.
IsNext(v, releases) ==
  v \in Versions /\ (v.rev > 0 => Predecessor(v) \in VersionsOf(releases))

\* A commit of main: every record on it names a published release.
IsCommit(m, releases) ==
  /\ DOMAIN m = {"edit", "records", "reviewed", "evidence"}
  /\ m.edit \in Edits /\ m.evidence \in BOOLEAN
  /\ m.records \subseteq Versions \cap VersionsOf(releases)

Investigating == {"start", "feeds", "releases"}
Coordinating == {"checkout", "recover", "evidence", "dispatch"}

\* A watcher run: it investigates a commit of main, then coordinates a plan.
IsWatchRun(w, releases) ==
  /\ DOMAIN w = DOMAIN Idle
  /\ w.phase \in {"idle"} \cup Investigating \cup Coordinating
  /\ w.phase \in Investigating => IsCommit(w.base, releases)
  /\ w.phase = "releases" => w.feed \in [Branches -> Patches]
  /\ w.phase \in Coordinating =>
       /\ w.record # None => w.record \in Versions \cap VersionsOf(releases)
       /\ w.plan.action \in PublishActions =>
            IsNext(w.plan.v, releases) /\ IsCommit(w.base, releases)

\* A publish run: it builds a commit, and what it calls public is public.
IsPublishRun(run, releases) ==
  /\ IsRun(run)
  /\ IsNext(run.v, releases) /\ IsCommit(run.commit, releases)
  /\ run.phase \in {"queued", "staged", "publishing", "public", "recorded"}
  /\ run.phase \in {"public", "recorded"} => run.v \in VersionsOf(releases)

\* What waits, for its turn or for a person.
IsQueued(w, releases) == IsWatchRun(w, releases) /\ w.phase \in {"start", "checkout"}

IsStopped(s, releases) ==
  \/ s.kind = "watcher" /\ IsQueued(s.run, releases)
  \/ s.kind = "publish" /\ IsPublishRun(s.run, releases)

ReleasesAreTyped ==
  /\ public \subseteq [v : Versions, recipe : Identities, draft : {FALSE}]
  /\ \A r \in public : IsNext(r.v, public)

RunsAreTyped ==
  /\ IsWatchRun(watch, public)
  /\ queue # None => IsQueued(queue, public)
  /\ \A run \in runs : IsPublishRun(run, public)
  /\ \A s \in stopped : IsStopped(s, public)

TypedInv ==
  /\ feed \in [Branches -> Patches]
  /\ IsCommit(main, public)
  /\ ReleasesAreTyped
  /\ VersionsOf(drafts) \cup {badge} \subseteq Versions
  /\ RunsAreTyped

(***************************************************************************)
(* What holds where nobody reruns a run.                                   *)
(***************************************************************************)
Builds(commit, v) == Recipe[commit.edit][v.branch]

\* The version continues the line of its branch: a newer patch, or one more revision of its
\* newest release under another recipe.
ContinuesLine(v, recipe, releases) ==
  /\ v.rev = 0 => \A r \in releases : r.v.branch = v.branch => r.v.patch < v.patch
  /\ v.rev > 0 => \E r \in BranchHeads(releases) :
                    v = [r.v EXCEPT !.rev = @ + 1] /\ r.recipe # recipe

Unpublished == {run \in runs : run.phase \in {"queued", "staged", "publishing"}}

BadgeIsNewest ==
  badge \in VersionsOf(public) /\ \A r \in public : ~Above(r.v, badge)

LineInv ==
  /\ \A run, other \in InFlight : run = other
  /\ \A run \in Unpublished : ContinuesLine(run.v, Builds(run.commit, run.v), public)
  /\ \A run \in runs : run.phase = "publishing" => run.latest = ReleaseIsNewest(run.v, public)
  /\ watch.phase \in Coordinating /\ ~watch.inFlight /\ watch.plan.action \in PublishActions
       => ContinuesLine(watch.plan.v, Builds(watch.base, watch.plan.v), public)
  /\ BadgeIsNewest

\* Nothing was built, and nothing is being built, from an edit later than e.
BuiltBy(e) ==
  /\ \A r \in public : r.recipe <= Recipe[e][r.v.branch]
  /\ \A run \in runs : run.commit.edit <= e

HasBase(w) ==
  \/ w.phase \in Investigating
  \/ w.phase \in Coordinating /\ w.plan.action \in PublishActions

OrderInv ==
  /\ BuiltBy(main.edit)
  /\ queue # None => BuiltBy(queue.base.edit) /\ queue.base.edit <= main.edit
  /\ HasBase(watch) => /\ BuiltBy(watch.base.edit) /\ watch.base.edit <= main.edit
                       /\ queue # None => watch.base.edit <= queue.base.edit
  /\ \A run \in Unpublished : \A r \in public :
       r.v.branch = run.v.branch => r.recipe <= Builds(run.commit, run.v)
  /\ RebuildsMoveOn

-----------------------------------------------------------------------------
(* What releases support, more releases support too. *)

LEMMA GrowthKeeps ==
  ASSUME NEW releases, NEW more, releases \subseteq more
  PROVE  /\ \A v : IsNext(v, releases) => IsNext(v, more)
         /\ \A m : IsCommit(m, releases) => IsCommit(m, more)
         /\ \A w : IsWatchRun(w, releases) => IsWatchRun(w, more)
         /\ \A run : IsPublishRun(run, releases) => IsPublishRun(run, more)
         /\ \A w : IsQueued(w, releases) => IsQueued(w, more)
         /\ \A s : IsStopped(s, releases) => IsStopped(s, more)
<1>1. VersionsOf(releases) \subseteq VersionsOf(more)
  BY DEF VersionsOf
<1>2. \A v : IsNext(v, releases) => IsNext(v, more)
  BY <1>1 DEF IsNext
<1>3. \A m : IsCommit(m, releases) => IsCommit(m, more)
  BY <1>1 DEF IsCommit
<1>4. \A w : IsWatchRun(w, releases) => IsWatchRun(w, more)
  BY <1>1, <1>2, <1>3 DEF IsWatchRun
<1>5. \A run : IsPublishRun(run, releases) => IsPublishRun(run, more)
  BY <1>1, <1>2, <1>3 DEF IsPublishRun
<1>6. \A w : IsQueued(w, releases) => IsQueued(w, more)
  BY <1>4 DEF IsQueued
<1>7. \A s : IsStopped(s, releases) => IsStopped(s, more)
  BY <1>5, <1>6 DEF IsStopped
<1> QED BY <1>2, <1>3, <1>4, <1>5, <1>6, <1>7

LEMMA VersionsAreVersions ==
  \A v \in Versions : IsVersion(v)
<1>1. Branches \subseteq Nat /\ Patches \subseteq Nat
  BY BranchesAreOrdered, BoundsAreNaturals DEF Patches
<1> QED BY <1>1 DEF Versions, IsVersion

LEMMA InitialLine ==
  ASSUME Init
  PROVE  /\ \A b \in Branches : Initially[b] \in Versions /\ Initially[b].rev = 0
         /\ ReleasesAreTyped
         /\ VersionsOf(public) = {Initially[b] : b \in Branches}
<1> DEFINE released(b) == [v |-> Initially[b], recipe |-> Recipe[0][b], draft |-> FALSE]
<1>1. \A b \in Branches : Initially[b] \in Versions /\ Initially[b].rev = 0
  BY BoundsAreNaturals DEF Initially, Versions, Patches
<1>2. public = {released(b) : b \in Branches}
  BY DEF Init, InitialReleases
<1>3. VersionsOf(public) = {Initially[b] : b \in Branches}
  <2>1. \A b \in Branches : released(b) \in public /\ released(b).v = Initially[b]
    BY <1>2
  <2>2. \A r \in public : \E b \in Branches : r.v = Initially[b]
    BY <1>2
  <2> HIDE DEF released
  <2> QED BY <2>1, <2>2 DEF VersionsOf
<1>4. ReleasesAreTyped
  <2>1. \A b \in Branches : Recipe[0][b] \in Identities
    <3>1. 0 \in Edits
      BY BoundsAreNaturals DEF Edits
    <3> QED BY <3>1 DEF Identities
  <2>2. \A b \in Branches : released(b) \in [v : Versions, recipe : Identities, draft : {FALSE}]
    BY <1>1, <2>1
  <2>3. \A b \in Branches : released(b).v.rev = 0
    BY <1>1
  <2> HIDE DEF released
  <2>4. \A r \in public : /\ r \in [v : Versions, recipe : Identities, draft : {FALSE}]
                          /\ r.v \in Versions /\ r.v.rev = 0
    <3>1. \A r \in [v : Versions, recipe : Identities, draft : {FALSE}] : r.v \in Versions
      OBVIOUS
    <3> QED BY <1>2, <2>2, <2>3, <3>1
  <2>5. \A r \in public : IsNext(r.v, public)
    <3>1. \A v : v \in Versions /\ v.rev = 0 => IsNext(v, public)
      BY DEF IsNext
    <3> QED BY <2>4, <3>1
  <2> QED BY <2>4, <2>5 DEF ReleasesAreTyped
<1> QED BY <1>1, <1>3, <1>4

LEMMA InitIsTyped == Init => TypedInv
<1> SUFFICES ASSUME Init PROVE TypedInv
  OBVIOUS
<1>1. feed \in [Branches -> Patches]
  <2>1. 0 \in Patches
    BY BoundsAreNaturals DEF Patches
  <2> QED BY <2>1 DEF Init
<1>2. IsCommit(main, public)
  <2>1. 0 \in Edits
    BY BoundsAreNaturals DEF Edits
  <2>2. main.records \subseteq Versions /\ main.records \subseteq VersionsOf(public)
    BY InitialLine DEF Init
  <2> QED BY <2>1, <2>2 DEF Init, IsCommit
<1>3. VersionsOf(drafts) \cup {badge} \subseteq Versions
  <2>1. VersionsOf(drafts) = {}
    BY DEF Init, VersionsOf
  <2> DEFINE IsTop(r) == ReleaseIsNewest(r.v, public)
  <2>2. PICK last \in Branches : \A b \in Branches : b <= last
    BY BranchesAreOrdered
  <2>3. Initially[last] \in VersionsOf(public)
    BY <2>2, InitialLine
  <2>4. PICK top \in public : top.v = Initially[last]
    BY <2>3 DEF VersionsOf
  <2>5. \A r \in public : ~Above(r.v, Initially[last])
    <3> SUFFICES ASSUME NEW r \in public PROVE ~Above(r.v, Initially[last])
      OBVIOUS
    <3>1. r.v \in VersionsOf(public)
      BY DEF VersionsOf
    <3>2. PICK b \in Branches : r.v = Initially[b]
      BY <3>1, InitialLine
    <3>3. /\ Initially[b] = [branch |-> b, patch |-> 0, rev |-> 0]
          /\ Initially[last] = [branch |-> last, patch |-> 0, rev |-> 0]
      BY DEF Initially
    <3>4. b <= last /\ b \in Nat /\ last \in Nat
      BY <2>2, BranchesAreOrdered
    <3> QED BY <3>2, <3>3, <3>4 DEF Above
  <2>6. IsTop(top)
    BY <2>4, <2>5 DEF ReleaseIsNewest, Published
  <2>7. badge \in VersionsOf(public)
    <3>1. (CHOOSE r \in public : IsTop(r)) \in public
      BY <2>6
    <3> QED BY <3>1 DEF Init, VersionsOf
  <2>8. badge \in Versions
    BY <2>7, InitialLine
  <2> QED BY <2>1, <2>8
<1>4. RunsAreTyped
  BY DEF Init, RunsAreTyped, IsWatchRun, Idle, Investigating, Coordinating
<1> QED BY <1>1, <1>2, <1>3, <1>4, InitialLine DEF TypedInv

-----------------------------------------------------------------------------
(* The investigation. *)

\* The plan of a watcher run that has captured everything, its decision, and the
\* record it recovers.
LEMMA Selection ==
  ASSUME TypedInv, watch.phase = "releases", NEW sourcesHealthy \in BOOLEAN
  PROVE  LET w == [watch EXCEPT !.releases = public]
             decision == Decision(w, sourcesHealthy)
             plan == PlanOf(w, decision)
         IN /\ decision.record # None => decision.record \in Versions \cap VersionsOf(public)
            /\ \/ plan.action \in {"none", "blocked", "no_change"} /\ plan.v = None
               \/ /\ plan.action = "new_patch"
                  /\ \E b \in PatchDue(watch.feed, public, watch.base.records) :
                       plan.v = [branch |-> b, patch |-> watch.feed[b], rev |-> 0]
               \/ /\ plan.action = "recipe_rebuild"
                  /\ plan.v = decision.rebuild
                  /\ \E r \in DueForRebuild(public, Recipe[watch.base.edit]) :
                       plan.v = [r.v EXCEPT !.rev = @ + 1]
            /\ plan.action = "no_change" => decision.rebuild = None
<1> DEFINE w == [watch EXCEPT !.releases = public]
           decision == Decision(w, sourcesHealthy)
           plan == PlanOf(w, decision)
           identity == Recipe[watch.base.edit]
<1>1. /\ w.base = watch.base /\ w.feed = watch.feed /\ w.releases = public
      /\ watch.base.edit \in Edits /\ watch.feed \in [Branches -> Patches]
  BY DEF TypedInv, RunsAreTyped, IsWatchRun, Idle, Investigating, IsCommit
<1>2. /\ decision.rebuild = None \/ decision.rebuild = PendingRebuild(public, identity)
      /\ decision.record = None \/ decision.record = UnrecordedRelease(public, watch.base.records)
  BY <1>1 DEF Decision, Captured, WatchDecision, w
<1>3. DOMAIN identity = Branches /\ \A r \in public : r.v \in Versions /\ IsVersion(r.v)
  <2>1. \A r \in public : r.v \in Versions
    BY DEF TypedInv, ReleasesAreTyped, IsNext
  <2> QED BY <1>1, <2>1, RecipeOfEveryEdit, VersionsAreVersions
<1>4. plan = Plan("none", None) \/ plan = Classify(decision, watch.feed, public, watch.base.records)
  BY <1>1 DEF PlanOf, plan
<1> HIDE DEF decision, identity, w
<1>5. decision.record # None => decision.record \in Versions \cap VersionsOf(public)
  BY <1>2, <1>3, UnrecordedIsPublished DEF Published, VersionsOf
<1>6. decision.rebuild # None =>
        \E r \in DueForRebuild(public, identity) : decision.rebuild = [r.v EXCEPT !.rev = @ + 1]
  <2> SUFFICES ASSUME decision.rebuild # None
               PROVE  \E r \in DueForRebuild(public, identity) :
                        decision.rebuild = [r.v EXCEPT !.rev = @ + 1]
    OBVIOUS
  <2>1. PICK last \in Branches : \A b \in Branches : b <= last
    BY BranchesAreOrdered
  <2>2. last \in Nat /\ \A b \in DOMAIN identity : b <= last
    BY <1>3, <2>1, BranchesAreOrdered
  <2>3. decision.rebuild = PendingRebuild(public, identity)
    BY <1>2
  <2>4. \E r \in DueForRebuild(public, identity) :
          PendingRebuild(public, identity) = [r.v EXCEPT !.rev = @ + 1]
    BY <1>3, <2>2, <2>3, RebuildIsDue
  <2> QED BY <2>3, <2>4
<1>7. plan.action = "no_change" => decision.rebuild = None
  <2>1. Plan("none", None).action = "none"
    BY DEF Plan
  <2> QED BY <1>4, <2>1 DEF Classify, Plan
<1>8. \/ plan.action \in {"none", "blocked", "no_change"} /\ plan.v = None
      \/ /\ plan.action = "new_patch"
         /\ \E b \in PatchDue(watch.feed, public, watch.base.records) :
              plan.v = [branch |-> b, patch |-> watch.feed[b], rev |-> 0]
      \/ plan.action = "recipe_rebuild" /\ decision.rebuild # None /\ plan.v = decision.rebuild
  <2>1. CASE plan = Plan("none", None)
    BY <2>1 DEF Plan
  <2>2. CASE plan = Classify(decision, watch.feed, public, watch.base.records)
    <3>1. DOMAIN watch.feed \subseteq Nat
      BY <1>1, BranchesAreOrdered
    <3> HIDE DEF plan
    <3> QED BY <2>2, <3>1, ClassifiedPlans
  <2> QED BY <1>4, <2>1, <2>2
<1> HIDE DEF plan
<1>9. plan.action = "recipe_rebuild" =>
        \E r \in DueForRebuild(public, identity) : plan.v = [r.v EXCEPT !.rev = @ + 1]
  BY <1>6, <1>8
<1> QED BY <1>5, <1>7, <1>8, <1>9 DEF plan, decision, identity, w

LEMMA Successor ==
  ASSUME NEW u \in Versions
  PROVE  LET v == [u EXCEPT !.rev = @ + 1] IN
         /\ v \in Versions /\ Predecessor(v) = u
         /\ v.branch = u.branch /\ v.patch = u.patch /\ v.rev = u.rev + 1
         /\ v.rev > 0 /\ v.rev # 0
<1> DEFINE v == [branch |-> u.branch, patch |-> u.patch, rev |-> u.rev + 1]
<1>1. u = [branch |-> u.branch, patch |-> u.patch, rev |-> u.rev] /\ u.rev \in Nat
  BY DEF Versions
<1>2. [u EXCEPT !.rev = @ + 1] = v
  BY <1>1
<1>3. v \in Versions
  BY DEF Versions
<1>4. Predecessor(v) = u
  <2>1. Predecessor(v) = [branch |-> u.branch, patch |-> u.patch, rev |-> (u.rev + 1) - 1]
    BY DEF Predecessor
  <2>2. (u.rev + 1) - 1 = u.rev
    BY <1>1
  <2> QED BY <1>1, <2>1, <2>2
<1> QED BY <1>1, <1>2, <1>3, <1>4

\* A version that continues the line is not on it yet.
LEMMA ContinuationIsNew ==
  ASSUME ReleasesAreTyped, NEW v \in Versions, NEW recipe, ContinuesLine(v, recipe, public)
  PROVE  v \notin VersionsOf(public)
<1> SUFFICES ASSUME NEW s \in public, s.v = v PROVE FALSE
  BY DEF VersionsOf
<1>1. IsVersion(v) /\ \A r \in public : IsVersion(r.v) /\ r.draft = FALSE
  BY VersionsAreVersions DEF ReleasesAreTyped, IsNext
<1>2. CASE v.rev = 0
  BY <1>1, <1>2 DEF ContinuesLine, IsVersion
<1>3. CASE v.rev > 0
  <2>1. PICK r \in BranchHeads(public) : v = [r.v EXCEPT !.rev = @ + 1]
    BY <1>3 DEF ContinuesLine
  <2>2. r \in public /\ IsVersion(r.v) /\ (~Above(v, r.v) \/ v.branch # r.v.branch)
    BY <1>1, <2>1 DEF BranchHeads, Published
  <2>3. /\ r.v.rev \in Nat
        /\ v.branch = r.v.branch /\ v.patch = r.v.patch /\ v.rev = r.v.rev + 1
    BY <1>1, <2>1 DEF BranchHeads, Published, IsVersion
  <2>4. Above(v, r.v)
    BY <2>3 DEF Above
  <2> QED BY <2>2, <2>3, <2>4
<1> QED BY <1>1, <1>2, <1>3 DEF IsVersion

\* What a watcher run selects continues the line as it was captured, and is above
\* everything the records of its own commit name.
LEMMA SelectionContinues ==
  ASSUME TypedInv, watch.phase = "releases", NEW sourcesHealthy \in BOOLEAN
  PROVE  LET w == [watch EXCEPT !.releases = public]
             decision == Decision(w, sourcesHealthy)
             plan == PlanOf(w, decision)
         IN /\ plan.action \in PublishActions =>
                 /\ IsNext(plan.v, public)
                 /\ ContinuesLine(plan.v, Builds(watch.base, plan.v), public)
            /\ Admits(plan, decision.rebuild, w.base.records)
<1> DEFINE w == [watch EXCEPT !.releases = public]
           decision == Decision(w, sourcesHealthy)
           plan == PlanOf(w, decision)
<1>1. /\ \/ plan.action \in {"none", "blocked", "no_change"} /\ plan.v = None
         \/ /\ plan.action = "new_patch"
            /\ \E b \in PatchDue(watch.feed, public, watch.base.records) :
                 plan.v = [branch |-> b, patch |-> watch.feed[b], rev |-> 0]
         \/ /\ plan.action = "recipe_rebuild"
            /\ plan.v = decision.rebuild
            /\ \E r \in DueForRebuild(public, Recipe[watch.base.edit]) :
                 plan.v = [r.v EXCEPT !.rev = @ + 1]
      /\ plan.action = "no_change" => decision.rebuild = None
  BY Selection
<1>2. /\ w.base = watch.base /\ watch.feed \in [Branches -> Patches]
      /\ watch.base.records \subseteq Versions \cap VersionsOf(public)
      /\ watch.base.edit \in Edits
  BY DEF TypedInv, RunsAreTyped, IsWatchRun, Idle, Investigating, IsCommit
<1> HIDE DEF plan, decision, w
<1>3. \A r \in public : r.v \in Versions /\ IsVersion(r.v) /\ r.draft = FALSE
  BY VersionsAreVersions DEF TypedInv, ReleasesAreTyped, IsNext
<1>4. CASE plan.action \in {"none", "blocked", "no_change"} /\ plan.v = None
  <2>1. None \notin watch.base.records
    BY <1>2, NoneIsNoVersion DEF Versions
  <2> QED BY <1>1, <1>2, <1>4, <2>1 DEF Admits, PublishActions, w, decision, plan
<1>5. CASE plan.action = "new_patch"
  <2>1. PICK b \in PatchDue(watch.feed, public, watch.base.records) :
               plan.v = [branch |-> b, patch |-> watch.feed[b], rev |-> 0]
    BY <1>1, <1>5
  <2>2. /\ b \in Branches /\ watch.feed[b] \in Patches
        /\ \A v \in VersionsOf(public) \cup watch.base.records :
             v.branch = b => v.patch < watch.feed[b]
    BY <1>2, <1>3, <2>1 DEF PatchDue, Completed, Published, VersionsOf
  <2>3. plan.v \in Versions /\ plan.v.rev = 0 /\ plan.v.branch = b /\ plan.v.patch = watch.feed[b]
    BY <2>1, <2>2 DEF Versions
  <2>4. IsNext(plan.v, public)
    BY <2>3 DEF IsNext
  <2>5. ContinuesLine(plan.v, Builds(watch.base, plan.v), public)
    BY <2>2, <2>3 DEF ContinuesLine, VersionsOf
  <2>6. plan.v \notin watch.base.records
    <3>1. watch.feed[b] \in Nat
      BY <2>2, BoundsAreNaturals DEF Patches
    <3> QED BY <2>2, <2>3, <3>1
  <2> QED BY <1>2, <1>5, <2>4, <2>5, <2>6 DEF Admits, w, decision, plan
<1>6. CASE plan.action = "recipe_rebuild"
  <2>1. PICK r \in DueForRebuild(public, Recipe[watch.base.edit]) :
               plan.v = [r.v EXCEPT !.rev = @ + 1]
    BY <1>1, <1>6
  <2>2. /\ r \in BranchHeads(public) /\ r \in public
        /\ r.recipe # Recipe[watch.base.edit][r.v.branch]
    BY <2>1 DEF DueForRebuild, BranchHeads, Published
  <2>3. r.v \in [branch : Branches, patch : Patches, rev : Nat] /\ r.v \in VersionsOf(public)
    BY <1>3, <2>2 DEF Versions, VersionsOf
  <2>4. /\ plan.v \in Versions /\ plan.v.rev > 0
        /\ Predecessor(plan.v) = r.v /\ plan.v.branch = r.v.branch /\ plan.v.rev # 0
    BY <2>1, <2>3, Successor DEF Versions
  <2>5. IsNext(plan.v, public)
    BY <2>3, <2>4 DEF IsNext
  <2>6. ContinuesLine(plan.v, Builds(watch.base, plan.v), public)
    BY <2>1, <2>2, <2>4 DEF ContinuesLine, Builds
  <2>7. plan.v \notin watch.base.records
    BY <1>2, <2>4, <2>6, ContinuationIsNew DEF TypedInv
  <2> QED BY <1>1, <1>2, <1>6, <2>5, <2>6, <2>7 DEF Admits, w, decision, plan
<1> QED BY <1>1, <1>4, <1>5, <1>6

-----------------------------------------------------------------------------
(* The steps of the loop. *)

\* A merge keeps what a commit holds, and a record may join it.
LEMMA MergesKeep ==
  ASSUME NEW m, NEW releases, IsCommit(m, releases)
  PROVE  /\ IsCommit(Merged(m), releases)
         /\ \A v \in Versions \cap VersionsOf(releases) : IsCommit(WithRecord(m, v), releases)
BY DEF IsCommit, Merged, WithRecord

LEMMA NewRunIsQueued ==
  ASSUME NEW m, NEW releases, IsCommit(m, releases)
  PROVE  IsQueued([Idle EXCEPT !.phase = "start", !.base = m], releases)
BY DEF IsQueued, IsWatchRun, Idle, Investigating, Coordinating

\* A failed watcher run begins again with its commit, or with its plan.
LEMMA ResumptionIsStopped ==
  ASSUME NEW w, NEW releases, IsWatchRun(w, releases), w.phase # "idle"
  PROVE  IsStopped([kind |-> "watcher", run |-> Resumption(w)], releases)
<1>1. CASE w.phase \in Investigating
  <2>1. IsQueued(Resumption(w), releases)
    BY <1>1, NewRunIsQueued DEF IsWatchRun, Resumption, Investigating
  <2> QED BY <2>1 DEF IsStopped
<1>2. CASE w.phase \in Coordinating
  <2>1. Resumption(w) = [w EXCEPT !.phase = "checkout", !.tip = None, !.merged = FALSE,
                                  !.repairFailed = FALSE, !.evidenceRecorded = FALSE]
    BY <1>2 DEF Resumption, Coordinating
  <2>2. IsQueued(Resumption(w), releases)
    BY <1>2, <2>1 DEF IsQueued, IsWatchRun, Idle, Investigating, Coordinating
  <2> QED BY <2>2 DEF IsStopped
<1> QED BY <1>1, <1>2 DEF IsWatchRun

LEMMA LeavesAreStopped ==
  ASSUME TypedInv, watch.phase # "idle", NEW failed
  PROVE  \A s \in Leaves(failed) : IsStopped(s, public)
<1>1. IsStopped([kind |-> "watcher", run |-> Resumption(watch)], public)
  BY ResumptionIsStopped DEF TypedInv, RunsAreTyped
<1> QED BY <1>1 DEF Leaves, MayRerun

\* A step that publishes nothing keeps the invariant when all it changes is typed.
LEMMA TypedStep ==
  ASSUME TypedInv, public' = public, badge' = badge,
         feed' \in [Branches -> Patches], VersionsOf(drafts') \subseteq Versions,
         IsCommit(main', public), IsWatchRun(watch', public),
         queue' # None => IsQueued(queue', public),
         \A run \in runs' : IsPublishRun(run, public),
         \A s \in stopped' : IsStopped(s, public)
  PROVE  TypedInv'
BY DEF TypedInv, ReleasesAreTyped, RunsAreTyped

\* Where only the watcher run itself moves, and main keeps its shape.
LEMMA WatcherStepKeeps ==
  ASSUME TypedInv, UNCHANGED <<feed, github, runs>>,
         IsCommit(main', public), IsWatchRun(watch', public),
         queue' # None => IsQueued(queue', public),
         \A s \in stopped' : IsStopped(s, public)
  PROVE  TypedInv'
BY TypedStep DEF TypedInv, RunsAreTyped, VersionsOf, github

LEMMA IdleIsTyped ==
  ASSUME NEW releases
  PROVE  IsWatchRun(Idle, releases)
BY DEF IsWatchRun, Idle, Investigating, Coordinating

LEMMA InvestigateKeepsTyped ==
  ASSUME TypedInv, NEW sourcesHealthy \in BOOLEAN, Investigate(sourcesHealthy)
  PROVE  TypedInv'
<1> DEFINE w == [watch EXCEPT !.releases = public]
           decision == Decision(w, sourcesHealthy)
           plan == PlanOf(w, decision)
           next == [Retained(w, plan) EXCEPT
                      !.phase = "checkout", !.plan = plan, !.record = decision.record]
<1>1. /\ watch.phase = "releases" /\ IsWatchRun(watch, public)
      /\ watch' = Idle \/ watch' = next
      /\ UNCHANGED <<feed, main, github, queue, runs, stopped>>
  BY DEF Investigate, TypedInv, RunsAreTyped
<1>2. /\ decision.record # None => decision.record \in Versions \cap VersionsOf(public)
      /\ plan.action \in PublishActions => IsNext(plan.v, public)
  BY <1>1, Selection, SelectionContinues
<1> HIDE DEF plan, decision
<1>3. IsCommit(watch.base, public)
  BY <1>1 DEF IsWatchRun, Investigating
<1>4. IsWatchRun(next, public)
  BY <1>1, <1>2, <1>3 DEF IsWatchRun, Idle, Retained, Investigating, Coordinating
<1> HIDE DEF next
<1>5. IsWatchRun(watch', public)
  BY <1>1, <1>4, IdleIsTyped
<1> QED BY <1>1, <1>5, WatcherStepKeeps DEF TypedInv, RunsAreTyped

LEMMA InvestigationKeepsTyped ==
  ASSUME TypedInv, StartWatcher \/ ReadInFlight \/ CaptureFeeds
  PROVE  TypedInv'
<1>1. /\ UNCHANGED <<feed, main, github, runs, stopped>>
      /\ queue' = queue \/ queue' = None
  BY DEF StartWatcher, ReadInFlight, CaptureFeeds
<1>2. IsWatchRun(watch', public)
  <2>1. IsWatchRun(watch, public) /\ feed \in [Branches -> Patches]
    BY DEF TypedInv, RunsAreTyped
  <2>2. CASE StartWatcher
    BY <2>2 DEF StartWatcher, TypedInv, RunsAreTyped, IsQueued
  <2>3. CASE ReadInFlight \/ CaptureFeeds
    BY <2>1, <2>3 DEF ReadInFlight, CaptureFeeds, IsWatchRun, Idle, Investigating, Coordinating
  <2> QED BY <2>2, <2>3
<1> QED BY <1>1, <1>2, WatcherStepKeeps DEF TypedInv, RunsAreTyped

\* A record that is recovered is that of a published release.
LEMMA RecoveryKeepsTyped ==
  ASSUME TypedInv,
         \/ Checkout \/ NoRecovery \/ RecoverRecord \/ RecoveryRefused
         \/ RecoveryReplyLost \/ PrepareEvidence
  PROVE  TypedInv'
<1>1. /\ UNCHANGED <<feed, github, queue, runs, stopped>>
      /\ main' = main \/ (RecoveryIsDue /\ main' = WithRecord(main, watch.record))
  BY DEF Checkout, NoRecovery, RecoverRecord, RecoveryRefused, RecoveryReplyLost, PrepareEvidence
<1>2. IsWatchRun(watch, public) /\ IsCommit(main, public)
  BY DEF TypedInv, RunsAreTyped
<1>3. IsWatchRun(watch', public)
  BY ZenonT(30), <1>2 DEF Checkout, NoRecovery, RecoverRecord, RecoveryRefused, RecoveryReplyLost,
       PrepareEvidence, RecoveryIsDue, IsWatchRun, Idle, Investigating, Coordinating
<1>4. IsCommit(main', public)
  <2> SUFFICES ASSUME RecoveryIsDue, main' = WithRecord(main, watch.record)
               PROVE  IsCommit(main', public)
    BY <1>1, <1>2
  <2>1. watch.record # None
    BY DEF RecoveryIsDue, RecoveryIsRouted, Route, RecoveryRoute, RecoveryKey, RecoveryCall,
           RecoveryAction
  <2>2. watch.record \in Versions \cap VersionsOf(public)
    BY <1>2, <2>1 DEF RecoveryIsDue, IsWatchRun, Coordinating
  <2> QED BY <1>2, <2>2, MergesKeep
<1> QED BY <1>1, <1>3, <1>4, WatcherStepKeeps DEF TypedInv, RunsAreTyped

\* A publish run is dispatched with the version and the commit of its plan.
LEMMA DispatchIsPublishRun ==
  ASSUME TypedInv, DispatchPublish
  PROVE  LET run == [v |-> watch.plan.v, commit |-> watch.base, cites |-> watch.releases,
                     phase |-> "queued", latest |-> FALSE]
         IN /\ IsPublishRun(run, public)
            /\ watch.plan.action \in PublishActions
            /\ runs' = runs \cup {run}
<1>1. watch.plan.action \in PublishActions
  BY DEF DispatchPublish, Routed, Route, PlanRoute, HeldForPublish
<1>2. IsNext(watch.plan.v, public) /\ IsCommit(watch.base, public)
  BY <1>1 DEF TypedInv, RunsAreTyped, IsWatchRun, DispatchPublish, Coordinating
<1> QED BY <1>1, <1>2 DEF DispatchPublish, IsPublishRun, IsRun

LEMMA RoutingKeepsTyped ==
  ASSUME TypedInv, RouteNothing \/ DispatchPublish \/ RecordEvidence \/ WatcherFails
  PROVE  TypedInv'
<1>1. PICK failed : stopped' = stopped \cup Leaves(failed)
  BY DEF RouteNothing, DispatchPublish, RecordEvidence, WatcherFails, EndWatcher
<1>2. \A s \in stopped' : IsStopped(s, public)
  BY <1>1, LeavesAreStopped DEF TypedInv, RunsAreTyped, RouteNothing, DispatchPublish,
       RecordEvidence, WatcherFails
<1>3. IsWatchRun(watch', public) /\ UNCHANGED <<feed, github, queue>>
  BY IdleIsTyped DEF RouteNothing, DispatchPublish, RecordEvidence, WatcherFails, EndWatcher
<1>4. IsCommit(main', public)
  <2>1. \/ main' = main
        \/ main' = [main EXCEPT !.reviewed = Snapshot(watch), !.evidence = TRUE]
    BY DEF RouteNothing, DispatchPublish, RecordEvidence, WatcherFails
  <2> QED BY <2>1 DEF TypedInv, IsCommit
<1>5. \A run \in runs' : IsPublishRun(run, public)
  <2>1. CASE DispatchPublish
    BY <2>1, DispatchIsPublishRun DEF TypedInv, RunsAreTyped
  <2>2. CASE UNCHANGED runs
    BY <2>2 DEF TypedInv, RunsAreTyped
  <2> QED BY <2>1, <2>2 DEF RouteNothing, RecordEvidence, WatcherFails
<1> QED BY <1>2, <1>3, <1>4, <1>5, TypedStep DEF TypedInv, RunsAreTyped, VersionsOf, github

LEMMA WatcherKeepsTyped ==
  ASSUME TypedInv,
         StartWatcher \/ WatcherStep \/ Investigate(FALSE) \/ RecoveryReplyLost
           \/ WatcherFails
  PROVE  TypedInv'
BY InvestigateKeepsTyped, InvestigationKeepsTyped, RecoveryKeepsTyped, RoutingKeepsTyped
   DEF WatcherStep, Coordinate

LEMMA AroundKeepsTyped ==
  ASSUME TypedInv, Around
  PROVE  TypedInv'
<1>1. CASE \E b \in Branches : FeedMoves(b)
  <2>1. PICK b \in Branches : FeedMoves(b)
    BY <1>1
  <2>2. feed' \in [Branches -> Patches]
    <3>1. feed \in [Branches -> Patches] /\ MaxPatch \in Nat
      BY BoundsAreNaturals DEF TypedInv
    <3>2. feed[b] + 1 \in Patches
      BY <2>1, <3>1 DEF FeedMoves, Patches
    <3> QED BY <2>1, <3>1, <3>2 DEF FeedMoves
  <2> QED BY <2>1, <2>2, TypedStep DEF FeedMoves, TypedInv, RunsAreTyped, VersionsOf, github
<1>2. CASE MergeEdit
  <2>1. IsCommit(main', public)
    <3>1. IsCommit(Merged(main), public)
      BY MergesKeep DEF TypedInv
    <3>2. Merged(main).edit + 1 \in Edits
      BY <1>2, BoundsAreNaturals DEF MergeEdit, TypedInv, IsCommit, Merged, Edits
    <3> QED BY <1>2, <3>1, <3>2 DEF MergeEdit, IsCommit
  <2> QED BY <1>2, <2>1, WatcherStepKeeps DEF MergeEdit, TypedInv, RunsAreTyped
<1>3. CASE Schedule
  BY <1>3, NewRunIsQueued, WatcherStepKeeps DEF Schedule, TypedInv, RunsAreTyped
<1>4. CASE \E d \in drafts : DiscardDraft(d)
  BY <1>4, TypedStep DEF DiscardDraft, TypedInv, RunsAreTyped, VersionsOf
<1>5. CASE \E s \in stopped : RerunPublish(s)
  <2>1. PICK s \in stopped : RerunPublish(s)
    BY <1>5
  <2>2. IsPublishRun(s.run, public) /\ stopped' \subseteq stopped
    BY <2>1 DEF RerunPublish, StillStopped, TypedInv, RunsAreTyped, IsStopped
  <2> QED BY <2>1, <2>2, TypedStep DEF RerunPublish, TypedInv, RunsAreTyped, VersionsOf, github
<1>6. CASE \E s \in stopped : RerunWatcher(s)
  <2>1. PICK s \in stopped : RerunWatcher(s)
    BY <1>6
  <2>2. IsQueued(s.run, public) /\ stopped' \subseteq stopped
    BY <2>1 DEF RerunWatcher, StillStopped, TypedInv, RunsAreTyped, IsStopped
  <2> QED BY <2>1, <2>2, WatcherStepKeeps DEF RerunWatcher, TypedInv, RunsAreTyped
<1> QED BY <1>1, <1>2, <1>3, <1>4, <1>5, <1>6 DEF Around

\* A run that moves on keeps what it is for; what it calls public must be.
LEMMA MovedRunIsTyped ==
  ASSUME NEW run, NEW releases, IsPublishRun(run, releases), NEW phase,
         phase \in {"queued", "staged", "publishing", "public", "recorded"},
         phase \in {"public", "recorded"} => run.v \in VersionsOf(releases)
  PROVE  IsPublishRun([run EXCEPT !.phase = phase], releases)
<1>1. [run EXCEPT !.phase = phase] =
        [v |-> run.v, commit |-> run.commit, cites |-> run.cites,
         phase |-> phase, latest |-> run.latest]
  BY DEF IsPublishRun, IsRun
<1> QED BY <1>1 DEF IsPublishRun, IsRun

LEMMA JudgedRunIsTyped ==
  ASSUME NEW run, NEW releases, IsPublishRun(run, releases), NEW latest
  PROVE  /\ IsPublishRun(WithLatest(run, latest), releases)
         /\ WithLatest(run, latest).v = run.v
<1>1. WithLatest(run, latest) =
        [v |-> run.v, commit |-> run.commit, cites |-> run.cites,
         phase |-> run.phase, latest |-> latest]
  BY DEF WithLatest, IsPublishRun, IsRun
<1> QED BY <1>1 DEF IsPublishRun, IsRun

\* Steps of a publish run that publish nothing.
LEMMA MovesKeepTyped ==
  ASSUME TypedInv, NEW run \in runs,
         StageDraft(run) \/ ReadLatest(run) \/ FileRecord(run) \/ FindPublic(run)
  PROVE  TypedInv'
<1>1. /\ IsPublishRun(run, public) /\ IsCommit(main, public)
      /\ IsWatchRun(watch, public) /\ (queue # None => IsQueued(queue, public))
      /\ UNCHANGED <<feed, public, badge, queue, watch, stopped>>
  BY DEF TypedInv, RunsAreTyped, StageDraft, ReadLatest, FileRecord, FindPublic, github
<1>2. PICK next : runs' = (runs \ {run}) \cup {next} /\ IsPublishRun(next, public)
  <2>1. CASE StageDraft(run)
    BY <1>1, <2>1, MovedRunIsTyped DEF StageDraft, Step
  <2>2. CASE ReadLatest(run)
    <3> DEFINE judged == WithLatest(run, ReleaseIsNewest(run.v, Listing))
    <3>1. IsPublishRun(judged, public)
      BY <1>1, JudgedRunIsTyped
    <3>2. runs' = (runs \ {run}) \cup {[judged EXCEPT !.phase = "publishing"]}
      BY <2>2 DEF ReadLatest
    <3> HIDE DEF judged
    <3> QED BY <3>1, <3>2, MovedRunIsTyped
  <2>3. CASE FileRecord(run)
    <3>1. IsPublishRun([run EXCEPT !.phase = "recorded"], public)
      BY <1>1, <2>3, MovedRunIsTyped DEF FileRecord, IsPublishRun
    <3> QED BY <2>3, <3>1 DEF FileRecord, Step
  <2>4. CASE FindPublic(run)
    <3>1. run.v \in VersionsOf(public)
      BY <2>4 DEF FindPublic, IsPublic, VersionsOf
    <3>2. IsPublishRun([run EXCEPT !.phase = "public"], public)
      BY <1>1, <3>1, MovedRunIsTyped
    <3> QED BY <2>4, <3>2 DEF FindPublic, Step
  <2> QED BY <2>1, <2>2, <2>3, <2>4
<1>3. \A other \in runs' : IsPublishRun(other, public)
  BY <1>2 DEF TypedInv, RunsAreTyped
<1>4. IsCommit(main', public)
  <2>1. CASE FileRecord(run)
    <3>1. run.v \in Versions \cap VersionsOf(public)
      BY <1>1, <2>1 DEF FileRecord, IsPublishRun, IsNext
    <3> QED BY <1>1, <2>1, <3>1, MergesKeep DEF FileRecord
  <2>2. CASE UNCHANGED main
    BY <1>1, <2>2
  <2> QED BY <2>1, <2>2 DEF StageDraft, ReadLatest, FindPublic
<1>5. VersionsOf(drafts') \subseteq Versions
  <2>1. drafts' = drafts \/ drafts' = drafts \cup {[v |-> run.v, commit |-> run.commit]}
    BY DEF StageDraft, ReadLatest, FileRecord, FindPublic, github
  <2>2. run.v \in Versions
    BY <1>1 DEF IsPublishRun, IsNext
  <2> QED BY <2>1, <2>2 DEF VersionsOf, TypedInv
<1> QED BY <1>1, <1>3, <1>4, <1>5, TypedStep DEF TypedInv, RunsAreTyped

\* A run that ends leaves at most itself, to begin its job again.
LEMMA EndKeepsTyped ==
  ASSUME TypedInv, NEW run \in runs,
         StartNextWatcher(run) \/ Refused(run) \/ RunFails(run)
  PROVE  TypedInv'
<1>1. /\ IsPublishRun(run, public) /\ IsCommit(main, public)
      /\ runs' = runs \ {run} /\ UNCHANGED <<feed, main, github, watch>>
  BY DEF TypedInv, RunsAreTyped, StartNextWatcher, Refused, RunFails, EndRun
<1>2. queue' # None => IsQueued(queue', public)
  BY <1>1, NewRunIsQueued DEF StartNextWatcher, Refused, RunFails, EndRun, TypedInv, RunsAreTyped
<1>3. \A s \in Rerunnable(run) : IsStopped(s, public)
  <2> DEFINE phase == IF run.phase = "publishing" THEN "staged" ELSE run.phase
             cleared == WithLatest(run, FALSE)
             left == [cleared EXCEPT !.phase = phase]
  <2>1. IsPublishRun(left, public)
    <3>1. /\ phase \in {"queued", "staged", "publishing", "public", "recorded"}
          /\ phase \in {"public", "recorded"} => run.v \in VersionsOf(public)
      BY <1>1 DEF IsPublishRun
    <3>2. IsPublishRun(cleared, public) /\ cleared.v = run.v
      BY <1>1, JudgedRunIsTyped
    <3> HIDE DEF phase, cleared
    <3> QED BY <3>1, <3>2, MovedRunIsTyped
  <2>2. \A s \in Rerunnable(run) : s = [kind |-> "publish", run |-> left]
    BY DEF Rerunnable, MayRerun
  <2> HIDE DEF left
  <2> QED BY <2>1, <2>2 DEF IsStopped
<1>4. \A s \in stopped' : IsStopped(s, public)
  BY <1>3 DEF StartNextWatcher, Refused, RunFails, EndRun, TypedInv, RunsAreTyped
<1> QED BY <1>1, <1>2, <1>4, TypedStep DEF TypedInv, RunsAreTyped, VersionsOf, github

\* The publication adds the version of the run, on top of its predecessor.
LEMMA PublishKeepsTyped ==
  ASSUME TypedInv, NEW run \in runs, Publish(run)
  PROVE  TypedInv'
<1> DEFINE release == [v |-> run.v, recipe |-> Builds(run.commit, run.v), draft |-> FALSE]
           next == [run EXCEPT !.phase = "public"]
<1>1. /\ IsPublishRun(run, public)
      /\ public' = public \cup {release}
      /\ runs' = (runs \ {run}) \cup {next}
      /\ UNCHANGED <<feed, main, queue, watch, stopped>>
      /\ drafts' \subseteq drafts /\ badge' \in {badge, run.v}
  BY DEF Publish, Step, Builds, TypedInv, RunsAreTyped
<1>2. run.v \in Versions /\ IsNext(run.v, public) /\ Builds(run.commit, run.v) \in Identities
  BY <1>1 DEF IsPublishRun, IsNext, IsCommit, Builds, Identities, Versions
<1>3. public \subseteq public' /\ run.v \in VersionsOf(public')
  <2>1. release \in public' /\ release.v = run.v
    BY <1>1
  <2> QED BY <1>1, <2>1 DEF VersionsOf
<1>4. ReleasesAreTyped'
  <2>1. release \in [v : Versions, recipe : Identities, draft : {FALSE}]
    BY <1>2
  <2>2. \A r \in public' : r \in public \/ r.v = run.v
    BY <1>1
  <2>3. \A r \in public' : IsNext(r.v, public')
    BY <1>2, <1>3, <2>2, GrowthKeeps DEF TypedInv, ReleasesAreTyped
  <2> HIDE DEF release
  <2> QED BY <1>1, <2>1, <2>3 DEF TypedInv, ReleasesAreTyped
<1>5. IsPublishRun(next, public')
  <2>1. IsPublishRun(run, public')
    BY <1>1, <1>3, GrowthKeeps
  <2> QED BY <1>3, <2>1, MovedRunIsTyped
<1> HIDE DEF next, release
<1>6. \A other \in runs' : IsPublishRun(other, public')
  BY <1>1, <1>3, <1>5, GrowthKeeps DEF TypedInv, RunsAreTyped
<1>7. RunsAreTyped'
  BY <1>1, <1>3, <1>6, GrowthKeeps DEF TypedInv, RunsAreTyped
<1>8. IsCommit(main', public')
  BY <1>1, <1>3, GrowthKeeps DEF TypedInv
<1>9. VersionsOf(drafts') \cup {badge'} \subseteq Versions
  BY <1>1, <1>2 DEF TypedInv, VersionsOf
<1> QED BY <1>1, <1>4, <1>7, <1>8, <1>9 DEF TypedInv

LEMMA TypedIsInductive ==
  ASSUME TypedInv, [Next]_vars
  PROVE  TypedInv'
<1>1. CASE Around
  BY <1>1, AroundKeepsTyped
<1>2. CASE StartWatcher \/ WatcherStep \/ Investigate(FALSE) \/ RecoveryReplyLost
             \/ WatcherFails
  BY <1>2, WatcherKeepsTyped
<1>3. ASSUME NEW run \in runs, Publication(run) \/ RunFails(run)
      PROVE  TypedInv'
  BY <1>3, MovesKeepTyped, EndKeepsTyped, PublishKeepsTyped DEF Publication
<1>4. CASE UNCHANGED vars
  BY <1>4 DEF vars, TypedInv, ReleasesAreTyped, RunsAreTyped
<1> QED BY <1>1, <1>2, <1>3, <1>4 DEF Next, PublishStep

LEMMA TypedInvariance == Spec => []TypedInv
<1>1. Init => TypedInv
  BY InitIsTyped
<1>2. TypedInv /\ [Next]_vars => TypedInv'
  BY TypedIsInductive
<1> QED BY <1>1, <1>2, PTL DEF Spec

\* Every variable keeps its type; a record on main names a version.
THEOREM TypeCorrectness == Spec => []TypeOK
<1>1. TypedInv => TypeOK
  <2> SUFFICES ASSUME TypedInv PROVE TypeOK
    OBVIOUS
  <2>1. \A d \in drafts : d.v \in VersionsOf(drafts)
    BY DEF VersionsOf
  <2>2. {d.v : d \in drafts} \cup {badge} \subseteq Versions
    BY <2>1 DEF TypedInv
  <2>3. watch.phase \in {"idle", "start", "feeds", "releases", "checkout",
                         "recover", "evidence", "dispatch"}
    BY DEF TypedInv, RunsAreTyped, IsWatchRun, Investigating, Coordinating
  <2>4. \A run \in runs :
          /\ run.v \in Versions
          /\ run.phase \in {"queued", "staged", "publishing", "public", "recorded"}
    BY DEF TypedInv, RunsAreTyped, IsPublishRun, IsNext
  <2> QED BY <2>2, <2>3, <2>4 DEF TypeOK, TypedInv, IsCommit, ReleasesAreTyped
<1> QED BY <1>1, TypedInvariance, PTL

\* Whatever a run captures, admission accepts the plan it is classified as: a rebuild
\* or a patch that is due is above every record of the commit the run works from,
\* because every record names a release that is public.
THEOREM PlansAreAdmitted == Spec => []EveryPlanIsAdmitted
<1>1. TypedInv => EveryPlanIsAdmitted
  BY SelectionContinues DEF EveryPlanIsAdmitted
<1> QED BY <1>1, TypedInvariance, PTL

\* A revision is published only on top of the one before it, also by a run that is
\* resumed long after its plan was made.
THEOREM RevisionsFollow == Spec => []RevisionsAreASequence
<1>1. TypedInv => RevisionsAreASequence
  <2> SUFFICES ASSUME TypedInv, NEW r \in public, r.v.rev > 0
               PROVE  IsPublic([r.v EXCEPT !.rev = @ - 1])
    BY DEF RevisionsAreASequence
  <2>1. Predecessor(r.v) \in VersionsOf(public)
    BY DEF TypedInv, ReleasesAreTyped, IsNext
  <2> QED BY <2>1 DEF Predecessor, VersionsOf, IsPublic
<1> QED BY <1>1, TypedInvariance, PTL

-----------------------------------------------------------------------------
(* The line of a branch, where nobody reruns a run. *)

\* The newest of all releases is one version.
LEMMA NewestIsOne ==
  ASSUME NEW releases, \A r \in releases : IsVersion(r.v),
         NEW newest \in VersionsOf(releases), \A r \in releases : ~Above(r.v, newest)
  PROVE  Line!Newest(releases).v = newest
<1>1. PICK top \in releases : top.v = newest
  BY DEF VersionsOf
<1> DEFINE IsTop(r) == \A s \in releases : ~Above(s.v, r.v)
<1>2. IsTop(top)
  BY <1>1
<1>3. \A r \in releases : IsTop(r) => r.v = newest
  <2> SUFFICES ASSUME NEW r \in releases, IsTop(r) PROVE r.v = newest
    OBVIOUS
  <2>1. ~Above(r.v, top.v) /\ ~Above(top.v, r.v)
    BY <1>2
  <2> QED BY <1>1, <2>1, AboveIsAnOrder
<1>4. (CHOOSE r \in releases : IsTop(r)).v = newest
  BY <1>2, <1>3
<1>5. Line!Newest(releases) = CHOOSE r \in releases : IsTop(r)
  BY DEF Line!Newest, Line!Above, Above
<1> QED BY <1>4, <1>5

\* The invariant of a loop nobody reruns.
UndisturbedInv == OnceInv /\ HeldInv /\ TypedInv /\ LineInv

\* A step that publishes nothing, dispatches nothing and moves no run: the watcher
\* still has the plan it had, or has none.
LEMMA LineUntouched ==
  ASSUME LineInv, UNCHANGED <<public, badge, runs>>,
         \/ watch'.phase \notin Coordinating
         \/ /\ watch.phase \in Coordinating
            /\ watch'.plan = watch.plan /\ watch'.base = watch.base
            /\ watch'.inFlight = watch.inFlight
  PROVE  LineInv'
BY DEF LineInv, InFlight, Unpublished, BadgeIsNewest

LEMMA InitIsInLine == Init => LineInv
<1> SUFFICES ASSUME Init PROVE LineInv
  OBVIOUS
<1>1. BadgeIsNewest
  <2>1. TypedInv /\ \A r \in public : IsVersion(r.v) /\ r.draft = FALSE
    BY InitIsTyped, VersionsAreVersions DEF TypedInv, ReleasesAreTyped, IsNext
  <2>2. PICK last \in Branches : \A b \in Branches : b <= last
    BY BranchesAreOrdered
  <2>3. Initially[last] \in VersionsOf(public)
    BY <2>2, InitialLine
  <2>4. \A r \in public : ~Above(r.v, Initially[last])
    <3> SUFFICES ASSUME NEW r \in public PROVE ~Above(r.v, Initially[last])
      OBVIOUS
    <3>1. r.v \in VersionsOf(public)
      BY DEF VersionsOf
    <3>2. PICK b \in Branches : r.v = Initially[b]
      BY <3>1, InitialLine
    <3>3. /\ Initially[b] = [branch |-> b, patch |-> 0, rev |-> 0]
          /\ Initially[last] = [branch |-> last, patch |-> 0, rev |-> 0]
      BY DEF Initially
    <3>4. b <= last /\ b \in Nat /\ last \in Nat
      BY <2>2, BranchesAreOrdered
    <3> QED BY <3>2, <3>3, <3>4 DEF Above
  <2> DEFINE IsTop(r) == ReleaseIsNewest(r.v, public)
  <2>5. PICK top \in public : top.v = Initially[last]
    BY <2>3 DEF VersionsOf
  <2>6. IsTop(top)
    BY <2>4, <2>5 DEF ReleaseIsNewest, Published
  <2>7. (CHOOSE r \in public : IsTop(r)) \in public /\ IsTop(CHOOSE r \in public : IsTop(r))
    BY <2>6
  <2> QED BY <2>1, <2>7 DEF Init, BadgeIsNewest, VersionsOf, ReleaseIsNewest, Published
<1>2. runs = {} /\ watch.phase = "idle"
  BY DEF Init, Idle
<1> QED BY <1>1, <1>2 DEF LineInv, InFlight, Unpublished, Coordinating

LEMMA InvestigateKeepsLine ==
  ASSUME UndisturbedInv, NEW sourcesHealthy \in BOOLEAN, Investigate(sourcesHealthy)
  PROVE  LineInv'
<1> DEFINE w == [watch EXCEPT !.releases = public]
           decision == Decision(w, sourcesHealthy)
           plan == PlanOf(w, decision)
           next == [Retained(w, plan) EXCEPT
                      !.phase = "checkout", !.plan = plan, !.record = decision.record]
<1>1. /\ watch.phase = "releases" /\ IsWatchRun(watch, public)
      /\ watch' = Idle \/ watch' = next
      /\ UNCHANGED <<public, badge, runs>>
  BY DEF Investigate, UndisturbedInv, TypedInv, RunsAreTyped, github
<1>2. plan.action \in PublishActions =>
        ContinuesLine(plan.v, Builds(watch.base, plan.v), public)
  BY <1>1, SelectionContinues DEF UndisturbedInv
<1> HIDE DEF plan, decision
<1>3. /\ next.plan = plan
      /\ plan.action \in PublishActions => next.base = watch.base
  BY <1>1 DEF IsWatchRun, Idle, Retained
<1> HIDE DEF next
<1>4. watch'.phase \in Coordinating => watch' = next
  BY <1>1 DEF Idle, Coordinating
<1> QED BY <1>1, <1>2, <1>3, <1>4 DEF UndisturbedInv, LineInv, InFlight, Unpublished, BadgeIsNewest

LEMMA DispatchKeepsLine ==
  ASSUME UndisturbedInv, DispatchPublish
  PROVE  /\ LineInv'
         /\ watch.plan.v \notin VersionsOf(public)
         /\ ContinuesLine(watch.plan.v, Builds(watch.base, watch.plan.v), public)
<1> DEFINE run == [v |-> watch.plan.v, commit |-> watch.base, cites |-> watch.releases,
                   phase |-> "queued", latest |-> FALSE]
<1>1. /\ IsPublishRun(run, public) /\ runs' = runs \cup {run}
      /\ watch.plan.action \in PublishActions
  BY DispatchIsPublishRun DEF UndisturbedInv
<1>2. ~watch.inFlight /\ watch.phase = "dispatch" /\ UNCHANGED <<public, badge>>
  BY ActingIsUnheld DEF DispatchPublish, github
<1>3. InFlight = {}
  BY <1>2 DEF UndisturbedInv, HeldInv, InFlightOnlyShrinks
<1>4. ContinuesLine(run.v, Builds(run.commit, run.v), public)
  BY <1>1, <1>2 DEF UndisturbedInv, LineInv, Coordinating
<1>5. /\ InFlight' \subseteq {run} /\ Unpublished' \subseteq {run}
      /\ \A other \in runs' : other.phase = "publishing" => other \in runs
  BY <1>1, <1>3 DEF InFlight, Unpublished
<1>6. watch' = Idle
  BY DEF DispatchPublish, EndWatcher
<1>7. run.v \notin VersionsOf(public)
  BY <1>1, <1>4, ContinuationIsNew DEF IsPublishRun, IsNext, UndisturbedInv, TypedInv
<1>8. LineInv'
  BY <1>2, <1>4, <1>5, <1>6 DEF UndisturbedInv, LineInv, BadgeIsNewest, Idle, Coordinating
<1> QED BY <1>4, <1>7, <1>8

LEMMA WatcherKeepsLine ==
  ASSUME UndisturbedInv,
         StartWatcher \/ WatcherStep \/ Investigate(FALSE) \/ RecoveryReplyLost
           \/ WatcherFails
  PROVE  LineInv'
<1>1. CASE StartWatcher
  BY <1>1, LineUntouched DEF StartWatcher, UndisturbedInv, HeldInv, WatchersAreWatchers,
       Coordinating, github
<1>2. CASE ReadInFlight \/ CaptureFeeds
  <2>1. watch'.phase \in {"feeds", "releases"}
    BY <1>2 DEF ReadInFlight, CaptureFeeds, UndisturbedInv, TypedInv, RunsAreTyped, IsWatchRun, Idle
  <2> QED BY <1>2, <2>1, LineUntouched DEF ReadInFlight, CaptureFeeds, UndisturbedInv,
            Coordinating, github
<1>3. CASE Investigate(TRUE) \/ Investigate(FALSE)
  BY <1>3, InvestigateKeepsLine
<1>4. CASE Checkout \/ NoRecovery \/ RecoverRecord \/ RecoveryRefused
             \/ RecoveryReplyLost \/ PrepareEvidence
  <2>1. /\ watch.phase \in Coordinating
        /\ watch'.plan = watch.plan /\ watch'.base = watch.base
        /\ watch'.inFlight = watch.inFlight
    BY <1>4 DEF Checkout, NoRecovery, RecoverRecord, RecoveryRefused, RecoveryReplyLost,
         PrepareEvidence, RecoveryIsDue, UndisturbedInv, TypedInv, RunsAreTyped, IsWatchRun,
         Idle, Coordinating
  <2> QED BY <1>4, <2>1, LineUntouched DEF Checkout, NoRecovery, RecoverRecord,
            RecoveryRefused, RecoveryReplyLost, PrepareEvidence, UndisturbedInv, github
<1>5. CASE RouteNothing \/ RecordEvidence \/ WatcherFails
  <2>1. watch' = Idle /\ UNCHANGED <<public, badge, runs>>
    BY <1>5 DEF RouteNothing, RecordEvidence, WatcherFails, EndWatcher, github
  <2>2. watch'.phase \notin Coordinating
    BY <2>1 DEF Idle, Coordinating
  <2> QED BY <2>1, <2>2, LineUntouched DEF UndisturbedInv
<1>6. CASE DispatchPublish
  BY <1>6, DispatchKeepsLine
<1> QED BY <1>1, <1>2, <1>3, <1>4, <1>5, <1>6 DEF WatcherStep, Coordinate

LEMMA AroundKeepsLine ==
  ASSUME MaxReruns = 0, UndisturbedInv, Around
  PROVE  LineInv'
<1>1. \A s \in stopped : ~RerunPublish(s) /\ ~RerunWatcher(s)
  BY DEF UndisturbedInv, HeldInv, NothingIsRerun
<1>2. UNCHANGED <<public, badge, watch, runs>>
  BY <1>1 DEF Around, FeedMoves, MergeEdit, Schedule, DiscardDraft, github
<1> QED BY <1>2, LineUntouched DEF UndisturbedInv

\* The list the badge is decided on holds drafts, which do not count.
LEMMA DraftsDoNotCount ==
  ASSUME NEW v
  PROVE  ReleaseIsNewest(v, Listing) <=> ReleaseIsNewest(v, public)
<1> DEFINE listed(d) == [v |-> d.v, recipe |-> Recipe[d.commit.edit][d.v.branch], draft |-> TRUE]
<1>1. \A d : listed(d).draft
  OBVIOUS
<1>2. Listing = public \cup {listed(d) : d \in drafts}
  BY DEF Listing
<1> HIDE DEF listed
<1>3. \A r : r \in Published(Listing) <=> r \in Published(public)
  BY <1>1, <1>2 DEF Published
<1> QED BY <1>3 DEF ReleaseIsNewest

\* The run at work is the only one in flight: all others are recorded.
LEMMA OthersAreRecorded ==
  ASSUME LineInv, NEW run \in runs, run.phase # "recorded"
  PROVE  \A other \in runs \ {run} : other.phase = "recorded"
BY DEF LineInv, InFlight

\* A run moves on without publishing: what it is for stays, and stays ahead.
LEMMA MoveKeepsLine ==
  ASSUME LineInv, NEW run \in runs, run.phase # "recorded", NEW next,
         next.v = run.v, next.commit = run.commit,
         run.phase \in {"queued", "staged"} \/ next.phase \in {"public", "recorded"},
         next.phase = "publishing" => next.latest = ReleaseIsNewest(run.v, public),
         runs' = (runs \ {run}) \cup {next}, UNCHANGED <<public, badge, watch>>
  PROVE  LineInv'
<1>1. \A other \in runs' : other = next \/ other.phase = "recorded"
  BY OthersAreRecorded
<1>2. \A other \in InFlight' : other = next
  BY <1>1 DEF InFlight
<1>3. \A other \in Unpublished' : other = next /\ run \in Unpublished
  BY <1>1 DEF Unpublished
<1>4. \A other \in Unpublished' : ContinuesLine(other.v, Builds(other.commit, other.v), public)
  BY <1>3 DEF LineInv, Builds
<1>5. \A other \in runs' : other.phase = "publishing" =>
        other.latest = ReleaseIsNewest(other.v, public)
  BY <1>1
<1>6. \A r, s \in InFlight' : r = s
  BY <1>2
<1> QED BY <1>4, <1>5, <1>6 DEF LineInv, BadgeIsNewest

LEMMA PublicationKeepsLine ==
  ASSUME MaxReruns = 0, UndisturbedInv, NEW run \in runs,
         StageDraft(run) \/ ReadLatest(run) \/ FileRecord(run) \/ FindPublic(run)
  PROVE  LineInv'
<1>1. /\ IsRun(run) /\ LineInv /\ run.phase \in {"queued", "staged", "public"}
      /\ UNCHANGED <<public, badge, watch>>
  BY DEF UndisturbedInv, OnceInv, RunsAreRuns, StageDraft, ReadLatest, FileRecord, FindPublic,
       github
<1>2. \A phase : LET next == [run EXCEPT !.phase = phase] IN
        next.v = run.v /\ next.commit = run.commit /\ next.phase = phase
  BY <1>1 DEF IsRun
<1>3. CASE StageDraft(run)
  BY <1>1, <1>2, <1>3, MoveKeepsLine DEF StageDraft, Step
<1>4. CASE ReadLatest(run)
  <2> DEFINE latest == ReleaseIsNewest(run.v, Listing)
             next == [v |-> run.v, commit |-> run.commit, cites |-> run.cites,
                      phase |-> "publishing", latest |-> latest]
  <2>1. runs' = (runs \ {run}) \cup {[WithLatest(run, latest) EXCEPT !.phase = "publishing"]}
    BY <1>4 DEF ReadLatest
  <2>2. latest = ReleaseIsNewest(run.v, public)
    BY DraftsDoNotCount DEF ReleaseIsNewest
  <2> HIDE DEF latest
  <2>3. [WithLatest(run, latest) EXCEPT !.phase = "publishing"] = next
    <3>1. WithLatest(run, latest) =
            [v |-> run.v, commit |-> run.commit, cites |-> run.cites,
             phase |-> run.phase, latest |-> latest]
      BY <1>1 DEF WithLatest, IsRun
    <3> QED BY <3>1
  <2> QED BY <1>1, <1>4, <2>1, <2>2, <2>3, MoveKeepsLine DEF ReadLatest
<1>5. CASE FileRecord(run)
  BY <1>1, <1>2, <1>5, MoveKeepsLine DEF FileRecord, Step
<1>6. CASE FindPublic(run)
  BY <1>1, <1>2, <1>6, MoveKeepsLine DEF FindPublic, Step
<1> QED BY <1>3, <1>4, <1>5, <1>6

LEMMA EndKeepsLine ==
  ASSUME UndisturbedInv, NEW run \in runs,
         StartNextWatcher(run) \/ Refused(run) \/ RunFails(run)
  PROVE  LineInv'
<1>1. runs' = runs \ {run} /\ UNCHANGED <<public, badge, watch>>
  BY DEF StartNextWatcher, Refused, RunFails, EndRun, github
<1>2. InFlight' \subseteq InFlight /\ Unpublished' \subseteq Unpublished
  BY <1>1 DEF InFlight, Unpublished
<1> QED BY <1>1, <1>2 DEF UndisturbedInv, LineInv, BadgeIsNewest

\* The badge moves with a release above all others, and stays under any other.
LEMMA BadgeFollows ==
  ASSUME TypedInv, BadgeIsNewest, NEW run \in runs, Publish(run),
         run.latest = ReleaseIsNewest(run.v, public)
  PROVE  BadgeIsNewest'
<1> DEFINE release == [v |-> run.v, recipe |-> Builds(run.commit, run.v), draft |-> FALSE]
<1>1. /\ public' = public \cup {release} /\ release.v = run.v
      /\ badge' = IF run.latest THEN run.v ELSE badge
  BY DEF Publish, Builds
<1> HIDE DEF release
<1>2. IsVersion(run.v) /\ \A r \in public : IsVersion(r.v) /\ r.draft = FALSE
  BY VersionsAreVersions DEF TypedInv, ReleasesAreTyped, RunsAreTyped, IsPublishRun, IsNext
<1>3. run.latest = (\A r \in public : ~Above(r.v, run.v))
  BY <1>2 DEF ReleaseIsNewest, Published
<1>4. CASE run.latest
  <2>1. \A r \in public' : ~Above(r.v, run.v)
    BY <1>1, <1>2, <1>3, <1>4, AboveIsAnOrder
  <2> QED BY <1>1, <1>4, <2>1 DEF BadgeIsNewest, VersionsOf
<1>5. CASE ~run.latest
  <2>1. PICK s \in public : Above(s.v, run.v)
    BY <1>3, <1>5
  <2>2. IsVersion(badge) /\ ~Above(s.v, badge)
    BY <1>2 DEF BadgeIsNewest, VersionsOf
  <2>3. ~Above(run.v, badge)
    BY <1>2, <2>1, <2>2, AboveIsAnOrder
  <2> QED BY <1>1, <1>5, <2>3 DEF BadgeIsNewest, VersionsOf
<1> QED BY <1>4, <1>5

\* The release of the only run in flight joins the line; the watcher that is at work
\* saw that run, or has not looked yet.
LEMMA PublishKeepsLine ==
  ASSUME UndisturbedInv, NEW run \in runs, Publish(run)
  PROVE  /\ LineInv'
         /\ ContinuesLine(run.v, Builds(run.commit, run.v), public)
<1> DEFINE release == [v |-> run.v, recipe |-> Builds(run.commit, run.v), draft |-> FALSE]
           next == [run EXCEPT !.phase = "public"]
<1>1. /\ run.phase = "publishing" /\ IsVersion(run.v)
      /\ runs' = (runs \ {run}) \cup {next} /\ public' = public \cup {release}
      /\ badge' = IF run.latest THEN run.v ELSE badge
      /\ watch' = watch
  BY VersionsAreVersions DEF Publish, Step, Builds, UndisturbedInv, TypedInv, RunsAreTyped,
       IsPublishRun, IsNext
<1>2. next.phase = "public"
  BY DEF UndisturbedInv, OnceInv, RunsAreRuns, IsRun
<1>3. run \in InFlight /\ run \in Unpublished
  BY <1>1 DEF InFlight, Unpublished
<1>4. watch.phase \notin Coordinating \/ watch.inFlight
  BY <1>3 DEF UndisturbedInv, HeldInv, InFlightOnlyShrinks, Coordinating
<1> HIDE DEF next
<1>5. \A other \in runs' : other = next \/ other.phase = "recorded"
  BY <1>1, OthersAreRecorded DEF UndisturbedInv
<1>6. /\ \A r, s \in InFlight' : r = s
      /\ Unpublished' = {} /\ \A other \in runs' : other.phase # "publishing"
  BY <1>2, <1>5 DEF InFlight, Unpublished
<1>7. BadgeIsNewest'
  BY <1>1, BadgeFollows DEF UndisturbedInv, LineInv
<1>8. LineInv'
  BY <1>1, <1>4, <1>6, <1>7 DEF LineInv
<1>9. ContinuesLine(run.v, Builds(run.commit, run.v), public)
  BY <1>3 DEF UndisturbedInv, LineInv
<1> QED BY <1>8, <1>9

LEMMA UndisturbedIsInductive ==
  ASSUME MaxReruns = 0, UndisturbedInv, [Next]_vars
  PROVE  UndisturbedInv'
<1>1. OnceInv' /\ HeldInv' /\ TypedInv'
  BY OnceIsInductive, HeldIsInductive, TypedIsInductive DEF UndisturbedInv
<1>2. Around => LineInv'
  BY AroundKeepsLine
<1>3. StartWatcher \/ WatcherStep \/ Investigate(FALSE) \/ RecoveryReplyLost
        \/ WatcherFails => LineInv'
  BY WatcherKeepsLine
<1>4. ASSUME NEW run \in runs, Publication(run) \/ RunFails(run)
      PROVE  LineInv'
  BY <1>4, PublicationKeepsLine, EndKeepsLine, PublishKeepsLine DEF Publication
<1>5. UNCHANGED vars => LineInv'
  BY DEF vars, UndisturbedInv, LineInv, InFlight, Unpublished, BadgeIsNewest
<1>6. LineInv'
  BY <1>2, <1>3, <1>4, <1>5 DEF Next, PublishStep
<1> QED BY <1>1, <1>6 DEF UndisturbedInv

LEMMA InitIsUndisturbed == Init => UndisturbedInv
BY InitIsOnce, InitIsHeld, InitIsTyped, InitIsInLine DEF UndisturbedInv

\* Nobody but the watcher queues a run: it is the run of its plan.
LEMMA QueuedIsDispatched ==
  ASSUME HeldInv, RunsAreRuns, [Next]_vars, NEW new \in runs' \ runs, new.phase = "queued"
  PROVE  DispatchPublish /\ new.v = watch.plan.v
<1>1. \A s \in stopped : ~RerunPublish(s) /\ ~RerunWatcher(s)
  BY DEF HeldInv, NothingIsRerun
<1>2. ~Around /\ ~UNCHANGED vars
  BY <1>1 DEF Around, FeedMoves, MergeEdit, Schedule, DiscardDraft, vars
<1>3. ASSUME NEW run \in runs, Publication(run) \/ RunFails(run)
      PROVE  FALSE
  <2>1. \/ runs' \subseteq runs
        \/ \E phase \in {"staged", "public", "recorded"} : runs' = Step(run, phase)
        \/ ReadLatest(run)
    BY <1>3 DEF Publication, StageDraft, Publish, FileRecord, StartNextWatcher, FindPublic,
         Refused, RunFails, EndRun
  <2>2. IsRun(run)
    BY DEF RunsAreRuns
  <2>3. CASE ReadLatest(run)
    <3> DEFINE judged == WithLatest(run, ReleaseIsNewest(run.v, Listing))
    <3>1. new = [judged EXCEPT !.phase = "publishing"] /\ IsRun(judged)
      BY <2>2, <2>3, LatestIsRun DEF ReadLatest
    <3> HIDE DEF judged
    <3> QED BY <3>1, StepIsRun
  <2>4. ASSUME NEW phase \in {"staged", "public", "recorded"}, runs' = Step(run, phase)
        PROVE  FALSE
    BY <2>2, <2>4, StepIsRun DEF Step
  <2> QED BY <2>1, <2>3, <2>4
<1>4. DispatchPublish
  BY <1>2, <1>3 DEF Next, PublishStep, StartWatcher, WatcherStep, ReadInFlight, CaptureFeeds,
       Investigate, Coordinate, Checkout, NoRecovery, RecoverRecord, RecoveryRefused,
       RecoveryReplyLost, PrepareEvidence, RouteNothing, RecordEvidence, WatcherFails
<1> QED BY <1>4 DEF DispatchPublish

\* A publish run is dispatched only for a version that is not public, if nobody reruns
\* a run: what was selected is still ahead of the line, because the line did not move.
THEOREM DispatchesAreNew ==
  ASSUME MaxReruns = 0
  PROVE  Spec => NoRepeatedDispatch
<1>1. Init => UndisturbedInv
  BY InitIsUndisturbed
<1>2. UndisturbedInv /\ [Next]_vars => UndisturbedInv'
  BY UndisturbedIsInductive
<1>3. UndisturbedInv /\ [Next]_vars =>
        [\A run \in runs' \ runs : run.phase = "queued" => ~IsPublic(run.v)]_vars
  <2> SUFFICES ASSUME UndisturbedInv, [Next]_vars,
                      NEW new \in runs' \ runs, new.phase = "queued"
               PROVE  ~IsPublic(new.v)
    OBVIOUS
  <2>1. DispatchPublish /\ new.v = watch.plan.v
    BY QueuedIsDispatched DEF UndisturbedInv, OnceInv
  <2>2. new.v \notin VersionsOf(public)
    BY <2>1, DispatchKeepsLine
  <2> QED BY <2>2 DEF IsPublic, VersionsOf
<1> QED BY <1>1, <1>2, <1>3, PTL DEF Spec, NoRepeatedDispatch

-----------------------------------------------------------------------------
(* The loop implements ReleaseLine. *)

LEMMA InitImplements == Init => Line!Init
<1> SUFFICES ASSUME Init PROVE Line!Init
  OBVIOUS
<1>1. BadgeIsNewest /\ ReleasesAreTyped
  BY InitIsInLine, InitIsTyped DEF LineInv, TypedInv
<1>2. Line!Newest(public).v = badge
  BY <1>1, NewestIsOne, VersionsAreVersions DEF BadgeIsNewest, ReleasesAreTyped, IsNext
<1> QED BY <1>2 DEF Init, Line!Init

\* A publication whose decision still agrees with the releases is the step of
\* ReleaseLine that its version calls for.
LEMMA PublishImplements ==
  ASSUME TypedInv, (TypedInv /\ BadgeIsNewest)', NEW run \in runs, Publish(run),
         ContinuesLine(run.v, Builds(run.commit, run.v), public)
  PROVE  Line!Next
<1> DEFINE recipe == Builds(run.commit, run.v)
           v == run.v
<1>1. /\ v \in Versions /\ IsVersion(v)
      /\ v = [branch |-> v.branch, patch |-> v.patch, rev |-> v.rev]
      /\ v.branch \in Branches /\ v.patch \in Patches
      /\ recipe \in Identities
  <2>1. IsPublishRun(run, public)
    BY DEF TypedInv, RunsAreTyped
  <2> QED BY <2>1, VersionsAreVersions DEF IsPublishRun, IsNext, IsCommit, Builds, Identities, Versions
<1>2. ContinuesLine(v, recipe, public)
  OBVIOUS
<1>3. public' = public \cup {[v |-> v, recipe |-> recipe, draft |-> FALSE]}
  BY DEF Publish, Builds
<1> HIDE DEF v, recipe
<1>4. Line!Newest(public').v = badge'
  <2>1. \A r \in public' : IsVersion(r.v)
    BY VersionsAreVersions DEF TypedInv, ReleasesAreTyped, IsNext
  <2>2. badge' \in VersionsOf(public') /\ \A r \in public' : ~Above(r.v, badge')
    BY DEF BadgeIsNewest
  <2> QED BY <2>1, <2>2, NewestIsOne
<1>5. Line!Publish(v, recipe)
  BY <1>3, <1>4 DEF Line!Publish
<1>6. CASE v.rev = 0
  <2>1. \A r \in public : r.v.branch = v.branch => r.v.patch < v.patch
    BY <1>2, <1>6 DEF ContinuesLine
  <2>2. v = [branch |-> v.branch, patch |-> v.patch, rev |-> 0]
    BY <1>1, <1>6
  <2>3. Line!PublishPatch(v.branch)
    BY <1>1, <1>5, <2>1, <2>2 DEF Line!PublishPatch
  <2> QED BY <1>1, <2>3 DEF Line!Next
<1>7. CASE v.rev > 0
  <2>1. PICK r \in BranchHeads(public) : v = [r.v EXCEPT !.rev = @ + 1] /\ r.recipe # recipe
    BY <1>2, <1>7 DEF ContinuesLine
  <2>2. r \in Line!BranchHeads(public)
    BY <2>1 DEF BranchHeads, Published, Above, Line!BranchHeads, Line!Published, Line!Above
  <2>3. r.v.branch = v.branch
    <3>1. r.v \in Versions
      BY <2>1 DEF BranchHeads, Published, TypedInv, ReleasesAreTyped, IsNext
    <3> QED BY <2>1, <3>1, Successor
  <2>4. Line!PublishRebuild(v.branch)
    BY <1>1, <1>5, <2>1, <2>2, <2>3 DEF Line!PublishRebuild
  <2> QED BY <1>1, <2>4 DEF Line!Next
<1> QED BY <1>1, <1>6, <1>7 DEF IsVersion

\* Only a publication changes the releases or the badge.
LEMMA OnlyPublicationsCount ==
  ASSUME [Next]_vars, ~UNCHANGED <<public, badge>>
  PROVE  \E run \in runs : Publish(run)
BY DEF Next, Around, FeedMoves, MergeEdit, Schedule, DiscardDraft, RerunPublish, RerunWatcher,
       StartWatcher, WatcherStep, ReadInFlight, CaptureFeeds, Investigate, Coordinate,
       Checkout, NoRecovery, RecoverRecord, RecoveryRefused, RecoveryReplyLost,
       PrepareEvidence, RouteNothing, DispatchPublish, RecordEvidence, WatcherFails,
       PublishStep, Publication, StageDraft, ReadLatest, FileRecord, StartNextWatcher,
       FindPublic, Refused, RunFails, EndRun, vars, github

\* The loop keeps the promise of ReleaseLine, if nobody reruns a run: each publication
\* is a newer patch of its branch or one more revision of its newest release under
\* another recipe, and the Latest badge follows the newest release.
THEOREM LoopImplementsLine ==
  ASSUME MaxReruns = 0
  PROVE  Spec => ImplementsReleaseLine
<1>1. Init => UndisturbedInv /\ Line!Init
  BY InitIsUndisturbed, InitImplements
<1>2. UndisturbedInv /\ [Next]_vars => UndisturbedInv'
  BY UndisturbedIsInductive
<1>3. UndisturbedInv /\ UndisturbedInv' /\ [Next]_vars => [Line!Next]_<<public, badge>>
  BY PublishKeepsLine, PublishImplements, OnlyPublicationsCount DEF UndisturbedInv, LineInv
<1> QED BY <1>1, <1>2, <1>3, PTL DEF Spec, ImplementsReleaseLine, Line!Spec

-----------------------------------------------------------------------------
(* No rebuild goes back. *)

\* Identities are numbered in the order of the edits that made them.
IdentitiesAreInOrder ==
  \A e, f \in Edits, b \in Branches :
    Recipe[e][b] \in Int /\ (e <= f => Recipe[e][b] <= Recipe[f][b])

\* What was built by an edit was built by every later one.
LEMMA LaterBuildsMore ==
  ASSUME IdentitiesAreInOrder, TypedInv, NEW e \in Edits, NEW f \in Edits, e <= f, BuiltBy(e)
  PROVE  BuiltBy(f)
<1>1. \A r \in public : r.recipe \in Int /\ r.v.branch \in Branches
  <2>1. \A r \in public : r.recipe \in Identities /\ r.v \in Versions
    BY DEF TypedInv, ReleasesAreTyped
  <2>2. Identities \subseteq Int
    BY DEF Identities, IdentitiesAreInOrder
  <2> QED BY <2>1, <2>2 DEF Versions
<1>2. \A r \in public : r.recipe <= Recipe[f][r.v.branch]
  <2> SUFFICES ASSUME NEW r \in public PROVE r.recipe <= Recipe[f][r.v.branch]
    OBVIOUS
  <2>1. /\ r.recipe <= Recipe[e][r.v.branch] /\ Recipe[e][r.v.branch] <= Recipe[f][r.v.branch]
        /\ {Recipe[e][r.v.branch], Recipe[f][r.v.branch]} \subseteq Int
    BY <1>1 DEF BuiltBy, IdentitiesAreInOrder
  <2> QED BY <1>1, <2>1
<1>3. \A run \in runs : run.commit.edit \in Edits /\ run.commit.edit <= e
  BY DEF TypedInv, RunsAreTyped, IsPublishRun, IsCommit, BuiltBy
<1>4. \A run \in runs : run.commit.edit <= f
  BY <1>3, BoundsAreNaturals DEF Edits
<1> QED BY <1>2, <1>4 DEF BuiltBy

\* A step that publishes nothing, and begins no run and no base.
LEMMA OrderUntouched ==
  ASSUME OrderInv, UNCHANGED <<public, queue>>, main'.edit = main.edit,
         HasBase(watch') => HasBase(watch) /\ watch'.base = watch.base,
         \A new \in runs' : \E run \in runs :
           /\ new.v = run.v /\ new.commit = run.commit
           /\ new.phase \in {"queued", "staged", "publishing"} => run \in Unpublished
  PROVE  OrderInv'
<1>1. \A e : BuiltBy(e) => BuiltBy(e)'
  BY DEF OrderInv, BuiltBy
<1>2. \A new \in Unpublished' : \E run \in Unpublished :
        new.v = run.v /\ new.commit = run.commit
  BY DEF Unpublished
<1>3. \A new \in Unpublished' : \A r \in public :
        r.v.branch = new.v.branch => r.recipe <= Builds(new.commit, new.v)
  BY <1>2 DEF OrderInv, Builds
<1>4. RebuildsMoveOn'
  BY DEF OrderInv, RebuildsMoveOn
<1> QED BY <1>1, <1>3, <1>4 DEF OrderInv

\* A new watcher run works from the present main, later than all that is built.
LEMMA NewestBase ==
  ASSUME OrderInv, TypedInv, UNCHANGED <<public, main, watch>>,
         queue'.base = main, runs' \subseteq runs
  PROVE  OrderInv'
<1>1. \A e : BuiltBy(e) => BuiltBy(e)'
  BY DEF BuiltBy
<1>2. Unpublished' \subseteq Unpublished
  BY DEF Unpublished
<1>3. main.edit \in Nat
  BY BoundsAreNaturals DEF TypedInv, IsCommit, Edits
<1>4. RebuildsMoveOn'
  BY DEF OrderInv, RebuildsMoveOn
<1> QED BY <1>1, <1>2, <1>3, <1>4 DEF OrderInv

LEMMA AroundKeepsOrder ==
  ASSUME IdentitiesAreInOrder, UndisturbedInv, OrderInv, Around
  PROVE  OrderInv'
<1>1. \A s \in stopped : ~RerunPublish(s) /\ ~RerunWatcher(s)
  BY DEF UndisturbedInv, HeldInv, NothingIsRerun
<1>2. CASE \E b \in Branches : FeedMoves(b)
  BY <1>2, OrderUntouched DEF FeedMoves, github, Unpublished
<1>3. CASE \E d \in drafts : DiscardDraft(d)
  BY <1>3, OrderUntouched DEF DiscardDraft, Unpublished
<1>4. CASE Schedule
  BY <1>4, NewestBase DEF Schedule, UndisturbedInv, github, Idle
<1>5. CASE MergeEdit
  <2>1. /\ main'.edit = main.edit + 1 /\ main.edit \in Edits /\ main'.edit \in Edits
        /\ main.edit \in Nat
        /\ UNCHANGED <<public, queue, watch, runs>>
    BY <1>5, BoundsAreNaturals DEF MergeEdit, Merged, UndisturbedInv, TypedInv, IsCommit, Edits,
         github
  <2>2. BuiltBy(main'.edit)
    BY <2>1, LaterBuildsMore DEF OrderInv, UndisturbedInv
  <2>3. \A e : BuiltBy(e) => BuiltBy(e)'
    BY <2>1 DEF BuiltBy
  <2>4. /\ queue # None => queue.base.edit \in Nat
        /\ HasBase(watch) => watch.base.edit \in Nat
    <3>1. queue # None => queue.phase \in Investigating
      BY DEF UndisturbedInv, HeldInv, WatchersAreWatchers, Investigating
    <3> QED BY <3>1, BoundsAreNaturals DEF HasBase, UndisturbedInv, TypedInv, RunsAreTyped,
              IsQueued, IsWatchRun, IsCommit, Edits
  <2>5. RebuildsMoveOn' /\ Unpublished' = Unpublished
    BY <2>1 DEF OrderInv, RebuildsMoveOn, Unpublished
  <2> QED BY <2>1, <2>2, <2>3, <2>4, <2>5 DEF OrderInv
<1> QED BY <1>1, <1>2, <1>3, <1>4, <1>5 DEF Around

LEMMA DispatchKeepsOrder ==
  ASSUME UndisturbedInv, OrderInv, DispatchPublish
  PROVE  OrderInv'
<1> DEFINE new == [v |-> watch.plan.v, commit |-> watch.base, cites |-> watch.releases,
                   phase |-> "queued", latest |-> FALSE]
<1>1. /\ watch.plan.action \in PublishActions /\ watch.phase = "dispatch"
      /\ runs' = runs \cup {new}
      /\ UNCHANGED <<public, main, queue>> /\ watch' = Idle
  BY DispatchIsPublishRun DEF UndisturbedInv, DispatchPublish, EndWatcher, github
<1>2. /\ BuiltBy(watch.base.edit) /\ watch.base.edit <= main.edit
      /\ queue # None => watch.base.edit <= queue.base.edit
  BY <1>1 DEF OrderInv, HasBase, Coordinating
<1>3. new.commit = watch.base
  OBVIOUS
<1> HIDE DEF new
<1>4. \A e : BuiltBy(e) /\ watch.base.edit <= e => BuiltBy(e)'
  BY <1>1, <1>3 DEF BuiltBy
<1>5. \A run \in Unpublished' : run \in Unpublished \/ run = new
  BY <1>1 DEF Unpublished
<1>6. \A r \in public : r.v.branch = new.v.branch => r.recipe <= Builds(new.commit, new.v)
  BY <1>2, <1>3 DEF BuiltBy, Builds
<1>7. ~HasBase(watch') /\ RebuildsMoveOn'
  BY <1>1 DEF HasBase, Idle, Investigating, Coordinating, OrderInv, RebuildsMoveOn
<1> QED BY <1>1, <1>2, <1>4, <1>5, <1>6, <1>7 DEF OrderInv

LEMMA WatcherKeepsOrder ==
  ASSUME UndisturbedInv, OrderInv,
         StartWatcher \/ WatcherStep \/ Investigate(FALSE) \/ RecoveryReplyLost
           \/ WatcherFails
  PROVE  OrderInv'
<1>1. CASE StartWatcher
  <2>1. /\ watch' = queue /\ queue # None /\ queue' = None
        /\ UNCHANGED <<public, main, runs>>
    BY <1>1 DEF StartWatcher, github
  <2>2. \A e : BuiltBy(e) => BuiltBy(e)'
    BY <2>1 DEF BuiltBy
  <2>3. RebuildsMoveOn' /\ Unpublished' = Unpublished
    BY <2>1 DEF OrderInv, RebuildsMoveOn, Unpublished
  <2> QED BY <2>1, <2>2, <2>3 DEF OrderInv
<1>2. CASE DispatchPublish
  BY <1>2, DispatchKeepsOrder
<1>3. CASE ReadInFlight \/ CaptureFeeds
  <2>1. watch.phase \in Investigating /\ watch'.base = watch.base
    BY <1>3 DEF ReadInFlight, CaptureFeeds, Investigating, UndisturbedInv, TypedInv,
         RunsAreTyped, IsWatchRun, Idle
  <2> QED BY <1>3, <2>1, OrderUntouched DEF ReadInFlight, CaptureFeeds, HasBase, Unpublished,
            github
<1>4. CASE Investigate(TRUE) \/ Investigate(FALSE)
  <2>1. PICK sourcesHealthy \in BOOLEAN : Investigate(sourcesHealthy)
    BY <1>4
  <2> DEFINE w == [watch EXCEPT !.releases = public]
             decision == Decision(w, sourcesHealthy)
             plan == PlanOf(w, decision)
             next == [Retained(w, plan) EXCEPT
                        !.phase = "checkout", !.plan = plan, !.record = decision.record]
  <2>2. /\ watch.phase = "releases" /\ DOMAIN watch = DOMAIN Idle
        /\ watch' = Idle \/ watch' = next
        /\ UNCHANGED <<public, main, queue, runs>>
    BY <2>1 DEF Investigate, UndisturbedInv, TypedInv, RunsAreTyped, IsWatchRun, github
  <2> HIDE DEF plan, decision
  <2>3. /\ next.plan = plan /\ next.phase = "checkout"
        /\ plan.action \in PublishActions => next.base = watch.base
    BY <2>2 DEF Idle, Retained
  <2> HIDE DEF next
  <2>4. HasBase(watch') => HasBase(watch) /\ watch'.base = watch.base
    BY <2>2, <2>3 DEF HasBase, Idle, Investigating, Coordinating
  <2> QED BY <2>2, <2>4, OrderUntouched DEF Unpublished
<1>5. CASE Checkout \/ NoRecovery \/ RecoverRecord \/ RecoveryRefused
             \/ RecoveryReplyLost \/ PrepareEvidence
  <2>1. /\ watch.phase \in Coordinating /\ watch'.phase \in Coordinating
        /\ watch'.plan = watch.plan /\ watch'.base = watch.base
    BY <1>5 DEF Checkout, NoRecovery, RecoverRecord, RecoveryRefused, RecoveryReplyLost,
         PrepareEvidence, RecoveryIsDue, UndisturbedInv, TypedInv, RunsAreTyped, IsWatchRun,
         Idle, Coordinating
  <2>2. HasBase(watch') => HasBase(watch) /\ watch'.base = watch.base
    BY <2>1 DEF HasBase, Investigating, Coordinating
  <2>3. main'.edit = main.edit
    BY <1>5 DEF Checkout, NoRecovery, RecoverRecord, RecoveryRefused, RecoveryReplyLost,
         PrepareEvidence, WithRecord, Merged, UndisturbedInv, TypedInv, IsCommit
  <2>4. UNCHANGED <<public, queue, runs>>
    BY <1>5 DEF Checkout, NoRecovery, RecoverRecord, RecoveryRefused, RecoveryReplyLost,
         PrepareEvidence, github
  <2> QED BY <2>2, <2>3, <2>4, OrderUntouched DEF Unpublished
<1>6. CASE RouteNothing \/ RecordEvidence \/ WatcherFails
  <2>1. watch' = Idle /\ UNCHANGED <<public, queue, runs>>
    BY <1>6 DEF RouteNothing, RecordEvidence, WatcherFails, EndWatcher, github
  <2>2. ~HasBase(watch')
    BY <2>1 DEF HasBase, Idle, Investigating, Coordinating
  <2>3. main'.edit = main.edit
    BY <1>6 DEF RouteNothing, RecordEvidence, WatcherFails, UndisturbedInv, TypedInv, IsCommit
  <2> QED BY <2>1, <2>2, <2>3, OrderUntouched DEF Unpublished
<1> QED BY <1>1, <1>2, <1>3, <1>4, <1>5, <1>6 DEF WatcherStep, Coordinate

\* The new release is built later than the releases of its branch, and the one it
\* continues has another recipe.
LEMMA ReleaseMovesOn ==
  ASSUME IdentitiesAreInOrder, UndisturbedInv, OrderInv, NEW run \in runs, Publish(run)
  PROVE  RebuildsMoveOn'
<1> DEFINE recipe == Builds(run.commit, run.v)
           release == [v |-> run.v, recipe |-> recipe, draft |-> FALSE]
<1>1. public' = public \cup {release} /\ release.v = run.v /\ release.recipe = recipe
  BY DEF Publish, Builds
<1>2. /\ run.v \in Versions /\ recipe \in Int
      /\ \A r \in public : r.v \in Versions /\ r.recipe \in Int /\ r.draft = FALSE
  <2>1. Identities \subseteq Int
    BY DEF Identities, IdentitiesAreInOrder
  <2>2. \A r \in public : r.v \in Versions /\ r.recipe \in Identities /\ r.draft = FALSE
    BY DEF UndisturbedInv, TypedInv, ReleasesAreTyped
  <2>3. run.v \in Versions /\ recipe \in Identities
    BY DEF UndisturbedInv, TypedInv, RunsAreTyped, IsPublishRun, IsNext, IsCommit, Builds,
         Identities, Versions
  <2> QED BY <2>1, <2>2, <2>3
<1>3. \A r \in public : r.v.branch = run.v.branch => r.recipe <= recipe
  BY DEF OrderInv, Unpublished, Publish
<1>4. ContinuesLine(run.v, recipe, public)
  BY PublishKeepsLine
<1>5. \A u \in Versions : /\ u.branch \in Nat /\ u.patch \in Nat /\ u.rev \in Nat
                          /\ u = [branch |-> u.branch, patch |-> u.patch, rev |-> u.rev]
  <2>1. Branches \subseteq Nat /\ Patches \subseteq Nat
    BY BranchesAreOrdered, BoundsAreNaturals DEF Patches
  <2> SUFFICES ASSUME NEW u \in Versions
               PROVE  /\ u.branch \in Nat /\ u.patch \in Nat /\ u.rev \in Nat
                      /\ u = [branch |-> u.branch, patch |-> u.patch, rev |-> u.rev]
    OBVIOUS
  <2>2. u.branch \in Branches /\ u.patch \in Patches /\ u.rev \in Nat
    BY DEF Versions
  <2>3. u = [branch |-> u.branch, patch |-> u.patch, rev |-> u.rev]
    BY DEF Versions
  <2> QED BY <2>1, <2>2, <2>3
<1> HIDE DEF release, recipe
<1>6. ASSUME NEW r \in public, r.v.branch = run.v.branch, r.v.patch = run.v.patch
      PROVE  r.v.rev < run.v.rev /\ r.recipe < recipe
  <2>1. run.v.rev > 0
    BY <1>2, <1>4, <1>5, <1>6 DEF ContinuesLine
  <2>2. PICK head \in BranchHeads(public) :
          run.v = [head.v EXCEPT !.rev = @ + 1] /\ head.recipe # recipe
    BY <1>4, <2>1 DEF ContinuesLine
  <2>3. /\ head \in public
        /\ \A s \in public : s.v.branch = head.v.branch => ~Above(s.v, head.v)
    BY <1>2, <2>2 DEF BranchHeads, Published
  <2>4. /\ run.v.branch = head.v.branch /\ run.v.patch = head.v.patch
        /\ run.v.rev = head.v.rev + 1
    BY <1>2, <2>2, <2>3, Successor
  <2>5. head.recipe < recipe
    BY <1>2, <1>3, <2>2, <2>3, <2>4
  <2>6. r.v.rev <= head.v.rev
    BY <1>2, <1>5, <1>6, <2>3, <2>4 DEF Above
  <2>7. CASE r.v.rev = head.v.rev
    <3>1. r.v = head.v
      BY <1>2, <1>5, <1>6, <2>3, <2>4, <2>7
    <3>2. r = head
      BY <2>3, <3>1 DEF UndisturbedInv, OnceInv, PublishedOnce
    <3> QED BY <1>2, <1>5, <2>3, <2>4, <2>5, <3>2
  <2>8. CASE r.v.rev < head.v.rev
    <3>1. r.recipe < head.recipe
      BY <1>6, <2>3, <2>4, <2>8 DEF OrderInv, RebuildsMoveOn
    <3> QED BY <1>2, <1>5, <2>3, <2>4, <2>5, <2>8, <3>1
  <2> QED BY <1>2, <1>5, <2>3, <2>6, <2>7, <2>8
<1> SUFFICES ASSUME NEW r \in public', NEW s \in public',
                    r.v.branch = s.v.branch, r.v.patch = s.v.patch, r.v.rev < s.v.rev
             PROVE  r.recipe < s.recipe
  BY DEF RebuildsMoveOn
<1>7. CASE r \in public /\ s \in public
  BY <1>7 DEF OrderInv, RebuildsMoveOn
<1>8. CASE r \in public /\ s = release
  BY <1>1, <1>6, <1>8
<1>9. CASE r = release /\ s \in public
  <2>1. s.v.rev < r.v.rev
    BY <1>1, <1>6, <1>9
  <2> QED BY <1>1, <1>2, <1>5, <1>9, <2>1
<1>10. CASE r = release /\ s = release
  BY <1>1, <1>2, <1>5, <1>10
<1> QED BY <1>1, <1>7, <1>8, <1>9, <1>10

LEMMA PublishKeepsOrder ==
  ASSUME IdentitiesAreInOrder, UndisturbedInv, OrderInv, NEW run \in runs, Publish(run)
  PROVE  OrderInv'
<1> DEFINE release == [v |-> run.v, recipe |-> Builds(run.commit, run.v), draft |-> FALSE]
           next == [run EXCEPT !.phase = "public"]
<1>1. /\ public' = public \cup {release}
      /\ runs' = (runs \ {run}) \cup {next}
      /\ UNCHANGED <<main, queue, watch>>
  BY DEF Publish, Step, Builds
<1>2. next.commit = run.commit /\ next.phase = "public" /\ IsPublishRun(run, public)
  BY DEF UndisturbedInv, OnceInv, RunsAreRuns, IsRun, TypedInv, RunsAreTyped
<1>3. release.v = run.v /\ release.recipe = Builds(run.commit, run.v)
  OBVIOUS
<1> HIDE DEF release, next
<1>4. \A e \in Edits : BuiltBy(e) => BuiltBy(e)'
  <2> SUFFICES ASSUME NEW e \in Edits, BuiltBy(e) PROVE BuiltBy(e)'
    OBVIOUS
  <2>1. Builds(run.commit, run.v) <= Recipe[e][run.v.branch]
    BY <1>2 DEF IsPublishRun, IsNext, IsCommit, Versions, BuiltBy, Builds, IdentitiesAreInOrder
  <2> QED BY <1>1, <1>2, <1>3, <2>1 DEF BuiltBy
<1>5. Unpublished' = {}
  <2>1. \A other \in runs \ {run} : other.phase = "recorded"
    BY OthersAreRecorded DEF UndisturbedInv, Publish
  <2> QED BY <1>1, <1>2, <2>1 DEF Unpublished
<1>6. /\ main.edit \in Edits
      /\ queue # None => queue.base.edit \in Edits
      /\ HasBase(watch) => watch.base.edit \in Edits
  <2>1. queue # None => queue.phase \in Investigating
    BY DEF UndisturbedInv, HeldInv, WatchersAreWatchers, Investigating
  <2> QED BY <2>1 DEF HasBase, UndisturbedInv, TypedInv, RunsAreTyped, IsQueued, IsWatchRun,
            IsCommit
<1>7. RebuildsMoveOn'
  BY ReleaseMovesOn
<1> QED BY <1>1, <1>4, <1>5, <1>6, <1>7 DEF OrderInv

LEMMA PublicationKeepsOrder ==
  ASSUME IdentitiesAreInOrder, UndisturbedInv, OrderInv,
         NEW run \in runs, Publication(run) \/ RunFails(run)
  PROVE  OrderInv'
<1>1. IsRun(run)
  BY DEF UndisturbedInv, OnceInv, RunsAreRuns
<1>2. CASE Publish(run)
  BY <1>2, PublishKeepsOrder
<1>3. CASE StartNextWatcher(run)
  BY <1>3, NewestBase DEF StartNextWatcher, UndisturbedInv, github, Idle
<1>4. CASE Refused(run) \/ RunFails(run)
  <2>1. runs' \subseteq runs /\ UNCHANGED <<public, main, queue, watch>>
    BY <1>4 DEF Refused, RunFails, EndRun, github
  <2> QED BY <2>1, OrderUntouched DEF Unpublished
<1>5. CASE StageDraft(run) \/ ReadLatest(run) \/ FileRecord(run) \/ FindPublic(run)
  <2>1. /\ UNCHANGED <<public, queue, watch>> /\ main'.edit = main.edit
    BY <1>5 DEF StageDraft, ReadLatest, FileRecord, FindPublic, WithRecord, Merged, github,
         UndisturbedInv, TypedInv, IsCommit
  <2>2. PICK next : /\ runs' = (runs \ {run}) \cup {next}
                    /\ next.v = run.v /\ next.commit = run.commit
                    /\ next.phase \in {"queued", "staged", "publishing"} => run \in Unpublished
    <3>1. CASE ReadLatest(run)
      <4> DEFINE judged == WithLatest(run, ReleaseIsNewest(run.v, Listing))
                 next == [judged EXCEPT !.phase = "publishing"]
      <4>1. IsRun(judged) /\ judged.v = run.v /\ judged.commit = run.commit
        BY <1>1 DEF WithLatest, IsRun
      <4> HIDE DEF judged
      <4>2. next.v = run.v /\ next.commit = run.commit
        BY <4>1 DEF IsRun
      <4> QED BY <3>1, <4>2 DEF ReadLatest, Unpublished, judged
    <3>2. ASSUME NEW phase \in {"staged", "public", "recorded"}, runs' = Step(run, phase),
                 phase = "staged" => run \in Unpublished
          PROVE  LET next == [run EXCEPT !.phase = phase] IN
                 /\ runs' = (runs \ {run}) \cup {next}
                 /\ next.v = run.v /\ next.commit = run.commit
                 /\ next.phase \in {"queued", "staged", "publishing"} => run \in Unpublished
      BY <1>1, <3>2 DEF IsRun, Step
    <3>3. CASE StageDraft(run)
      BY <3>2, <3>3 DEF StageDraft, Unpublished
    <3>4. CASE FileRecord(run) \/ FindPublic(run)
      BY <3>2, <3>4 DEF FileRecord, FindPublic
    <3> QED BY <1>5, <3>1, <3>3, <3>4
  <2> QED BY <2>1, <2>2, OrderUntouched DEF Unpublished
<1> QED BY <1>2, <1>3, <1>4, <1>5 DEF Publication

\* Where nobody reruns a run, no rebuild goes back to an older recipe: the watcher run
\* that selects it starts from a commit as new as all that was built before.
THEOREM RebuildsGoForward ==
  ASSUME MaxReruns = 0, IdentitiesAreInOrder
  PROVE  Spec => []RebuildsMoveOn
<1>1. Init => UndisturbedInv /\ OrderInv
  <2> SUFFICES ASSUME Init PROVE UndisturbedInv /\ OrderInv
    OBVIOUS
  <2>1. /\ runs = {} /\ queue = None /\ main.edit = 0
        /\ ~HasBase(watch)
    BY DEF Init, Idle, HasBase, Investigating, Coordinating
  <2>2. \A r \in public : r.v.rev = 0 /\ r.v.branch \in Branches /\ r.recipe = Recipe[0][r.v.branch]
    BY DEF Init, InitialReleases, Initially
  <2>3. BuiltBy(main.edit)
    <3>1. 0 \in Edits
      BY BoundsAreNaturals DEF Edits
    <3> QED BY <2>1, <2>2, <3>1 DEF BuiltBy, IdentitiesAreInOrder
  <2>4. RebuildsMoveOn
    BY <2>2 DEF RebuildsMoveOn
  <2> QED BY <2>1, <2>3, <2>4, InitIsUndisturbed DEF OrderInv, Unpublished
<1>2. UndisturbedInv /\ OrderInv /\ [Next]_vars => UndisturbedInv' /\ OrderInv'
  <2> SUFFICES ASSUME UndisturbedInv, OrderInv, [Next]_vars PROVE OrderInv'
    BY UndisturbedIsInductive
  <2>1. CASE Around
    BY <2>1, AroundKeepsOrder
  <2>2. CASE StartWatcher \/ WatcherStep \/ Investigate(FALSE) \/ RecoveryReplyLost
               \/ WatcherFails
    BY <2>2, WatcherKeepsOrder
  <2>3. CASE PublishStep \/ \E run \in runs : RunFails(run)
    BY <2>3, PublicationKeepsOrder DEF PublishStep
  <2>4. CASE UNCHANGED vars
    BY <2>4, OrderUntouched DEF vars, Unpublished
  <2> QED BY <2>1, <2>2, <2>3, <2>4 DEF Next
<1>3. OrderInv => RebuildsMoveOn
  BY DEF OrderInv
<1> QED BY <1>1, <1>2, <1>3, PTL DEF Spec

-----------------------------------------------------------------------------
(* What is left of the line where runs are rerun. *)

\* What a version rests on, and what of it the publish job verifies anew: its branch's
\* feed has offered the patch, and a rebuild continues the line it cites.
Rests(v, commit, cites, offers) ==
  /\ v.patch <= offers[v.branch]
  /\ v.rev > 0 => ContinuesLine(v, Builds(commit, v), cites)

PlanRests(w, offers) ==
  w.phase \in Coordinating /\ w.plan.action \in PublishActions
    => Rests(w.plan.v, w.base, w.releases, offers)

RunRests(run, offers) == Rests(run.v, run.commit, run.cites, offers)

StoppedRests(s, offers) ==
  /\ s.kind = "watcher" => PlanRests(s.run, offers)
  /\ s.kind = "publish" => RunRests(s.run, offers)

RestInv ==
  /\ \A r \in public : r.v.patch <= feed[r.v.branch]
  /\ watch.phase = "releases" => \A b \in Branches : watch.feed[b] <= feed[b]
  /\ PlanRests(watch, feed)
  /\ queue # None => PlanRests(queue, feed)
  /\ \A run \in runs : RunRests(run, feed)
  /\ \A s \in stopped : StoppedRests(s, feed)

\* A feed only moves on, and what rested on it still does.
LEMMA OffersGrow ==
  ASSUME NEW offers \in [Branches -> Patches], NEW more \in [Branches -> Patches],
         \A b \in Branches : offers[b] <= more[b], NEW releases
  PROVE  /\ \A v \in Versions : v.patch <= offers[v.branch] => v.patch <= more[v.branch]
         /\ \A w : IsWatchRun(w, releases) /\ PlanRests(w, offers) => PlanRests(w, more)
         /\ \A run : IsPublishRun(run, releases) /\ RunRests(run, offers) => RunRests(run, more)
         /\ \A s : IsStopped(s, releases) /\ StoppedRests(s, offers) => StoppedRests(s, more)
<1>1. \A v \in Versions : v.patch <= offers[v.branch] => v.patch <= more[v.branch]
  <2> SUFFICES ASSUME NEW v \in Versions, v.patch <= offers[v.branch]
               PROVE  v.patch <= more[v.branch]
    OBVIOUS
  <2>1. v.branch \in Branches /\ v.patch \in Nat
    BY VersionsAreVersions DEF Versions, IsVersion
  <2>2. offers[v.branch] \in Nat /\ more[v.branch] \in Nat
    BY <2>1, BoundsAreNaturals DEF Patches
  <2>3. offers[v.branch] <= more[v.branch]
    BY <2>1
  <2> QED BY <2>1, <2>2, <2>3
<1>2. \A v \in Versions : \A commit, cites :
        Rests(v, commit, cites, offers) => Rests(v, commit, cites, more)
  BY <1>1 DEF Rests
<1>3. \A w : IsWatchRun(w, releases) /\ PlanRests(w, offers) => PlanRests(w, more)
  BY <1>2 DEF PlanRests, IsWatchRun, IsNext
<1>4. \A run : IsPublishRun(run, releases) /\ RunRests(run, offers) => RunRests(run, more)
  BY <1>2 DEF RunRests, IsPublishRun, IsNext
<1>5. \A s : IsStopped(s, releases) /\ StoppedRests(s, offers) => StoppedRests(s, more)
  BY <1>3, <1>4 DEF StoppedRests, IsStopped, IsQueued
<1> QED BY <1>1, <1>3, <1>4, <1>5

\* A step that publishes nothing keeps the invariant when what it leaves rests.
LEMMA RestStep ==
  ASSUME RestInv, UNCHANGED <<feed, public>>,
         watch'.phase = "releases" => \A b \in Branches : watch'.feed[b] <= feed[b],
         PlanRests(watch', feed),
         queue' # None => PlanRests(queue', feed),
         \A run \in runs' : RunRests(run, feed),
         \A s \in stopped' : StoppedRests(s, feed)
  PROVE  RestInv'
BY DEF RestInv

LEMMA InitIsAtRest == Init => RestInv
<1> SUFFICES ASSUME Init PROVE RestInv
  OBVIOUS
<1>1. \A r \in public : r.v.patch <= feed[r.v.branch]
  <2> SUFFICES ASSUME NEW r \in public PROVE r.v.patch <= feed[r.v.branch]
    OBVIOUS
  <2>1. r.v \in VersionsOf(public)
    BY DEF VersionsOf
  <2>2. PICK b \in Branches : r.v = Initially[b]
    BY <2>1, InitialLine
  <2> QED BY <2>2 DEF Init, Initially
<1> QED BY <1>1 DEF Init, RestInv, Idle, PlanRests, Coordinating

\* A run that starts anew has no plan.
LEMMA NewRunRests ==
  ASSUME NEW base, NEW offers
  PROVE  /\ PlanRests(Idle, offers) /\ Idle.phase = "idle"
         /\ PlanRests([Idle EXCEPT !.phase = "start", !.base = base], offers)
BY DEF PlanRests, Idle, Coordinating

LEMMA LeavesRest ==
  ASSUME TypedInv, RestInv, watch.phase # "idle", NEW failed
  PROVE  \A s \in Leaves(failed) : StoppedRests(s, feed)
<1>1. IsWatchRun(watch, public) /\ PlanRests(watch, feed)
  BY DEF TypedInv, RunsAreTyped, RestInv
<1>2. PlanRests(Resumption(watch), feed)
  <2>1. CASE watch.phase \in Investigating
    BY <2>1, NewRunRests DEF Resumption, Investigating
  <2>2. CASE watch.phase \in Coordinating
    <3>1. Resumption(watch) = [watch EXCEPT !.phase = "checkout", !.tip = None,
                                 !.merged = FALSE, !.repairFailed = FALSE,
                                 !.evidenceRecorded = FALSE]
      BY <2>2 DEF Resumption, Coordinating
    <3> QED BY <1>1, <2>2, <3>1 DEF PlanRests, IsWatchRun, Idle, Coordinating
  <2> QED BY <1>1, <2>1, <2>2 DEF IsWatchRun
<1>3. \A s \in Leaves(failed) : s = [kind |-> "watcher", run |-> Resumption(watch)]
  BY DEF Leaves, MayRerun
<1> QED BY <1>2, <1>3 DEF StoppedRests

LEMMA InvestigateKeepsRest ==
  ASSUME TypedInv, RestInv, NEW sourcesHealthy \in BOOLEAN, Investigate(sourcesHealthy)
  PROVE  RestInv'
<1> DEFINE w == [watch EXCEPT !.releases = public]
           decision == Decision(w, sourcesHealthy)
           plan == PlanOf(w, decision)
           next == [Retained(w, plan) EXCEPT
                      !.phase = "checkout", !.plan = plan, !.record = decision.record]
<1>1. /\ watch.phase = "releases" /\ IsWatchRun(watch, public)
      /\ watch' = Idle \/ watch' = next
      /\ UNCHANGED <<feed, public, queue, runs, stopped>>
  BY DEF Investigate, TypedInv, RunsAreTyped, github
<1>2. /\ plan.action \in PublishActions =>
           /\ plan.v \in Versions
           /\ ContinuesLine(plan.v, Builds(watch.base, plan.v), public)
      /\ plan.action = "new_patch" =>
           \E b \in PatchDue(watch.feed, public, watch.base.records) :
             plan.v = [branch |-> b, patch |-> watch.feed[b], rev |-> 0]
      /\ plan.action = "recipe_rebuild" =>
           \E r \in DueForRebuild(public, Recipe[watch.base.edit]) :
             plan.v = [r.v EXCEPT !.rev = @ + 1]
      /\ plan.action \in {"none", "blocked", "no_change", "new_patch", "recipe_rebuild"}
  BY <1>1, Selection, SelectionContinues DEF IsNext
<1> HIDE DEF plan, decision
<1>3. /\ next.phase = "checkout" /\ next.plan = plan
      /\ plan.action \in PublishActions => next.base = watch.base
      /\ plan.action = "recipe_rebuild" => next.releases = public
  BY <1>1 DEF IsWatchRun, Idle, Retained
<1> HIDE DEF next
<1>4. plan.action \in PublishActions => plan.v.patch <= feed[plan.v.branch]
  <2>1. CASE plan.action = "new_patch"
    <3>1. PICK b \in PatchDue(watch.feed, public, watch.base.records) :
                 plan.v = [branch |-> b, patch |-> watch.feed[b], rev |-> 0]
      BY <1>2, <2>1
    <3>2. b \in Branches
      BY <1>1, <3>1 DEF PatchDue, IsWatchRun
    <3>3. watch.feed[b] <= feed[b]
      BY <1>1, <3>2 DEF RestInv
    <3> QED BY <3>1, <3>3
  <2>2. CASE plan.action = "recipe_rebuild"
    <3>1. PICK r \in DueForRebuild(public, Recipe[watch.base.edit]) :
                 plan.v = [r.v EXCEPT !.rev = @ + 1]
      BY <1>2, <2>2
    <3>2. r \in public /\ r.v \in Versions
      BY <3>1 DEF DueForRebuild, BranchHeads, Published, TypedInv, ReleasesAreTyped, IsNext
    <3>3. plan.v.branch = r.v.branch /\ plan.v.patch = r.v.patch
      BY <3>1, <3>2, Successor
    <3> QED BY <3>2, <3>3 DEF RestInv
  <2> QED BY <1>2, <2>1, <2>2 DEF PublishActions
<1>5. PlanRests(next, feed)
  <2> SUFFICES ASSUME plan.action \in PublishActions
               PROVE  Rests(plan.v, watch.base, next.releases, feed)
    BY <1>3 DEF PlanRests
  <2>1. CASE plan.action = "new_patch"
    <3>1. PICK b \in PatchDue(watch.feed, public, watch.base.records) :
                 plan.v = [branch |-> b, patch |-> watch.feed[b], rev |-> 0]
      BY <1>2, <2>1
    <3>2. ~(plan.v.rev > 0)
      BY <3>1
    <3> QED BY <1>4, <2>1, <3>2 DEF Rests, PublishActions
  <2>2. CASE plan.action = "recipe_rebuild"
    BY <1>2, <1>3, <1>4, <2>2 DEF Rests
  <2> QED BY <1>2, <2>1, <2>2 DEF PublishActions
<1>6. PlanRests(watch', feed) /\ watch'.phase # "releases"
  BY <1>1, <1>3, <1>5, NewRunRests
<1> QED BY <1>1, <1>6, RestStep DEF RestInv

LEMMA WatcherKeepsRest ==
  ASSUME TypedInv, RestInv,
         StartWatcher \/ WatcherStep \/ Investigate(FALSE) \/ RecoveryReplyLost
           \/ WatcherFails
  PROVE  RestInv'
<1>1. CASE StartWatcher
  <2>1. watch' = queue /\ queue # None /\ queue' = None
        /\ UNCHANGED <<feed, public, runs, stopped>>
    BY <1>1 DEF StartWatcher, github
  <2>2. queue.phase # "releases"
    BY <2>1 DEF TypedInv, RunsAreTyped, IsQueued
  <2> QED BY <2>1, <2>2, RestStep DEF RestInv
<1>2. CASE ReadInFlight \/ CaptureFeeds
  <2>1. /\ watch'.phase \in {"feeds", "releases"}
        /\ watch'.phase = "releases" => watch'.feed = feed
    BY <1>2 DEF ReadInFlight, CaptureFeeds, TypedInv, RunsAreTyped, IsWatchRun, Idle
  <2>2. PlanRests(watch', feed)
    BY <2>1 DEF PlanRests, Coordinating
  <2>3. \A b \in Branches : feed[b] <= feed[b]
    BY BoundsAreNaturals DEF TypedInv, Patches
  <2> QED BY <1>2, <2>1, <2>2, <2>3, RestStep DEF ReadInFlight, CaptureFeeds, RestInv, github
<1>3. CASE Investigate(TRUE) \/ Investigate(FALSE)
  BY <1>3, InvestigateKeepsRest
<1>4. CASE Checkout \/ NoRecovery \/ RecoverRecord \/ RecoveryRefused
             \/ RecoveryReplyLost \/ PrepareEvidence
  <2>1. /\ watch.phase \in Coordinating /\ watch'.phase # "releases"
        /\ watch'.plan = watch.plan /\ watch'.base = watch.base
        /\ watch'.releases = watch.releases
    BY <1>4 DEF Checkout, NoRecovery, RecoverRecord, RecoveryRefused, RecoveryReplyLost,
         PrepareEvidence, RecoveryIsDue, TypedInv, RunsAreTyped, IsWatchRun, Idle, Coordinating
  <2>2. UNCHANGED <<feed, public, queue, runs, stopped>>
    BY <1>4 DEF Checkout, NoRecovery, RecoverRecord, RecoveryRefused, RecoveryReplyLost,
         PrepareEvidence, github
  <2>3. PlanRests(watch', feed)
    BY <2>1 DEF PlanRests, RestInv
  <2> QED BY <2>1, <2>2, <2>3, RestStep DEF RestInv
<1>5. CASE RouteNothing \/ RecordEvidence \/ WatcherFails \/ DispatchPublish
  <2>1. PICK failed : stopped' = stopped \cup Leaves(failed)
    BY <1>5 DEF RouteNothing, DispatchPublish, RecordEvidence, WatcherFails, EndWatcher
  <2>2. /\ watch' = Idle /\ watch.phase # "idle"
        /\ UNCHANGED <<feed, public, queue>>
    BY <1>5 DEF RouteNothing, DispatchPublish, RecordEvidence, WatcherFails, EndWatcher, github
  <2>3. \A s \in stopped' : StoppedRests(s, feed)
    BY <2>1, <2>2, LeavesRest DEF RestInv
  <2>4. \A run \in runs' : RunRests(run, feed)
    <3>1. CASE UNCHANGED runs
      BY <3>1 DEF RestInv
    <3>2. CASE DispatchPublish
      <4> DEFINE run == [v |-> watch.plan.v, commit |-> watch.base, cites |-> watch.releases,
                         phase |-> "queued", latest |-> FALSE]
      <4>1. watch.plan.action \in PublishActions /\ runs' = runs \cup {run}
        BY <3>2, DispatchIsPublishRun
      <4>2. Rests(watch.plan.v, watch.base, watch.releases, feed)
        BY <3>2, <4>1 DEF DispatchPublish, RestInv, PlanRests, Coordinating
      <4>3. RunRests(run, feed)
        BY <4>2 DEF RunRests
      <4> HIDE DEF run
      <4> QED BY <4>1, <4>3 DEF RestInv
    <3> QED BY <1>5, <3>1, <3>2 DEF RouteNothing, RecordEvidence, WatcherFails
  <2>5. PlanRests(watch', feed) /\ watch'.phase # "releases"
    BY <2>2, NewRunRests
  <2> QED BY <2>2, <2>3, <2>4, <2>5, RestStep DEF RestInv
<1> QED BY <1>1, <1>2, <1>3, <1>4, <1>5 DEF WatcherStep, Coordinate

LEMMA AroundKeepsRest ==
  ASSUME TypedInv, RestInv, Around
  PROVE  RestInv'
<1>1. CASE \E b \in Branches : FeedMoves(b)
  <2>1. PICK b \in Branches : FeedMoves(b)
    BY <1>1
  <2>2. UNCHANGED <<public, queue, watch, runs, stopped>>
    BY <2>1 DEF FeedMoves, github
  <2>3. /\ feed \in [Branches -> Patches] /\ feed' \in [Branches -> Patches]
        /\ \A c \in Branches : feed[c] \in Nat /\ feed'[c] \in Nat /\ feed[c] <= feed'[c]
    <3>1. feed \in [Branches -> Patches] /\ feed' \in [Branches -> Patches]
      BY <1>1, AroundKeepsTyped DEF TypedInv
    <3>2. \A c \in Branches : feed[c] \in Nat /\ feed'[c] \in Nat
      BY <3>1, BoundsAreNaturals DEF Patches
    <3>3. feed' = [feed EXCEPT ![b] = @ + 1]
      BY <2>1 DEF FeedMoves
    <3> QED BY <3>1, <3>2, <3>3
  <2>4. \A r \in public : r.v.patch <= feed'[r.v.branch]
    BY <2>3, OffersGrow DEF RestInv, TypedInv, ReleasesAreTyped, IsNext
  <2>5. watch.phase = "releases" => \A c \in Branches : watch.feed[c] <= feed'[c]
    <3> SUFFICES ASSUME watch.phase = "releases", NEW c \in Branches
                 PROVE  watch.feed[c] <= feed'[c]
      OBVIOUS
    <3>1. watch.feed[c] \in Nat
      BY BoundsAreNaturals DEF TypedInv, RunsAreTyped, IsWatchRun, Patches
    <3>2. watch.feed[c] <= feed[c]
      BY DEF RestInv
    <3> QED BY <2>3, <3>1, <3>2
  <2>6. /\ PlanRests(watch, feed') /\ (queue # None => PlanRests(queue, feed'))
        /\ \A run \in runs : RunRests(run, feed')
        /\ \A s \in stopped : StoppedRests(s, feed')
    BY <2>3, OffersGrow DEF RestInv, TypedInv, RunsAreTyped, IsQueued
  <2> QED BY <2>2, <2>4, <2>5, <2>6 DEF RestInv
<1>2. CASE MergeEdit \/ \E d \in drafts : DiscardDraft(d)
  BY <1>2, RestStep DEF MergeEdit, DiscardDraft, RestInv, github
<1>3. CASE Schedule
  BY <1>3, NewRunRests, RestStep DEF Schedule, RestInv, github
<1>4. CASE \E s \in stopped : RerunPublish(s)
  <2>1. PICK s \in stopped : RerunPublish(s)
    BY <1>4
  <2>2. stopped' \subseteq stopped /\ RunRests(s.run, feed)
    BY <2>1 DEF RerunPublish, StillStopped, RestInv, StoppedRests
  <2> QED BY <2>1, <2>2, RestStep DEF RerunPublish, RestInv, github
<1>5. CASE \E s \in stopped : RerunWatcher(s)
  <2>1. PICK s \in stopped : RerunWatcher(s)
    BY <1>5
  <2>2. stopped' \subseteq stopped /\ PlanRests(s.run, feed)
    BY <2>1 DEF RerunWatcher, StillStopped, RestInv, StoppedRests
  <2> QED BY <2>1, <2>2, RestStep DEF RerunWatcher, RestInv, github
<1> QED BY <1>1, <1>2, <1>3, <1>4, <1>5 DEF Around

\* A publish run keeps what it rests on, wherever it goes.
LEMMA MovedRunRests ==
  ASSUME NEW run, NEW offers, RunRests(run, offers), NEW next,
         next.v = run.v, next.commit = run.commit, next.cites = run.cites
  PROVE  RunRests(next, offers)
BY DEF RunRests

\* The run that ReadLatest leaves, field by field.
LEMMA JudgedRun ==
  ASSUME NEW run, IsRun(run), NEW latest, NEW phase
  PROVE  [WithLatest(run, latest) EXCEPT !.phase = phase] =
           [v |-> run.v, commit |-> run.commit, cites |-> run.cites,
            phase |-> phase, latest |-> latest]
<1>1. WithLatest(run, latest) =
        [v |-> run.v, commit |-> run.commit, cites |-> run.cites,
         phase |-> run.phase, latest |-> latest]
  BY DEF IsRun, WithLatest
<1> QED BY <1>1

LEMMA MovedRun ==
  ASSUME NEW run, IsRun(run), NEW phase
  PROVE  [run EXCEPT !.phase = phase] =
           [v |-> run.v, commit |-> run.commit, cites |-> run.cites,
            phase |-> phase, latest |-> run.latest]
BY DEF IsRun

LEMMA PublicationKeepsRest ==
  ASSUME TypedInv, RestInv, NEW run \in runs, Publication(run) \/ RunFails(run)
  PROVE  RestInv'
<1>1. /\ IsPublishRun(run, public) /\ IsRun(run) /\ run.v \in Versions
      /\ RunRests(run, feed) /\ UNCHANGED <<feed, watch>>
  BY DEF TypedInv, RunsAreTyped, IsPublishRun, IsNext, RestInv, Publication, StageDraft,
       ReadLatest, Publish, FileRecord, StartNextWatcher, FindPublic, Refused, RunFails, EndRun
<1>2. \A other \in runs' : RunRests(other, feed)
  <2>1. \A phase, latest : RunRests([v |-> run.v, commit |-> run.commit, cites |-> run.cites,
                                     phase |-> phase, latest |-> latest], feed)
    BY <1>1, MovedRunRests
  <2>2. ASSUME NEW phase, runs' = Step(run, phase)
        PROVE  \A other \in runs' : RunRests(other, feed)
    <3> DEFINE next == [v |-> run.v, commit |-> run.commit, cites |-> run.cites,
                        phase |-> phase, latest |-> run.latest]
    <3>1. runs' = (runs \ {run}) \cup {next}
      BY <1>1, <2>2, MovedRun DEF Step
    <3>2. RunRests(next, feed)
      BY <2>1
    <3> HIDE DEF next
    <3> QED BY <3>1, <3>2 DEF RestInv
  <2>3. CASE ReadLatest(run)
    <3> DEFINE latest == ReleaseIsNewest(run.v, Listing)
    <3>1. runs' = (runs \ {run}) \cup {[WithLatest(run, latest) EXCEPT !.phase = "publishing"]}
      BY <2>3 DEF ReadLatest
    <3> HIDE DEF latest
    <3>2. runs' = (runs \ {run}) \cup
            {[v |-> run.v, commit |-> run.commit, cites |-> run.cites,
              phase |-> "publishing", latest |-> latest]}
      BY <1>1, <3>1, JudgedRun
    <3> QED BY <2>1, <3>2 DEF RestInv
  <2>4. CASE runs' \subseteq runs
    BY <2>4 DEF RestInv
  <2> QED BY <2>2, <2>3, <2>4 DEF Publication, StageDraft, Publish, FileRecord,
           StartNextWatcher, FindPublic, Refused, RunFails, EndRun
<1>3. \A s \in stopped' : StoppedRests(s, feed)
  <2> DEFINE phase == IF run.phase = "publishing" THEN "staged" ELSE run.phase
             left == [v |-> run.v, commit |-> run.commit, cites |-> run.cites,
                      phase |-> phase, latest |-> FALSE]
             begun == [WithLatest(run, FALSE) EXCEPT !.phase = phase]
  <2>1. \A s \in Rerunnable(run) : s = [kind |-> "publish", run |-> begun]
    BY DEF Rerunnable, MayRerun
  <2> HIDE DEF phase
  <2>2. begun = left
    BY <1>1, JudgedRun
  <2> HIDE DEF begun
  <2>3. RunRests(left, feed)
    BY <1>1, MovedRunRests
  <2> HIDE DEF left
  <2>4. \A s \in Rerunnable(run) : StoppedRests(s, feed)
    <3>1. \A s \in Rerunnable(run) : s.kind = "publish" /\ s.run = left
      BY <2>1, <2>2
    <3> QED BY <2>3, <3>1 DEF StoppedRests
  <2>5. stopped' \subseteq stopped \cup Rerunnable(run)
    BY DEF Publication, StageDraft, ReadLatest, Publish, FileRecord, StartNextWatcher,
         FindPublic, Refused, RunFails, EndRun
  <2> QED BY <2>4, <2>5 DEF RestInv
<1>4. queue' # None => PlanRests(queue', feed)
  <2>1. queue' = queue \/ queue' = [Idle EXCEPT !.phase = "start", !.base = main]
    BY DEF Publication, StageDraft, ReadLatest, Publish, FileRecord, StartNextWatcher,
         FindPublic, Refused, RunFails, EndRun
  <2>2. queue # None => PlanRests(queue, feed)
    BY DEF RestInv
  <2>3. PlanRests([Idle EXCEPT !.phase = "start", !.base = main], feed)
    BY NewRunRests
  <2> QED BY <2>1, <2>2, <2>3
<1>5. CASE Publish(run)
  <2> DEFINE release == [v |-> run.v, recipe |-> Builds(run.commit, run.v), draft |-> FALSE]
  <2>1. public' = public \cup {release} /\ release.v = run.v
    BY <1>5 DEF Publish, Builds
  <2>2. run.v.patch <= feed[run.v.branch]
    BY <1>1 DEF RunRests, Rests
  <2> HIDE DEF release
  <2>3. \A r \in public' : r.v.patch <= feed[r.v.branch]
    BY <2>1, <2>2 DEF RestInv
  <2> QED BY <1>1, <1>2, <1>3, <1>4, <2>3 DEF RestInv
<1>6. CASE UNCHANGED public
  BY <1>1, <1>2, <1>3, <1>4, <1>6, RestStep DEF RestInv
<1> QED BY <1>5, <1>6 DEF Publication, StageDraft, ReadLatest, FileRecord, StartNextWatcher,
         FindPublic, Refused, RunFails, EndRun, github

\* What is public, planned or on its way has been on offer, and each rebuild continues
\* the list of releases it cites, however often runs are rerun.
LEMMA RestIsInductive ==
  ASSUME TypedInv, RestInv, [Next]_vars
  PROVE  RestInv'
<1>1. CASE UNCHANGED vars
  BY <1>1 DEF vars, RestInv
<1> QED BY <1>1, WatcherKeepsRest, AroundKeepsRest, PublicationKeepsRest DEF Next, PublishStep

-----------------------------------------------------------------------------
(* What a run that is about to publish decided. *)

\* A patch that has a release has its first build among the releases.
LEMMA FirstBuildIsPublic ==
  ASSUME ReleasesAreTyped, NEW r \in public
  PROVE  [branch |-> r.v.branch, patch |-> r.v.patch, rev |-> 0] \in VersionsOf(public)
<1> DEFINE same == {v \in VersionsOf(public) : v.branch = r.v.branch /\ v.patch = r.v.patch}
           revisions == {v.rev : v \in same}
<1>1. /\ \A v \in VersionsOf(public) : v \in Versions /\ IsNext(v, public)
      /\ \A v \in Versions : v.rev \in Nat
                             /\ v = [branch |-> v.branch, patch |-> v.patch, rev |-> v.rev]
  BY DEF ReleasesAreTyped, VersionsOf, IsNext, Versions
<1>2. r.v \in same
  BY DEF VersionsOf
<1>3. revisions \subseteq Nat /\ revisions # {}
  BY <1>1, <1>2
<1>4. PICK least \in revisions : \A rev \in revisions : least <= rev
  BY <1>3, LeastOfSome
<1>5. PICK v \in same : v.rev = least
  OBVIOUS
<1>6. ~(v.rev > 0)
  <2> SUFFICES ASSUME v.rev > 0 PROVE FALSE
    OBVIOUS
  <2>1. Predecessor(v) \in VersionsOf(public)
    BY <1>1 DEF IsNext
  <2>2. Predecessor(v) = [branch |-> v.branch, patch |-> v.patch, rev |-> v.rev - 1]
    BY <1>1 DEF Predecessor
  <2>3. Predecessor(v) \in same
    BY <2>1, <2>2
  <2>4. v.rev - 1 \in revisions
    BY <2>2, <2>3
  <2> QED BY <1>1, <1>4, <1>5, <2>4
<1>7. v.rev = 0
  BY <1>1, <1>6
<1>8. v = [branch |-> r.v.branch, patch |-> r.v.patch, rev |-> 0]
  BY <1>1, <1>7
<1> QED BY <1>8

\* What the publish job verifies when it decides on the badge is enough: the feed still
\* names the patch, or the releases are still those the rebuild cites.
LEMMA DecisionIsInLine ==
  ASSUME TypedInv, OnceInv, RestInv, NEW run \in runs, ReadLatest(run)
  PROVE  ContinuesLine(run.v, Builds(run.commit, run.v), public)
<1> DEFINE v == run.v
<1>1. v \in Versions /\ IsVersion(v) /\ RunRests(run, feed)
  BY VersionsAreVersions DEF TypedInv, RunsAreTyped, IsPublishRun, IsNext, RestInv
<1>2. EvidenceHolds(run) /\ v \notin VersionsOf(public)
  <2>1. [v |-> v, commit |-> run.commit] \in drafts
    BY DEF ReadLatest
  <2> QED BY <2>1 DEF ReadLatest, OnceInv, DraftsAreNotPublic, IsPublic, VersionsOf
<1>3. CASE v.rev = 0
  <2> SUFFICES ASSUME NEW r \in public, r.v.branch = v.branch
               PROVE  r.v.patch < v.patch
    BY <1>3 DEF ContinuesLine
  <2>1. feed[v.branch] = v.patch
    BY <1>2, <1>3 DEF EvidenceHolds
  <2>2. r.v.patch <= v.patch
    BY <2>1 DEF RestInv
  <2>3. r.v.patch # v.patch
    <3>1. [branch |-> r.v.branch, patch |-> r.v.patch, rev |-> 0] \in VersionsOf(public)
      BY FirstBuildIsPublic DEF TypedInv
    <3>2. v = [branch |-> v.branch, patch |-> v.patch, rev |-> 0]
      BY <1>3, <1>1 DEF IsVersion
    <3> QED BY <1>2, <3>1, <3>2
  <2>4. IsVersion(r.v)
    BY VersionsAreVersions DEF TypedInv, ReleasesAreTyped, IsNext
  <2> QED BY <1>1, <2>2, <2>3, <2>4 DEF IsVersion
<1>4. CASE v.rev > 0
  <2>1. public = run.cites
    BY <1>2, <1>4 DEF EvidenceHolds
  <2> QED BY <1>1, <1>4, <2>1 DEF RunRests, Rests
<1> QED BY <1>1, <1>3, <1>4 DEF IsVersion

\* A run is about to publish for no other reason than that it decided on the badge.
LEMMA NewDecision ==
  ASSUME RunsAreRuns, [Next]_vars, NEW new \in runs' \ runs, new.phase = "publishing"
  PROVE  \E run \in runs :
           /\ ReadLatest(run)
           /\ new = [v |-> run.v, commit |-> run.commit, cites |-> run.cites,
                     phase |-> "publishing", latest |-> ReleaseIsNewest(run.v, Listing)]
<1>1. ~Around /\ ~UNCHANGED vars
  <2>1. \A s \in stopped : ~RerunPublish(s)
    BY DEF RerunPublish, RunsAreRuns
  <2> QED BY <2>1 DEF Around, FeedMoves, MergeEdit, Schedule, DiscardDraft, RerunWatcher, vars
<1>2. ~DispatchPublish
  BY DEF DispatchPublish
<1>3. PICK run \in runs : Publication(run) \/ RunFails(run)
  BY <1>1, <1>2 DEF Next, PublishStep, StartWatcher, WatcherStep, ReadInFlight, CaptureFeeds,
       Investigate, Coordinate, Checkout, NoRecovery, RecoverRecord, RecoveryRefused,
       RecoveryReplyLost, PrepareEvidence, RouteNothing, RecordEvidence, WatcherFails
<1>4. IsRun(run)
  BY DEF RunsAreRuns
<1>5. ASSUME NEW phase \in {"staged", "public", "recorded"}, runs' = Step(run, phase)
      PROVE  FALSE
  BY <1>4, <1>5, StepIsRun DEF Step
<1>6. ReadLatest(run)
  BY <1>3, <1>5 DEF Publication, StageDraft, Publish, FileRecord, StartNextWatcher, FindPublic,
       Refused, RunFails, EndRun
<1> DEFINE latest == ReleaseIsNewest(run.v, Listing)
<1>7. runs' = (runs \ {run}) \cup {[WithLatest(run, latest) EXCEPT !.phase = "publishing"]}
  BY <1>6 DEF ReadLatest
<1> HIDE DEF latest
<1>8. new = [v |-> run.v, commit |-> run.commit, cites |-> run.cites,
             phase |-> "publishing", latest |-> latest]
  BY <1>4, <1>7, JudgedRun
<1> QED BY <1>6, <1>8 DEF latest

\* The decision of a run agrees with the releases it publishes on top of.
Decided(run, releases) ==
  /\ ContinuesLine(run.v, Builds(run.commit, run.v), releases)
  /\ run.latest = ReleaseIsNewest(run.v, releases)

LEMMA NewDecisionIsRight ==
  ASSUME TypedInv, OnceInv, RestInv, [Next]_vars,
         NEW new \in runs' \ runs, new.phase = "publishing"
  PROVE  Decided(new, public)
<1>1. PICK run \in runs :
        /\ ReadLatest(run)
        /\ new = [v |-> run.v, commit |-> run.commit, cites |-> run.cites,
                  phase |-> "publishing", latest |-> ReleaseIsNewest(run.v, Listing)]
  BY NewDecision DEF OnceInv
<1>2. ContinuesLine(run.v, Builds(run.commit, run.v), public)
  BY <1>1, DecisionIsInLine
<1>3. ReleaseIsNewest(run.v, Listing) = ReleaseIsNewest(run.v, public)
  BY DraftsDoNotCount DEF ReleaseIsNewest
<1>4. /\ new.v = run.v /\ new.commit = run.commit
      /\ new.latest = ReleaseIsNewest(run.v, Listing)
  BY <1>1
<1> QED BY <1>2, <1>3, <1>4 DEF Decided

LEMMA RestInvariance == Spec => [](TypedInv /\ OnceInv /\ RestInv)
<1>1. Init => TypedInv /\ OnceInv /\ RestInv
  BY InitIsTyped, InitIsOnce, InitIsAtRest
<1>2. (TypedInv /\ OnceInv /\ RestInv) /\ [Next]_vars => (TypedInv /\ OnceInv /\ RestInv)'
  BY TypedIsInductive, OnceIsInductive, RestIsInductive
<1> QED BY <1>1, <1>2, PTL DEF Spec

\* Whatever a person reruns, and however late: a run that decides to publish has a
\* version that continues the line of its branch at that moment, and the badge it
\* decides on is right at that moment.
THEOREM DecisionsContinueTheLine ==
  Spec => [][\A run \in runs' \ runs : run.phase = "publishing" =>
               /\ ContinuesLine(run.v, Builds(run.commit, run.v), public)
               /\ run.latest = ReleaseIsNewest(run.v, public)]_vars
<1>1. (TypedInv /\ OnceInv /\ RestInv) /\ [Next]_vars =>
        [\A run \in runs' \ runs : run.phase = "publishing" =>
           /\ ContinuesLine(run.v, Builds(run.commit, run.v), public)
           /\ run.latest = ReleaseIsNewest(run.v, public)]_vars
  BY NewDecisionIsRight DEF Decided
<1> QED BY <1>1, RestInvariance, PTL DEF Spec

-----------------------------------------------------------------------------
(* The line, where one run at a time publishes. *)

\* Between its decision and its publication a run is alone in doing so.
OneWriter ==
  \A run, other \in runs :
    run.phase = "publishing" /\ other.phase = "publishing" => run = other

DecidedInv ==
  /\ \A run \in runs : run.phase = "publishing" => Decided(run, public)
  /\ BadgeIsNewest

LEMMA DecidedIsInductive ==
  ASSUME TypedInv, OnceInv, RestInv, OneWriter, DecidedInv, [Next]_vars
  PROVE  DecidedInv'
<1>1. CASE UNCHANGED <<public, badge>>
  <2>1. \A run \in runs' : run.phase = "publishing" => Decided(run, public)
    BY NewDecisionIsRight DEF DecidedInv
  <2> QED BY <1>1, <2>1 DEF DecidedInv, BadgeIsNewest
<1>2. CASE \E run \in runs : Publish(run)
  <2>1. PICK run \in runs : Publish(run)
    BY <1>2
  <2> DEFINE next == [run EXCEPT !.phase = "public"]
  <2>2. run.phase = "publishing" /\ runs' = (runs \ {run}) \cup {next} /\ next.phase = "public"
    BY <2>1, StepIsRun DEF Publish, Step, OnceInv, RunsAreRuns
  <2> HIDE DEF next
  <2>3. BadgeIsNewest'
    BY <2>1, <2>2, BadgeFollows DEF DecidedInv, Decided
  <2>4. \A other \in runs' : other.phase # "publishing"
    BY <2>2 DEF OneWriter
  <2> QED BY <2>3, <2>4 DEF DecidedInv
<1> QED BY <1>1, <1>2, OnlyPublicationsCount

\* With reruns the loop still keeps the promise of ReleaseLine as long as no two runs
\* are between the decision on the badge and the publication at once.
THEOREM OneWriterImplementsLine ==
  Spec /\ []OneWriter => ImplementsReleaseLine
<1> DEFINE Inv == TypedInv /\ OnceInv /\ RestInv
<1>1. Init => DecidedInv /\ Line!Init
  <2>1. Init => \A run \in runs : run.phase # "publishing"
    BY DEF Init
  <2> QED BY <2>1, InitIsInLine, InitImplements DEF LineInv, DecidedInv
<1>2. Inv /\ OneWriter /\ DecidedInv /\ [Next]_vars => DecidedInv'
  BY DecidedIsInductive
<1>3. Inv /\ Inv' /\ DecidedInv /\ DecidedInv' /\ [Next]_vars => [Line!Next]_<<public, badge>>
  <2> SUFFICES ASSUME Inv, Inv', DecidedInv, DecidedInv', [Next]_vars, ~UNCHANGED <<public, badge>>
               PROVE  Line!Next
    OBVIOUS
  <2>1. PICK run \in runs : Publish(run)
    BY OnlyPublicationsCount
  <2>2. ContinuesLine(run.v, Builds(run.commit, run.v), public)
    BY <2>1 DEF Publish, DecidedInv, Decided
  <2> QED BY <2>1, <2>2, PublishImplements DEF DecidedInv
<1> HIDE DEF Inv
<1>4. Spec => []Inv
  BY RestInvariance DEF Inv
<1> QED BY <1>1, <1>2, <1>3, <1>4, PTL DEF Spec, ImplementsReleaseLine, Line!Spec

-----------------------------------------------------------------------------
(* The badge, however many runs publish at once. *)

\* A run withholds the badge only where a release is above its version, and that
\* release stays.
WithheldInv ==
  \A run \in runs :
    run.phase = "publishing" /\ ~run.latest => ~ReleaseIsNewest(run.v, public)

LEMMA WithheldIsInductive ==
  ASSUME TypedInv, OnceInv, RestInv, WithheldInv, [Next]_vars
  PROVE  WithheldInv'
<1>1. CASE UNCHANGED <<public, badge>>
  <2>1. \A run \in runs' :
          run.phase = "publishing" /\ ~run.latest => ~ReleaseIsNewest(run.v, public)
    BY NewDecisionIsRight DEF Decided, WithheldInv
  <2> QED BY <1>1, <2>1 DEF WithheldInv
<1>2. CASE \E run \in runs : Publish(run)
  <2>1. PICK run \in runs : Publish(run)
    BY <1>2
  <2> DEFINE next == [run EXCEPT !.phase = "public"]
  <2>2. runs' = (runs \ {run}) \cup {next} /\ next.phase = "public" /\ public \subseteq public'
    BY <2>1, StepIsRun DEF Publish, Step, OnceInv, RunsAreRuns
  <2> HIDE DEF next
  <2>3. \A v : ReleaseIsNewest(v, public') => ReleaseIsNewest(v, public)
    BY <2>2 DEF ReleaseIsNewest, Published
  <2> QED BY <2>2, <2>3 DEF WithheldInv
<1> QED BY <1>1, <1>2, OnlyPublicationsCount

\* Whatever is rerun and whoever publishes beside it: a version that is above all releases
\* when it is published takes the Latest badge.  A badge that two runs left on the older of
\* their versions is right again with the next release above all others.
THEOREM NewestTakesTheBadge ==
  Spec => [][\A run \in runs :
               Publish(run) /\ ReleaseIsNewest(run.v, public) => BadgeIsNewest']_vars
<1> DEFINE Inv == TypedInv /\ OnceInv /\ RestInv
<1>1. Init => WithheldInv
  BY DEF Init, WithheldInv
<1>2. Inv /\ WithheldInv /\ [Next]_vars => WithheldInv'
  BY WithheldIsInductive
<1>3. Inv /\ WithheldInv /\ [Next]_vars =>
        [\A run \in runs :
           Publish(run) /\ ReleaseIsNewest(run.v, public) => BadgeIsNewest']_vars
  <2> SUFFICES ASSUME Inv, WithheldInv, NEW run \in runs, Publish(run),
                      ReleaseIsNewest(run.v, public)
               PROVE  BadgeIsNewest'
    OBVIOUS
  <2> DEFINE release == [v |-> run.v, recipe |-> Builds(run.commit, run.v), draft |-> FALSE]
  <2>1. public' = public \cup {release} /\ release.v = run.v
    BY DEF Publish, Builds
  <2>2. badge' = run.v
    BY DEF Publish, WithheldInv
  <2> HIDE DEF release
  <2>3. IsVersion(run.v) /\ \A r \in public : r.draft = FALSE
    BY VersionsAreVersions DEF TypedInv, ReleasesAreTyped, RunsAreTyped, IsPublishRun, IsNext
  <2>4. \A r \in public' : ~Above(r.v, run.v)
    BY <2>1, <2>3, AboveIsAnOrder DEF ReleaseIsNewest, Published
  <2> QED BY <2>1, <2>2, <2>4 DEF BadgeIsNewest, VersionsOf
<1> HIDE DEF Inv
<1>4. Spec => []Inv
  BY RestInvariance DEF Inv
<1> QED BY <1>1, <1>2, <1>3, <1>4, PTL DEF Spec
=============================================================================
