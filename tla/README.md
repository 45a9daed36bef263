# php-bin: a verification of the autorelease system

php-bin publishes PHP binaries for macOS without a person in the loop. A watcher
captures what php.net and GitHub say, a classifier turns the capture into one plan,
admission checks the plan a second time, and a publish workflow turns an admitted plan
into an immutable GitHub release and an event record on `main`. The code is Python
(`autorelease/`), shell (`scripts/`) and GitHub Actions workflows; the workflows are
where its concurrency and its failures are.

This directory holds TLA+ models of that system, the TLC runs that check them on small
instances, and TLAPS proofs of the properties that matter most.

## Inventory

| Component | State it keeps | Operations | Talks to |
|---|---|---|---|
| Release transaction (`autorelease-publish.yml`, `scripts/publish-release`) | tag, draft and release on GitHub; `transaction.json`; the draft handoff artifact; `transaction-state.json` | jobs build, release, verify-draft, publish, verify-public, finalize, next-watcher; reruns | dispatched by the watcher; files a record; starts the next watcher |
| Record pull request (`scripts/merge-record-pr`, `scripts/dispatch-pr-checks`) | one pull request | run the checks, compare main with the record's base, squash-merge | finalize, watcher, implementation |
| Watcher (`autorelease-watch.yml`, `watch-autorelease-evidence`) | `last-evidence.json`, the retained investigation | read the publish runs in flight, capture, decide, classify, admit, recover a record, dispatch | everything below |
| Watcher routing (`_state.py`: `watch_decision`, `route_watch_action`) | none (pure) | choose a trigger; choose one route | watcher |
| Recipe rebuilds (`_state.py`: `pending_recipe_rebuild`, `release_is_newest`, `unrecorded_published_release`) | none (pure) | select the one due rebuild; the Latest badge; the missing record | watcher, publish-release |
| Event records (`_state.py`, `control.py`) | `autorelease-events/*.json` | legal transitions, history validation | watcher, finalize, implementation |
| Classifier (`_classifier.py`) | none (pure) | one plan per capture, by priority rules | watcher |
| Admission (`_admission.py`) | none (pure) | accept or reject a plan, seal a patch, verify a lifecycle edit | watcher, implementation |
| Evidence capture (`_evidence.py`) | the evidence manifest | fetch with retries and pages, recapture | watcher, publish |
| Implementation (`autorelease-implement.yml`, `_implementation.py`) | a sealed patch, a pull request, the `php_bin_ready` record | edit, validate, build, merge at an exact commit | dispatched by the watcher; mise-php |
| Notification (`scripts/notify-autorelease`) | one GitHub issue per action key | open, comment, reopen, close | every workflow |
| Email digest, status page | none | render retained documents | readers only |
| Discovery and canary (`autorelease-discover.yml`, `upstream-canary.yml`) | the module list | build, drop the extensions that fail, build again | implementation |
| Protected controls (`protected-controls.yml`) | a commit status | allow or refuse a pull request | every merge |
| Build and package (`scripts/build.sh`, `package.sh`) | the archive | compile, gate, package | publish, canary |

What makes the behaviour hard: the runs of one version outlive each other (a person
reruns failed jobs days later, with artifacts of the first attempt); every GitHub call
may take effect and lose its reply; a runner may be lost at any step; `main`, the feeds
and the operator's gate move while a run works; a publication cannot be undone; and two
different actors, the run and the watcher's recovery, may file the same record. Builds
are not reproducible, so two builds of one commit differ.

What makes each part correct: a release is public only with bytes that were installed, once,
and is recorded (release transaction); work is dispatched once and never beside a publish run
(watcher, routing); revisions follow the recipe without gaps (rebuilds); a record is legal for
its readers and never goes back (event records); every plan of the classifier is one admission
accepts, and rests on sources that could be read (classifier, admission); an edit that merged
gets its record although its run is lost, and a first release waits for mise-php
(implementation); a capture misses no release and is the same for both tokens (capture); the
page and the mail say what the run did (status, digest).

## Modules

* `ImmutableRelease` - what php-bin promises about one release tag: a release is staged
  as a draft, may be discarded while it is one, becomes public only with bytes whose
  draft install passed, and never changes again.
* `ReleaseTransaction` - the publish workflow of one version in detail: every run that
  may be dispatched for it, its jobs and reruns, the tag, the draft and the release, the
  record on `main`, and around them `main`, the feed, the operator's gate and the
  watcher as the runs see it.
* `WatchRules` - the decisions of the watcher as operators: `watch_decision`,
  `route_watch_action`, `pending_recipe_rebuild`, `release_is_newest`,
  `unrecorded_published_release`, and what the classifier and admission decide about a
  patch or a rebuild.
* `ReleaseLine` - what php-bin promises about its releases as a whole: a branch gains only
  newer patches or one more revision of its newest version with another recipe, and the
  Latest badge is on the release that sorts above all others.
* `WatchLoop` - the watcher workflow, the publish runs it starts and the chain back to it,
  over every maintained branch; it composes with `WatchRules` and implements `ReleaseLine`.
* `Evidence` - capture sets, what they say of a version, citations, and the recapture check.
* `Classifier` - `classify_evidence`, all rules in their order (extends `Evidence`).
* `Admission` - `validate_plan`, independent of `Classifier` (extends `Evidence`).
* `Implementation` - `apply_lifecycle_plan`, `seal_patch`, `verify_merge` (extends `Admission`).
* `EventRecords` - the durable records: transitions, readers, writers.
* `BranchLifecycle` - a branch enters, ships and leaves: the watcher, implementation runs, the
  publish run, `main`, php.net and mise-php; composes all of the above.
* `Status`, `Digest` - the status document with its reader's rules, and the choice of the mail.
* `WatchDay` - one watcher run, from capture to mail, over sources that fail or contradict;
  composes `Classifier`, `Admission`, `WatchRules`, `Status` and `Digest`.
* `Capture` - one capture of a paginated list that changes under it, by two tokens.
* `MCReleaseTransaction`, `MCWatchLoop`, `MCBranchLifecycle`, `MCWatchDay`, `MCCapture` - small
  instances for TLC.
* `ReleaseTransactionProofs`, `WatchRulesProofs`, `WatchLoopProofs`, `EventRecordsProofs`,
  `ClassifierProofs`, `BranchLifecycleProofs`, `WatchDayProofs`, `CaptureProofs` - the TLAPS
  proofs.

Four state machines look at one system from different sides. `ReleaseTransaction` is one
version in full detail under a watcher that may do anything the code allows; `WatchLoop` is
all versions of shipped branches, with a publish run reduced to the steps that other versions
and the watcher can see; `BranchLifecycle` is the branches themselves, with the whole
classifier and admission; `WatchDay` is one run over every input the others leave out. They
are tied together by the shared operators of `WatchRules`, and `LoopSelectsAsTheClassifier`
shows that the selection `WatchLoop` makes is the classifier's wherever `WatchLoop` applies.

### ReleaseTransaction and the code

A run is in one `step`; the steps are those of the workflow, in its order, and the
actions carry the code's names for them: `PassGates` is the operator gate and the
recapture of the release job, `ReuseRelease`/`UseBuild` the reconciliation with an
existing release, `CreateTag`, `CreateDraft`, `ResumeRelease`, `VerifyDraft`,
`RecordPublishing`, `Publish`, `ConfirmPublic` the effects of `publish-release` for the
targets `draft_created` (in two calls), `draft_verified`, `publishing`, `published`,
`public_verified`/`complete`, `RetainState` the `always()` steps that record whether the
release is live, `FindRecord`, `OpenRecordPr`, `CheckRecordPr`, `MergeRecord` the
finalize job. Every job may fail at every step (`ReleaseJobFails`, `PublishJobFails`,
...); calls whose effect survives the failure have an action of their own
(`CreateDraftPartly`, `PublishReplyLost`, `MergeReplyLost`).

`entry` is where the next attempt begins: "Re-run failed jobs" starts at the first job
that failed and reuses the outputs of the others, "Re-run all jobs" starts at the build.
`disk` is what the running job keeps on its runner; it is gone when the job ends
(`EndJob`), which is why the publish job of a rerun starts at `draft_verified` again.
`kept` and `wasLive` are the retained `transaction-state.json` of the newest and of all
earlier attempts.

Abstractions. Bytes are the pair (commit, build), because two builds of one commit
differ. The recipe identity is a function `Recipe` of the commit. The evidence a plan
cites is one number `feed`, which only moves on: php.net does not take back a release.
`Dispatch` leaves out why the watcher dispatches and may do so whenever the gate is open
and the run is idle; the properties therefore hold for any watcher. An owner may discard
a draft (`DiscardDraft`), with or without its tag, but only while no run is at work and
never the tag alone; if only the tag is deleted the next run accepts the old draft under
a tag of its own commit, and `PublishedIsTheTaggedBuild` would fail. GitHub holds at most
one release per tag, and retained states of earlier attempts stay readable (90 days).

### What the runs check

All bounds are constants: `MaxHead` (commits `main` can reach), `MaxFeed`,
`MaxAttempts` of a run. Two runs are enough for one to overtake or replace the other,
two attempts for a rerun that resumes an older attempt's artifacts, and two builds for
bytes that differ under one commit. No run checks for deadlock: the system stops when
nobody dispatches.

* `release_bytes` (two builds, lost runners): `PublishedBytesWereInstalled`,
  `RecordNamesPublicBytes`, and `ImplementsImmutableRelease`, the refinement of
  `ImmutableRelease` with the variables of the same names.
* `release_world` (main moves twice, the feed once, also between a job and its rerun):
  `PublishedIsTheTaggedBuild`, `LiveIsKnown`, `RecordedClaimIsTrue`, the action property
  `PublicationIsFresh`, and `IInv`, the invariant the proofs rest on.
* `release_liveness`: `PublicationIsAccounted` and `QueueMoves`, under weak fairness of
  each run's next step and of the start of a queued run. Every job has a
  `timeout-minutes` and GitHub starts the waiting run of a free group, so a run at work
  takes some step; nothing is assumed about success, people, the watcher or php.net.

`draft_reuse` shows a disagreement with the documentation: a draft whose run stopped is not
reused once `main` has moved, because its tag names the commit of the first run and
`publish-release` refuses that tag; the finding in `PROJECT.json` quotes the lines.

Two more limits of the code are in the model and worth knowing. A merge to `main` between
dispatch and publication stops nothing, because no plan cites the repository state. And
`LiveIsKnown` holds exactly while runners live (`RunnersDie = FALSE`): when the runner itself
is lost after the publication, no state says that the release may be live.

### WatchLoop and the code

`watch` is the watcher run at work and its `phase` the next step of
`autorelease-watch.yml`: `ReadInFlight`, `CaptureFeeds` and `Investigate` are the
investigate job (the releases are captured in `Investigate`; what follows works on the
captured bytes and the checkout), `Checkout`, the recovery actions, `PrepareEvidence` and
the last three actions are the coordinate job, which checks out `main` anew. `queue` is
the one pending run GitHub keeps for the concurrency group, and holds the commit it was
queued with. `runs` are the publish runs: `queued`, `staged` (draft verified),
`publishing` (the badge is decided, the PATCH not sent), `public`, `recorded`. A run that
stops leaves in `stopped` what "Re-run failed jobs" would begin with: a watcher run its
first commit, or, past the investigation, its whole plan; a publish run its commit and
cited evidence. A coordinate job whose repair failed goes on, fails at its end and leaves
the same (`Leaves`): run again, it takes the route of its plan once more.

`StageDraft`, `ReadLatest` and `Refused` compare the evidence as
`validate_recaptured_evidence` does: a patch is bound to its own branch feed, a rebuild to
the list of releases. `TagAllows` is the tag comparison of `publish-release`.

Abstractions. All branches have shipped and the aggregate feed agrees with the branch
feeds, so there is no supersession by another feed and no lifecycle work. A commit of
`main` is the content the loop reads from it; two evidence commits of equal captures in
succession are one. Records are complete when they are on `main`. An unhealthy source is
a failure (`Investigate(FALSE)`). A paused operator gate is a run that does nothing, and
is covered by the failures; the gate itself is in `ReleaseTransaction`. Hand-made
releases and prereleases do not occur. A build that fails for ever starves later work;
the documentation says so, and failures are bounded here. The recipe identity of a branch
is a number that grows with the edits that change it.

A failed repair either merged (`RecoveryReplyLost`, which needs no bound because it files
the record) or did not (`RecoveryRefused`, a failure like others unless `main` moved).

Bounds: `MaxPatch` and `MaxEdit` (what php.net and reviewers may still do), `MaxFailures`
and `MaxReruns`. Two branches with one new patch each and one edit of one branch's module
list give every order of a patch, a rebuild and a foreign release between a plan and its
publication; one failure anywhere with one rerun gives every pair of an old and a new run
of one version. `loop_reruns` also bounds a patch, an edit, a failure and a rerun together
by `MaxTurns = 3` (a `CONSTRAINT`, which only cuts behaviours short): any three of the four
meet. All four, and failures with two branches, are beyond a run of minutes.

* `loop_branches` (two branches, no failures): `WorkIsHeldForPublish`,
  `NoRepeatedDispatch`, `RebuildsMoveOn` and `ImplementsReleaseLine`.
* `loop_reruns` (one branch, a failure and a rerun): `EveryPlanIsAdmitted`,
  `SinglePublication`, `RevisionsAreASequence`. Two builds of one version in public need all
  four turns; the draft or the run that would lead there needs three, and
  `SinglePublication` (`PublishedOnce`, and neither of those) forbids it.
* `loop_liveness` (one failure): `EventuallySettled`. Fairness: the schedule, the start of
  a pending run and the steps of both workflows are weakly fair (two scheduled runs a day,
  `timeout-minutes` on every job), and an owner, strongly fair, deletes a draft whose
  commit `main` has left behind. Without the owner the property fails, for the reason
  `draft_reuse` shows.

With reruns and more than one version, three things hold only as long as nobody runs an old
run again, which is why `loop_branches` has none (`MaxReruns = 0`): the badge, decided before
the PATCH by runs in different concurrency groups, may end on the older of two versions; a
publish run that is run again may start while a watcher run lives, after it looked for runs in
flight (`HeldWithoutReruns` names the assumption); and a watcher run that is run again keeps
its first commit and may select a rebuild of an older recipe.

### BranchLifecycle and the code

`main` is the head of `main` as far as branches go: the support policy with the key of the
edit that wrote it, the module lists, and the event records. Runs of three workflows work from
the commit they were dispatched for. Commits are only ever compared with the head of `main`, so
a run carries `fresh` (head is still its commit) instead of a number: every commit makes the
others stale (`AllStale`).

* `Investigate` is the first job of the watcher: capture, `watch_decision`, `ClassifyEvidence`,
  `ValidatePlan`. `Repair`, `RouteNothing`, `RecordEvidence`, `DispatchImplementation`,
  `DispatchPublish`, `CompleteRetirement` are the steps of the second one, sorted by `Route`.
* `VerifyEdit`, `MergeEdit`, `RecordReadiness` are `autorelease-implement.yml`: edit, seal and
  checks on the run's own base; the merge, bound to the validated head but not to the `main`
  it was verified on; the readiness record, filed only while `main` is still the merged commit.
  An edit that is already on `main` skips the merge. The window between verification and merge
  is real, and so is the run that is lost in it.
* `CheckRelease`, `PublishRelease`, `RecordRelease` are the publish workflow as the lifecycle
  sees it; its inside is `ReleaseTransaction`.
* `FeedMoves`, `AggregateMoves`, `PageMoves`, `MiseSynchronizes`, `MiseIsMadeReady` are
  php.net and mise-php, external and modelled from what the code reads. Either feed may lead.
* `RepairFails`, `WatcherStops`, `ImplementationStops`, `PublishStops` are runs that are lost,
  refused or fail. A run that cannot go on (`EditIsStuck`, `ReleaseIsStuck`) stops for free;
  the others are counted (`MaxFailures`).

Abstractions. Sources are healthy and readable (the faulty ones are `WatchDay`). The capture of
`main` itself is opaque; `quiet` stands for the comparison with the reviewed snapshot. All
releases carry one recipe, because rebuilds are `WatchLoop`. There is one publish run at a
time: the watcher starts none while one is in flight, and reruns are `ReleaseTransaction`'s.
A watcher's dispatch is dropped when all `Slots` are taken. GitHub merges a pull request when
the same files are unchanged since its base.

* `lifecycle` (8.3 and 8.4 maintained, 8.5 comes with two patches, 8.3 retires; one slot, one
  failure): the classifier, admission, the edit and the records fit together
  (`EveryPlanIsAdmitted`, `EveryEditApplies`, `RecordsAreBound`, `QuietMeansNothingDue`), only
  one edit is ever open (`OneLifecycleInFlight`, `OwedResumeSurvives`), a first release is
  ready (`FirstReleaseIsReady`), and the live parts `EditIsRecorded` and
  `ReadyRecordCompletes`. A coming and an ending branch give every order of two edits; two
  patches of the new branch give the plan that is superseded while it waits. The page lists 8.5
  from the start here, before a feed names it; in `lifecycle_patches` the page may also come last.
* `lifecycle_patches` (one branch with a due patch, one coming, two slots, two failures):
  `RecordsOnlyAdvance` needs two implementation runs of one action, `DuePatchShips` a
  lifecycle record that waits beside a patch.
* `lifecycle_duplicate` is a finding: `unrecorded_published_release` looks for the record of a
  branch only when the release is x.y.0. A branch that ships first with x.y.1 is recorded
  twice, under `new_branch:x.y` and, recovered, under `new_patch:x.y.1`.

Fairness (`JobsRun`): the schedule starts the watcher twice a day, so it is not due forever,
and every job has a `timeout-minutes`, so no run lives forever. It is stated by its effect
because a live run always has a step of its own or is stuck, which makes it weak fairness of
the run's own steps. Nothing is assumed about success beyond `MaxFailures`, and mise-php may
never answer. `FeedsAgree`, weakly fair, is php.net: its two feeds come to name the same newest
version; without it a patch that only one feed names waits for ever, by design.

### WatchDay and the code

`world` is what a run finds and `run.stage` the step of `autorelease-watch.yml` it reached:
`Decide` the decision, `ClassifyCapture` preconditions, classification and admission,
`DeriveStatus` the status step (which runs after a failed classification too), `Recover`,
`TakeRoute`, `RouteFails` the coordinate job, `SendMail` the email workflow. The world does not
change during a run; that is `BranchLifecycle` and `WatchLoop`.

What a world may be is an assumption of the module (`WorldsAssumption`): a commit with a policy
and lists, one capture of each source, which may fail, be misshapen or lack a date, and complete
records that tell the truth about what is public.

A capture is read twice, by readers that ask for different things. `shaped` is what the classifier
and the watch decision require: a feed names a version, the list is a list. `dated` is what
`_upstream` and `_published` of the status page require besides: the date of the feed's release,
and a publication time for every release tag of the list, one missing time making the whole list
unreadable. `empty` is a body that is the JSON value null, which `json_body` of the page does not
tell from a body it could not read. So `Trusted` is the classifier's reader and `PageTrusts` the
page's, and a missing date stops no plan but leaves the page without the branch.

`MCWatchDay` combines nine histories of a policy (edits owed, waiting, stopped, complete), five
support pages (some of which contradict the policy), every pair of feeds and aggregate, and
thirty kinds of day: what of the snapshot moved, a changed recipe, a publish run in flight,
a paused gate, or one source failed, misshapen, empty or without its date. Every rule of the classifier and every route
occurs. One faulty source at a time is enough for the stops, which name the first.

* `watch_day`: `OnlyUnreadableSourcesFail`, `WorkRestsOnReadableEvidence`,
  `LoopSelectsAsTheClassifier`, `StatusAgreesWithPlan`, `EveryRunIsDescribed`,
  `HeldRunsSayTheyAreHeld`. `StatusAgreesWithPlan` says that where the dates are given the page
  and the plan agree, and that where one is missing the branch is `unknown`, its rebuild is not
  claimed without the list, and the source is named as unreadable.

The header of `_status.py` promises that a capture without its reviewed shape is named in
`captureHealth`. The model keeps what the code does instead (`Unreadable`): `_upstream` and
`_published` return early on a null body, as if `json_body` had noted it. With a null list every
branch is `unknown`, its badge says `none` instead of `unknown`, and the document calls its
captures healthy. No property of the project is about a null body.

### Capture and the code

`ReadPage`, `AnswerLost` and `AnswerRejected` are `_fetch_source` and `_fetch`; `list` is the
releases list, which grows at its head and loses discarded drafts. Only the write token lists
drafts. `capture` checks `WatcherSeesEveryRelease` and `TokensAgree` with pages of two and a
limit of two pages, so that the list can end in a short page, an empty one, or exceed the limit.
`TokensAgree` is about a list that rests while both read it; a list that moves may differ
between the two, and the recapture then stops the run.
The property for the write token alone, that it too sees every release, does not hold: a draft
discarded between two pages shifts an entry it has not read. The recapture of that token is only
compared with the watcher's, so the effect is a stopped publication.

### What is proved

`ReleaseTransactionProofs` proves, for any number of runs, builds, commits, feed versions
and attempts, the type invariant and the safety properties above, the action property
`PublicationIsFresh`, and the refinement. The argument is one inductive invariant,
`IInv`, in named parts:

* `OneRunAtATime`: the concurrency group; every other part leans on it, because two
  active runs would each hold a stale view of the same draft.
* `HandoffIsSet`, `Provenance`: tag, notes and complete assets name one commit, and a run
  about to create a draft holds bytes of its own commit. It needs the tag comparison of
  `CreateTag` and that drafts are not discarded under a working run.
* `Installed`: a handoff past the install is in `tested`, and at step `published` the
  draft is the handoff. The second half is what re-reading the draft at `publishing`
  buys: between the install and a rerun the draft may have been replaced.
* `Completed`: from `complete` on the public release is the handoff, so a record filed
  later, even by a rerun, names it.
* `Fresh`: the feed a job began with lies between the admitted one and the present one,
  so finding the admitted feed at the recapture squeezes all three together (lemma
  `Squeeze`).
* `LiveIsTracked`: a run that published knows it from its transaction or from an earlier
  attempt, if runners are not lost.

The constants' assumptions are those of `ReleaseTransaction`: the bounds are naturals,
`Recipe` is defined on every commit, `None` is none of the values.

`WatchLoopProofs` proves the safety of the loop for any branches, recipes and bounds. First what
its runs keep among themselves, and the routing:

* `NoSecondPublication`: a version is published at most once, and nothing is on its way to
  publish it again, whatever fails and is run again. `PublishedOnce` alone is not inductive;
  `OnceInv` adds that the group lets one run of a version past its queue (`OneActiveRun`),
  that no draft stands beside its own publication (`DraftsAreNotPublic`), and that a run
  about to publish read such a draft (`PublishingIsNew`). A rerun resumes before it reads
  the draft, so it cannot carry a stale reading over.
* `HeldWithoutReruns`: under the assumption `MaxReruns = 0` the watcher merges and
  dispatches nothing while a publish run is in flight. `HeldInv` is the argument of the
  workflow's own comment, that the set it read can only shrink; the assumption is the
  premise the comment leaves out.
* About the routing and the selection alone, in `WatchRulesProofs`: `RoutesAgree` (the
  invariant `route_watch_action` documents for its two calls), `HeldRoutes`,
  `EveryPlanIsRouted`, and lemmas about what `pending_recipe_rebuild` selects.

Then the line of releases, on three invariants.

* `TypedInv` holds however often runs are rerun: every record on `main`, every plan and every
  run rests on releases that are public, and a revision on the one before it. Public releases
  never go away, so what was selected stays above everything that was done.
  `TypeCorrectness`, `PlansAreAdmitted` and `RevisionsFollow` follow from it.
* `UndisturbedInv` adds `LineInv` and needs `MaxReruns = 0`: then the watcher acts only while
  no publish run is in flight (`HeldInv`), so one run at a time moves the line, and the line a
  version was planned on is the line it is published on. `DispatchesAreNew` and the refinement
  of `ReleaseLine` (`LoopImplementsLine`, one step at a time) follow; the badge is right because
  the list it was decided on cannot change before the PATCH. `OrderInv` adds that nothing was
  built from a commit later than the one a watcher run investigates (`RebuildsGoForward`); its
  assumption `IdentitiesAreInOrder` says that a branch's identity grows with the edits, which is
  how the model numbers them. These theorems fail with reruns, as `WatchLoop and the code` says.
* `RestInv` is what is left when runs are rerun, however often. The plan of a run may be as old
  as one likes, so the line it was planned on is lost; what stays is what the plan rests on: its
  patch has been on offer in the feed of its branch, and a rebuild continues the list of releases
  it cites. The publish job verifies exactly the other half before it decides on the badge: the
  feed still names the patch, or the list is still the cited one. A patch that is on offer now is
  above all that was ever offered, and had it a release already, its first build would be public
  (`FirstBuildIsPublic`), which the draft of this run excludes. So the decision is right when it
  is taken (`DecisionsContinueTheLine`). It goes stale only while another run publishes between
  this decision and its PATCH; where no two runs are there at once (`OneWriter`) the whole loop
  keeps the promise of `ReleaseLine`, reruns included (`OneWriterImplementsLine`). `OneWriter` is
  a condition on the behaviour that the concurrency groups of the code, one per version, do not
  enforce when runs are rerun; the theorem says that it is all that is missing. TLC agrees on
  both sides with all four turns open: reruns break the refinement, and no run breaks it where
  `OneWriter` is kept; without the recapture in `ReadLatest` even single decisions are wrong.
  Where it is not kept, the badge may stay on the older of two versions that were published
  across each other, but not for good: a run withholds the badge only while a release above its
  version is public, and a release stays (`WithheldInv`), so the next version that is above all
  others when it is published takes it (`NewestTakesTheBadge`).

`EventRecordsProofs` proves about the operators of `EventRecords`, for every record, that a
legal transition keeps a history valid, and that each record a workflow writes (readiness,
completed retirement, final release, recovery) is one the reader of it accepts.

`ClassifierProofs` proves `PlansAreSound` for every capture, record set and policy of the
shape `IsInput`: one lemma per rule says that its plan, if it is work, cites only readable
bodies and is a plan the table routes, and the theorem follows the order of the rules.
`ClassifiedPlansAreRouted`, `EditsAreFresh`, `FreshEditsWait` (an edit is planned only while no
edit is owed its record) and `ReleasesAreKeyed` follow. `PlansAreAccepted` compares the two
independent programs: of every reading of a sound commit (`IsReading`), `validate_plan` accepts
the plan, again with one lemma per rule. `IsReading` names what the agreement needs: the
complete records tell the truth about the branches, and the selected rebuild continues a public
release.
`TriggersDecideNothing` says that the same capture of the same commit gives the same plan
whatever woke the watcher, the failed health check excepted.

`BranchLifecycleProofs` proves the type invariant and every safety property of
`BranchLifecycle` for any branches, patches, slots and failures, in layers.

* `IInv` (`RecordsStayBound`, `RecordsAdvance`). `RecordsAreBound` is not inductive: what a run
  writes rests on a commit `main` may have left. `IInv` adds that each run holds a plan that was
  admitted on its base commit; that a `fresh` run's base holds the records of `main`, so an edit
  which `ValidatePlan` accepted only where no record stood still finds none when it is recorded;
  that the only incomplete records are waiting lifecycle records, so that a publish run and
  `CompleteRetirement` start from a record their transitions accept; and the types.
* `CycleInv` (`OneAtATime`, `OwedResumesAreKept`, `FirstReleasesAreReady`): its parts `Outside`,
  `Policy`, `Records` and `RunsHold` say that every run, however stale, holds an edit or a
  release `main` still has room for. An edit is planned only while no record is open and the
  policy's own edit is recorded, and it merges only while the policy is still the one it was
  planned on. So no other edit merged in between, none was recorded, and the key of an open
  record is always the policy's own. This is the argument why a merge that checks files and no
  records is enough.
* `SupplyInv(b)` (`EditsApply`): a new branch copies a list, so some list must be there. The
  theorem assumes a branch `b` that is maintained first and never ends (`IsKept`); were all first
  branches to retire, the policy would become empty, which `apply_lifecycle_plan` refuses.
* `ReadingInv` (`PlansAreAdmitted`): what a run reads satisfies `IsReading`, so
  `PlansAreAccepted` applies.
* `QuietInv` (`QuietDaysOweNothing`): the hard step records the evidence of an older capture on
  top of a newer `main`. While the run lived no publish run did, so a record that was filed
  beside it is still open, which wakes the watcher; and branches that enter or leave the policy
  never come back, so an equal capture is of the same policy. What that run found is what a run
  would find now.

Its assumptions are the module's: branches are numbers and the first maintained ones have a
newest; php.net never takes back a branch it ended (`NoReturn`), without which a retired branch
could be planned as new again; the first page is a sequence of rows, the bounds are naturals.

`WatchDayProofs` proves all six properties of `WatchDay` for every set of worlds that satisfies
`WorldsAssumption`. A run keeps what it derived (`RunInv`): its decision, the plan of that
decision, and that it failed only where something could not be read. `FailuresAreUnreadable` is
`PlansAreAccepted` applied to a run, `WorkIsReadable` is `PlansAreSound`, `RunsAreDescribed` and
`HoldsAreAnnounced` go through the status document and the mail template by template.
`PageAgrees` and `LoopAgrees` compare a second formula for the same question (what the page calls
behind, what `WatchLoop` selects) with the classifier's, rule by rule; `PageAgrees` also shows that
a missing date makes the page claim nothing and name the source (`UndatedOnPage`). The worlds are assumed to
be a sound commit and its capture: `CommitIsWhole`, `CapturesAreWhole`, `RecordsAreTrue`, and
`NoneIsNotMade` (the placeholder is not a plan). TLC evaluates them on the worlds of `MCWatchDay`.
`PageAgrees` also assumes `OpenRecordsAreOfBranches`: an open record of a release, which the code
can read but no workflow leaves behind, would stop the plan and not the page.

`CaptureProofs` proves the two properties of `Capture` for any list, page size and limit of
pages.

* The list is filtered for a token with `SelectSeq`, which is a recursive function over the data.
  No induction theorem of the library can be instantiated with it, so `PassExists` shows that the
  function is there by the least index at which it would fail, and `PassKeeps` what it keeps.
  From then on a list is known by its numbering (`IsKept`): which places hold public entries, in
  order. Two numberings of one set are equal, and one of a larger set is denser.
* A publication only pushes entries back, and drafts that are staged or discarded change nothing
  the watcher's token sees (`StagedIsUnseen`, `DiscardedIsUnseen`, `PublishedPushesBack`). So
  every release that was public at the beginning is joined already, or is behind the pages that
  were read (`Watching`). A capture ends healthy only with a page that is not full, behind which
  there is nothing (`EveryReleaseIsSeen`).
* While the list rests, what a reader has joined is a first part of what its token sees
  (`AtRest`), and what the write token sees projects to the watcher's, draft or not
  (`TokensReadTheSame`).

Model-checked only: all liveness (`PublicationIsAccounted`, `QueueMoves`, `EventuallySettled`,
`EditIsRecorded`, `ReadyRecordCompletes`, `DuePatchShips`), because the installed provers handle
neither fairness nor ENABLED. Every invariant, action property and
refinement that a passing run checks is also a theorem.

## What is left

The hazards of `PROJECT.json` without a property, each for the reason its note gives: the removed
tag of a draft, the runner that is lost after the PATCH with its `always()` steps, the gate that
is read once, and the recovery of the smallest key first.

## Not modelled

`PROJECT.json` lists each component with its reason.

* The compilation and packaging of PHP, and the discovery and canary passes over it: which
  extension builds is decided by a compiler.
* Texts: the HTML parser of the support page (a page is a sequence of rows), JSON schemas and
  digests (a digest is the value itself), the wording of mails and of the page, and the publish
  digest, which changes no state another part reads.
* The owner's issues (`notify-autorelease`): nothing but the notifier reads them.
* Protected controls: a predicate over the file names of one pull request.
* Repository administration, the system verifier (`verify.py`) and the end-to-end suites: they
  run beside the system and not in it.
