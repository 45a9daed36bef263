--------------------------- MODULE BranchLifecycle ---------------------------
(***************************************************************************)
(* A PHP branch enters, ships and leaves the maintained set.  The watcher  *)
(* classifies and admits what it captured, dispatches implementation runs  *)
(* that edit the policy, and publish runs for what the policy maintains;   *)
(* every one of them works from the commit it was dispatched for, while    *)
(* main, php.net and mise-php move on.                                     *)
(*                                                                         *)
(* main is [policy, lists, events].  A commit id is only ever compared for *)
(* equality with the head of main, so a run carries fresh instead: whether *)
(* main is still the commit it works on.  Every commit on main makes the   *)
(* other runs stale.                                                       *)
(***************************************************************************)
EXTENDS Classifier, Implementation, EventRecords

CONSTANTS
  Maintained,    \* the branches the first policy maintains, all of them shipped
  FirstPage,     \* the first supported-versions page: at least the maintained branches
  Coming,        \* the branches php.net may announce
  Ending,        \* the branches php.net may retire
  LastPatch,     \* LastPatch[b]: the highest patch php.net publishes (a bound)
  Slots,         \* implementation runs alive at once (a bound)
  MaxFailures    \* runs that stop although nothing was wrong (a bound)

Branches == Maintained \cup Coming

\* The first policy has a newest branch.
ASSUME BranchAssumption ==
  Branches \subseteq Nat /\ \E newest \in Maintained : \A b \in Maintained : b <= newest
PageRows == [branch : Branches, state : SupportStates, dates : Nat \X Nat \X Nat]

ASSUME PageAssumption == FirstPage \in Seq(PageRows)
\* php.net never takes back a branch it ended.
ASSUME NoReturn ==
  /\ Coming \cap Ending = {}
  /\ \A i \in DOMAIN FirstPage : FirstPage[i].branch \in Coming => FirstPage[i].state # "eol"
ASSUME PatchAssumption == LastPatch \in [Branches -> Nat]
ASSUME FailureAssumption == MaxFailures \in Nat

VARIABLES
  page,        \* php.net: the rows of the supported-versions page
  own,         \* php.net: the patch each branch's own feed names, or None
  aggregate,   \* php.net: the version the aggregate feed names
  released,    \* GitHub: the published releases
  mise,        \* mise-php: what its main says of each lifecycle action
  main,        \* the head of main: [policy, lists, events]
  quiet,       \* head only recorded evidence, and a capture would equal it
  watcher,     \* the watcher run, or None
  implement,   \* the implementation runs, each or None
  publish,     \* the publish run, or None
  failures     \* how many runs stopped although nothing was wrong

php == <<page, own, aggregate>>
vars == <<page, own, aggregate, released, mise, main, quiet, watcher, implement,
          publish, failures>>

Row(branch, state) == [branch |-> branch, state |-> state, dates |-> <<1, 2, 3>>]
Release(v) == [v |-> v, recipe |-> 0, draft |-> FALSE]

(***************************************************************************)
(* What a capture taken now holds.  No plan cites main's own head, so its  *)
(* capture is opaque here, and quiet stands for the comparison with it.    *)
(***************************************************************************)
Healthy(body) == [status |-> 200, shaped |-> TRUE, body |-> body]
NotServed == [status |-> 404, shaped |-> FALSE, body |-> None]

FeedBody(branch) == IF own[branch] = None THEN NotServed ELSE Healthy(own[branch])

CaptureOf(id) ==
  CASE id = Page         -> Healthy(page)
    [] id = Aggregate    -> Healthy([major \in {Major(aggregate.branch)} |-> aggregate])
    [] id = Releases     -> Healthy(ReleaseIdentity(released))
    [] id = MiseState    -> Healthy(mise)
    [] IsBranchFeed(id)  -> FeedBody(id[2])
    [] OTHER             -> Healthy(None)

Captures == [id \in EvidenceSources(main.policy.branches) |-> CaptureOf(id)]

TreeOf(commit) ==
  [policy |-> commit.policy, lists |-> commit.lists, recorded |-> DOMAIN commit.events]

(***************************************************************************)
(* The watcher run: capture, decision, plan and admission.                 *)
(***************************************************************************)
Incomplete(events) == {k \in DOMAIN events : events[k].state # "complete"}
Complete(events) == DOMAIN events \ Incomplete(events)

Decision ==
  WatchDecision(
    [healthy |-> TRUE,
     sourcesHealthy |-> Unhealthy(Captures) = {},
     incomplete |-> Incomplete(main.events) # {},
     changed |-> IF quiet THEN {} ELSE {"php_bin_state"},
     selfEvidence |-> FALSE,
     releases |-> released,
     identity |-> [b \in main.policy.branches |-> 0],
     recorded |-> {r.v : r \in {s \in released : ReleaseKey(s.v) \in DOMAIN main.events}}])

Seen ==
  LET decision == Decision IN
  [captures |-> Captures,
   decision |-> [trigger |-> decision.trigger, incomplete |-> Incomplete(main.events),
                 rebuild |-> decision.rebuild],
   events |-> main.events,
   maintained |-> main.policy.branches,
   policyKey |-> main.policy.key]

Admitted(plan) ==
  ValidatePlan(plan, Captures, Complete(main.events), Decision.rebuild, TreeOf(main))

\* No publish run starts while this run lives, so a later look could only find
\* the one alive now gone.
Investigate ==
  /\ watcher = None
  /\ \E w \in {Seen}, decision \in {Decision} :
     \E plan \in {IF decision.classify THEN ClassifyEvidence(w) ELSE None} :
       /\ plan # None \/ decision.record # None
       /\ plan # None => Admitted(plan)
       /\ watcher' = [plan |-> plan, record |-> decision.record,
                      captures |-> w.captures, base |-> main, fresh |-> TRUE,
                      inFlight |-> publish # None, repaired |-> FALSE, merged |-> FALSE]
  /\ UNCHANGED <<php, mise, released, main, quiet, implement, publish, failures>>

(***************************************************************************)
(* A commit on main.                                                       *)
(***************************************************************************)
Stale(run) == IF run = None THEN None ELSE [run EXCEPT !.fresh = FALSE]

AllStale == [s \in Slots |-> Stale(implement[s])]

Recorded(tree, record) ==
  [tree EXCEPT !.events = [k \in DOMAIN @ \cup {record.key} |->
                             IF k = record.key THEN record ELSE @[k]]]

(***************************************************************************)
(* The watcher's second job: the repair of a missing record, then the one  *)
(* route of the plan.                                                      *)
(***************************************************************************)
RecordKey(run) == IF run.record = None THEN None ELSE ReleaseKey(run.record)

RepairIsDue(run) ==
  /\ ~run.repaired
  /\ Route(RecoveryCall(RecordKey(run), run.inFlight)).recoveryRoute = "recover_record"

Repair ==
  /\ watcher # None /\ RepairIsDue(watcher)
  /\ IF RecordKey(watcher) \in DOMAIN main.events
     THEN /\ watcher' = [watcher EXCEPT !.repaired = TRUE]
          /\ UNCHANGED <<main, quiet, implement>>
     ELSE /\ main' = Recorded(main, RecoveredRecord(RecordKey(watcher), watcher.record))
          /\ watcher' = [watcher EXCEPT !.repaired = TRUE, !.merged = TRUE, !.fresh = FALSE]
          /\ implement' = AllStale
          /\ quiet' = FALSE
  /\ UNCHANGED <<php, mise, released, publish, failures>>

\* The step may fail: the rest of the job goes on.
RepairFails ==
  /\ watcher # None /\ RepairIsDue(watcher)
  /\ failures < MaxFailures
  /\ failures' = failures + 1
  /\ watcher' = [watcher EXCEPT !.repaired = TRUE]
  /\ UNCHANGED <<php, mise, released, main, quiet, implement, publish>>

RouteOf(run) ==
  Route([action |-> IF run.plan = None THEN "none" ELSE run.plan.action,
         key |-> IF run.plan = None THEN None ELSE run.plan.key,
         recordKey |-> RecordKey(run),
         edits |-> run.plan # None /\ run.plan.edits,
         recoveryMerged |-> run.merged,
         evidenceRecorded |-> FALSE,
         publishInFlight |-> run.inFlight]).route

Routes(route) ==
  /\ watcher # None /\ ~RepairIsDue(watcher)
  /\ RouteOf(watcher) = route
  /\ watcher' = None

RouteNothing ==
  /\ \E route \in {"none", "notify_blocked"} : Routes(route)
  /\ UNCHANGED <<php, mise, released, main, quiet, implement, publish, failures>>

RecordsWhatIsThere == TRUE

\* What it records was captured when the run began.
RecordsWhatIsTrue == watcher.captures = Captures

\* The evidence commit goes on top of main as it is now.
RecordEvidence ==
  /\ Routes("no_change_evidence")
  /\ quiet' = RecordsWhatIsTrue
  /\ implement' = AllStale
  /\ UNCHANGED <<php, mise, released, main, publish, failures>>

DispatchImplementation ==
  /\ Routes("dispatch_implementation")
  /\ LET free == {s \in Slots : implement[s] = None} IN
     IF free = {} THEN UNCHANGED implement
     ELSE implement' = [implement EXCEPT ![CHOOSE s \in free : TRUE] =
                          [stage |-> "dispatched", plan |-> watcher.plan,
                           base |-> watcher.base, fresh |-> watcher.fresh]]
  /\ UNCHANGED <<php, mise, released, main, quiet, publish, failures>>

ReadinessFile(key) == key \in DOMAIN mise

MiseKnowsThePolicy(record) ==
  ReadinessFile(record.key) /\ mise[record.key].policy = record.policy

\* mise-php says it is ready, for exactly the policy of the record.
MiseIsReady(record) ==
  /\ ReadinessFile(record.key) /\ mise[record.key].ready
  /\ mise[record.key].policy = record.policy

DispatchPublish ==
  /\ Routes("dispatch_publish")
  /\ IF watcher.plan.action = "new_branch" /\ ~ReadinessFile(watcher.plan.key)
     THEN UNCHANGED publish
     ELSE publish' = [stage |-> "dispatched", plan |-> watcher.plan,
                      captures |-> watcher.captures, events |-> watcher.base.events]
  /\ UNCHANGED <<php, mise, released, main, quiet, implement, failures>>

CompleteRetirement ==
  LET key == watcher.plan.key IN
  /\ Routes("complete_branch_eol")
  /\ IF /\ key \in DOMAIN main.events
        /\ main.events[key].state \in {"php_bin_ready", "mise_ready"}
        /\ MiseIsReady(main.events[key])
     THEN /\ main' = Recorded(main, CompletedRetirement(main.events[key]))
          /\ implement' = AllStale
          /\ quiet' = FALSE
     ELSE UNCHANGED <<main, implement, quiet>>
  /\ UNCHANGED <<php, mise, released, publish, failures>>

\* A lost runner, a refused merge, a failed call: the run ends where it was.
WatcherStops ==
  /\ watcher # None
  /\ failures < MaxFailures
  /\ failures' = failures + 1
  /\ watcher' = None
  /\ UNCHANGED <<php, mise, released, main, quiet, implement, publish>>

(***************************************************************************)
(* An implementation run: the edit, its seal and its checks on its own     *)
(* base, then the pull request, the merge and the readiness record.        *)
(***************************************************************************)
EditedTree(run) == ApplyLifecyclePlan(run.plan, TreeOf(run.base))
Edit(run) == Manifest(run.plan, TreeOf(run.base), EditedTree(run))

EditIsSealed(run) ==
  EditApplies(run.plan, TreeOf(run.base)) /\ Seals(run.plan, TreeOf(run.base), EditedTree(run))

MergeIsAdmitted(run) ==
  EditIsSealed(run) /\ VerifyMerge(Edit(run), TreeOf(run.base), EditedTree(run), run.fresh)

\* An edit already on main has nothing to merge: its commit is the base.
VerifyEdit(s) ==
  /\ implement[s] # None /\ implement[s].stage = "dispatched"
  /\ MergeIsAdmitted(implement[s])
  /\ implement' = [implement EXCEPT ![s].stage =
                     IF Edit(implement[s]).alreadyApplied THEN "merged" ELSE "verified"]
  /\ UNCHANGED <<php, mise, released, main, quiet, watcher, publish, failures>>

\* The pull request merges unless main changed the same files since its base.
MergesCleanly(run) ==
  ChangedPaths(TreeOf(run.base), TreeOf(main)) \cap Edit(run).files = {}

\* The merge is bound to the commit that was verified, not to the main it was
\* verified on: when main has moved, the merged tree is not the validated one.
MergeEdit(s) ==
  LET run == implement[s] IN
  /\ run # None /\ run.stage = "verified"
  /\ MergesCleanly(run)
  /\ main' = [main EXCEPT !.policy = EditedTree(run).policy,
                          !.lists = @ \cup EditedTree(run).lists]
  /\ implement' = [AllStale EXCEPT ![s] = [run EXCEPT !.stage = "merged"]]
  /\ watcher' = Stale(watcher)
  /\ quiet' = FALSE
  /\ UNCHANGED <<php, mise, released, publish, failures>>

MergedOnce(run) == run.stage = "merged"

\* The record is filed only while main is still the merged and validated commit.
MayRecordReadiness(run) == run.stage = "merged" /\ run.fresh

RecordReadiness(s) ==
  LET run == implement[s] IN
  /\ run # None /\ MayRecordReadiness(run)
  /\ main' = Recorded(main, ReadinessRecord(run.plan.key, main.policy))
  /\ implement' = [AllStale EXCEPT ![s] = None]
  /\ watcher' = Stale(watcher)
  /\ quiet' = FALSE
  /\ UNCHANGED <<php, mise, released, publish, failures>>

EditIsStuck(run) ==
  \/ run.stage = "dispatched" /\ ~MergeIsAdmitted(run)
  \/ run.stage = "verified" /\ ~MergesCleanly(run)
  \/ run.stage = "merged" /\ ~MayRecordReadiness(run)

ImplementationStops(s) ==
  /\ implement[s] # None
  /\ IF EditIsStuck(implement[s]) THEN UNCHANGED failures
     ELSE failures < MaxFailures /\ failures' = failures + 1
  /\ implement' = [implement EXCEPT ![s] = None]
  /\ UNCHANGED <<php, mise, released, main, quiet, watcher, publish>>

(***************************************************************************)
(* A publish run.  It reads the records of the commit it was dispatched    *)
(* for, and captures again before it stages and before it publishes.       *)
(***************************************************************************)
EvidenceStillHolds(run) ==
  RecaptureHolds(run.plan, run.captures, Captures) /\ ReleaseIsNewestPatch(run.plan, Captures)

\* A first release: its record waits for it, mise-php is ready for exactly that
\* policy, and was when the evidence was captured.
FirstReleaseIsAllowed(run) ==
  run.plan.action = "new_branch" =>
    LET key == run.plan.key IN
    /\ key \in DOMAIN run.events /\ run.events[key].state = "php_bin_ready"
    /\ MiseIsReady(run.events[key])
    /\ key \in DOMAIN run.captures[MiseState].body

CheckRelease ==
  /\ publish # None /\ publish.stage = "dispatched"
  /\ EvidenceStillHolds(publish) /\ FirstReleaseIsAllowed(publish)
  /\ publish' = [publish EXCEPT !.stage = "checked"]
  /\ UNCHANGED <<php, mise, released, main, quiet, watcher, implement, failures>>

IsPublished(v) == \E r \in released : r.v = v

\* A release that is public already is verified and recorded, not published.
PublishRelease ==
  LET v == publish.plan.version IN
  /\ publish # None /\ publish.stage = "checked"
  /\ IsPublished(v) \/ EvidenceStillHolds(publish)
  /\ released' = IF IsPublished(v) THEN released ELSE released \cup {Release(v)}
  /\ publish' = [publish EXCEPT !.stage = "released"]
  /\ quiet' = (quiet /\ IsPublished(v))
  /\ UNCHANGED <<php, mise, main, watcher, implement, failures>>

StartedRecord(run) ==
  IF run.plan.key \in DOMAIN run.events THEN run.events[run.plan.key]
  ELSE NewRecord(run.plan.key, "release_requested", None)

FinalRecord(run) ==
  LET started == StartedRecord(run)
  IN CompletedRelease(IF run.plan.key \in DOMAIN run.events
                      THEN RequestedRelease(started) ELSE started,
                      run.plan.version, "published_release")

AlreadyRecorded(run) ==
  /\ run.plan.key \in DOMAIN main.events
  /\ ReleaseEventRecorded(main.events[run.plan.key], run.plan.version)

\* A complete record that names another release is never overwritten.
RecordContradicts(run) ==
  /\ run.plan.key \in DOMAIN main.events
  /\ ContradictsRelease(main.events[run.plan.key], run.plan.version)

RecordRelease ==
  /\ publish # None /\ publish.stage = "released"
  /\ ~RecordContradicts(publish)
  /\ IF AlreadyRecorded(publish) THEN UNCHANGED <<main, quiet, watcher, implement>>
     ELSE /\ main' = Recorded(main, FinalRecord(publish))
          /\ watcher' = Stale(watcher)
          /\ implement' = AllStale
          /\ quiet' = FALSE
  /\ publish' = None
  /\ UNCHANGED <<php, mise, released, failures>>

ReleaseIsStuck(run) ==
  \/ run.stage = "dispatched" /\ ~(EvidenceStillHolds(run) /\ FirstReleaseIsAllowed(run))
  \/ run.stage = "checked" /\ ~IsPublished(run.plan.version) /\ ~EvidenceStillHolds(run)
  \/ run.stage = "released" /\ RecordContradicts(run)

PublishStops ==
  /\ publish # None
  /\ IF ReleaseIsStuck(publish) THEN UNCHANGED failures
     ELSE failures < MaxFailures /\ failures' = failures + 1
  /\ publish' = None
  /\ UNCHANGED <<php, mise, released, main, quiet, watcher, implement>>

(***************************************************************************)
(* php.net and mise-php.  Versions and support states only ever move       *)
(* forward; the two feeds may lead each other.                             *)
(***************************************************************************)
StillQuiet == quiet' = (quiet /\ Captures' = Captures)

FeedMoves(branch, patch) ==
  /\ own[branch] # None => own[branch] < patch
  /\ own' = [own EXCEPT ![branch] = patch]
  /\ UNCHANGED <<page, aggregate, mise, released, main, watcher, implement, publish, failures>>
  /\ StillQuiet

AggregateMoves(branch, patch) ==
  /\ Above(Version(branch, patch), aggregate)
  /\ aggregate' = Version(branch, patch)
  /\ UNCHANGED <<page, own, mise, released, main, watcher, implement, publish, failures>>
  /\ StillQuiet

Listed == {page[i].branch : i \in DOMAIN page}

PageMoves ==
  /\ \/ \E b \in Coming \ Listed : page' = Append(page, Row(b, "stable"))
     \/ \E i \in DOMAIN page :
          /\ page[i].branch \in Ending /\ page[i].state = "stable"
          /\ page' = [page EXCEPT ![i].state = "eol"]
     \/ page # <<>> /\ Head(page).state = "eol" /\ page' = Tail(page)
  /\ UNCHANGED <<own, aggregate, mise, released, main, watcher, implement, publish, failures>>
  /\ StillQuiet

\* mise-php synchronizes with the policy, then says it is ready for it.
MiseSynchronizes(key) ==
  /\ main.events[key].state = "php_bin_ready" /\ key \notin DOMAIN mise
  /\ mise' = [k \in DOMAIN mise \cup {key} |->
                IF k = key THEN [policy |-> main.policy, ready |-> FALSE] ELSE mise[k]]
  /\ UNCHANGED <<php, released, main, watcher, implement, publish, failures>>
  /\ StillQuiet

MiseIsMadeReady(key) ==
  /\ ~mise[key].ready
  /\ mise' = [mise EXCEPT ![key].ready = TRUE]
  /\ UNCHANGED <<php, released, main, watcher, implement, publish, failures>>
  /\ StillQuiet

(***************************************************************************)
(* The specification.                                                      *)
(***************************************************************************)
Init ==
  /\ page = FirstPage
  /\ own = [b \in Branches |-> IF b \in Maintained THEN 0 ELSE None]
  /\ aggregate = Version(CHOOSE b \in Maintained : \A c \in Maintained : c <= b, 0)
  /\ released = {Release(Version(b, 0)) : b \in Maintained}
  /\ mise = <<>>
  /\ main = [policy |-> [branches |-> Maintained, key |-> <<"bootstrap">>, evidence |-> {}],
             lists |-> Maintained, events |-> <<>>]
  /\ quiet = FALSE
  /\ watcher = None
  /\ implement = [s \in Slots |-> None]
  /\ publish = None
  /\ failures = 0

Dispatch ==
  \/ RouteNothing \/ RecordEvidence \/ DispatchImplementation
  \/ DispatchPublish \/ CompleteRetirement

System ==
  \/ Investigate \/ Repair \/ Dispatch
  \/ \E s \in Slots : VerifyEdit(s) \/ MergeEdit(s) \/ RecordReadiness(s)
  \/ CheckRelease \/ PublishRelease \/ RecordRelease

Faults ==
  \/ RepairFails \/ WatcherStops \/ PublishStops
  \/ \E s \in Slots : ImplementationStops(s)

World ==
  \/ \E b \in Branches : \E p \in 0..LastPatch[b] : FeedMoves(b, p) \/ AggregateMoves(b, p)
  \/ PageMoves
  \/ \E key \in DOMAIN main.events : MiseSynchronizes(key)
  \/ \E key \in DOMAIN mise : MiseIsMadeReady(key)

Next == System \/ Faults \/ World

Spec == Init /\ [][Next]_vars

FeedsAgree ==
  LET b == aggregate.branch IN
  \/ FeedMoves(b, aggregate.patch)
  \/ own[b] # None /\ AggregateMoves(b, own[b])

\* The schedule starts the watcher twice a day, so it is not due forever; every
\* job has a time limit, so no run lives forever.  As a live run always has a step
\* or is stuck, this is weak fairness of Investigate and of the runs' own steps.
WatcherIsDue == watcher = None /\ (Decision.classify \/ Decision.record # None)

JobsRun ==
  /\ []<>~WatcherIsDue
  /\ []<>(watcher = None) /\ []<>(publish = None)
  /\ \A s \in Slots : []<>(implement[s] = None)

\* The two feeds of php.net come to agree on the newest branch.
FairSpec == Spec /\ JobsRun /\ WF_vars(FeedsAgree)

(***************************************************************************)
(* Properties.                                                             *)
(***************************************************************************)
\* The type invariant.  What reaches an implementation run is a lifecycle edit,
\* what reaches a publish run a release: route_watch_action sorts them.
TypeOK ==
  /\ failures \in 0..MaxFailures /\ quiet \in BOOLEAN
  /\ main.policy.branches \cup main.lists \subseteq Branches
  /\ \A k \in DOMAIN main.events : main.events[k].state \in EventStates
  /\ watcher # None => watcher.fresh \in BOOLEAN /\ watcher.inFlight \in BOOLEAN
  /\ \A s \in Slots : implement[s] # None =>
       /\ implement[s].stage \in {"dispatched", "verified", "merged"}
       /\ implement[s].plan.action \in LifecycleActions /\ implement[s].plan.edits
       /\ implement[s].fresh \in BOOLEAN
  /\ publish # None =>
       /\ publish.stage \in {"dispatched", "checked", "released"}
       /\ publish.plan.action \in PublishActions /\ ~publish.plan.edits
       /\ publish.plan.version # None

\* Whatever the world holds, the plan the classifier derives from a capture is one
\* the independent admission accepts: two programs read the same evidence, the
\* records and the policy, and a disagreement would stop every run until a person
\* finds it.
EveryPlanIsAdmitted ==
  Decision.classify => \A plan \in {ClassifyEvidence(Seen)} : Admitted(plan)

\* An admitted lifecycle edit can be applied and sealed on the commit it was
\* planned on: its allowed paths, its list and its policy fit what
\* apply_lifecycle_plan writes.
EveryEditApplies ==
  \A s \in Slots :
    implement[s] # None /\ implement[s].stage = "dispatched" => EditIsSealed(implement[s])

\* A day the watcher skips as quiet is one on which a classification would have
\* found nothing to do: the recorded evidence never hides due work.
QuietMeansNothingDue == ~Decision.classify => ClassifyEvidence(Seen).action = "no_change"

\* The only incomplete record is that of the edit the policy stands for, so at most
\* one branch is entering or leaving: no fresh edit is planned beside a waiting
\* record, nor merged over one in the window between the check and the merge.
OneLifecycleInFlight == \A k \in Incomplete(main.events) : k = main.policy.key

\* Every record on main is one its readers accept, whichever workflow wrote it and
\* in however many steps: complete with a legal history, or waiting for mise-php.
RecordsAreBound ==
  \A k \in DOMAIN main.events :
    LET record == main.events[k] IN
    /\ record.key = k
    /\ ValidCompletedRecord(record) \/ ValidReadinessRecord(record)

\* A fresh edit never overwrites the policy key of an edit whose record is still
\* owed: the key is all that is left to resume it from.
OwedResumeSurvives ==
  [][main'.policy.key # main.policy.key =>
       main.policy.key = <<"bootstrap">> \/ main.policy.key \in DOMAIN main.events]_vars

\* A record once on main stays, moves only to completion, and is final then, though
\* runs that read an older commit write records of the same key.
RecordsOnlyAdvance ==
  [][\A k \in DOMAIN main.events :
       /\ k \in DOMAIN main'.events
       /\ main'.events[k] = main.events[k] \/ main'.events[k].state = "complete"
       /\ main.events[k].state = "complete" => main'.events[k] = main.events[k]]_vars

\* The first release on a branch is public only when its record waits for it, the
\* policy maintains it and mise-php said it is ready for exactly that policy,
\* although the plan was made on an older commit.
FirstReleaseIsReady ==
  [][\A r \in released' \ released :
       (\A s \in released : s.v.branch # r.v.branch) =>
         LET key == NewBranchKey(r.v.branch) IN
         /\ key \in DOMAIN main.events /\ main.events[key].state = "php_bin_ready"
         /\ key \in DOMAIN mise
         /\ mise[key] = [policy |-> main.events[key].policy, ready |-> TRUE]
         /\ r.v.branch \in main.policy.branches \cap main.lists]_vars

OwesRecord == main.policy.key \notin DOMAIN main.events \cup {<<"bootstrap">>}

\* An edit that merged gets its record, although the run that merged it may be lost
\* or find that main moved: the watcher resumes it from the policy alone.
EditIsRecorded == OwesRecord ~> ~OwesRecord

MiseWaits == \E k \in Incomplete(main.events) : k \in DOMAIN mise /\ mise[k].ready

\* Once mise-php is ready, the waiting branch is released, or its retirement
\* completed.
ReadyRecordCompletes == MiseWaits ~> ~MiseWaits

\* The newest patch php.net offers on a maintained branch is published, also while
\* a lifecycle record waits for a mise-php that may never answer.
DuePatchShips ==
  \A b \in Maintained :
    own[b] = LastPatch[b] ~> IsPublished(Version(b, LastPatch[b])) \/ b \notin main.policy.branches

\* _state.py:993 promises the recovery of a "published release that has no event
\* record at all": no record that exists names the release that is repaired.
RepairedWasUnrecorded ==
  [][\A k \in DOMAIN main'.events \ DOMAIN main.events :
       main'.events[k].history[1].kind = "published_immutable_release" =>
         ~\E j \in DOMAIN main.events :
            NamesRelease(main.events[j], main'.events[k].history[1].version)]_vars
=============================================================================
