------------------------ MODULE BranchLifecycleProofs ------------------------
(***************************************************************************)
(* Proofs about BranchLifecycle, for any branches, pages, patches, number  *)
(* of implementation runs and failures.                                    *)
(*                                                                         *)
(* IInv, the records: an edit is planned only on a commit without a record *)
(* of its key, a run files a readiness record only while main still has    *)
(* the records of that commit, and a completion starts from a record that  *)
(* waits; so no write replaces what is complete, and each appends legal    *)
(* steps to a legal history.                                               *)
(*                                                                         *)
(* CycleInv, the runs: every run, however stale its commit, holds work     *)
(* that main, the page and the releases still have room for.  On it rest   *)
(* three smaller invariants: SupplyInv, a list can be copied for every     *)
(* edit; ReadingInv, what a run reads is what ClassifierProofs shows       *)
(* admission to accept; QuietInv, a reviewed capture leaves nothing due.   *)
(***************************************************************************)
EXTENDS BranchLifecycle, ClassifierProofs, EventRecordsProofs

(***************************************************************************)
(* The inductive invariant.                                                *)
(***************************************************************************)
\* A lifecycle key names a branch of the model.
NamesBranch(key) == key[1] \in LifecycleActions => key[2] \in Branches

IsBound(record) ==
  \/ ValidCompletedRecord(record)
  \/ ValidReadinessRecord(record) /\ record.key[2] \in Branches

AreEvents(events) ==
  \A k \in DOMAIN events :
    IsRecord(events[k]) /\ events[k].key = k /\ IsBound(events[k])

IsCommit(commit) ==
  /\ DOMAIN commit = {"policy", "lists", "events"}
  /\ commit.policy.branches \subseteq Branches /\ commit.lists \subseteq Branches
  /\ NamesBranch(commit.policy.key)
  /\ AreEvents(commit.events)

\* A plan admitted on a commit: it does not do again what is complete there, and
\* an edit has no record there at all.
IsPlanOn(plan, events) ==
  /\ IsRoutable(plan)
  /\ plan.action \in PublishActions /\ ~plan.edits => plan.version # None
  /\ plan.key \notin Complete(events)
  /\ plan.edits => /\ plan.key \notin DOMAIN events
                   /\ plan.key[1] = plan.action /\ plan.key[2] \in Branches

IsWatcherRun(run, events) ==
  /\ DOMAIN run = {"plan", "record", "captures", "base", "fresh", "inFlight", "repaired", "merged"}
  /\ IsCommit(run.base)
  /\ run.fresh \in BOOLEAN /\ run.inFlight \in BOOLEAN
  /\ run.fresh => run.base.events = events
  /\ run.plan # None => IsPlanOn(run.plan, run.base.events)

IsImplementRun(run, events) ==
  /\ DOMAIN run = {"stage", "plan", "base", "fresh"}
  /\ run.stage \in {"dispatched", "verified", "merged"}
  /\ IsCommit(run.base) /\ IsPlanOn(run.plan, run.base.events) /\ run.plan.edits
  /\ run.fresh \in BOOLEAN
  /\ run.fresh => run.base.events = events

IsPublishRun(run) ==
  /\ DOMAIN run = {"stage", "plan", "captures", "events"}
  /\ run.stage \in {"dispatched", "checked", "released"}
  /\ AreEvents(run.events) /\ IsPlanOn(run.plan, run.events)
  /\ run.plan.action \in PublishActions /\ ~run.plan.edits

WorldIsTyped == failures \in 0..MaxFailures /\ quiet \in BOOLEAN /\ page \in Seq(PageRows)

RunsAreTyped ==
  /\ watcher # None => IsWatcherRun(watcher, main.events)
  /\ implement = [s \in Slots |-> implement[s]]
  /\ \A s \in Slots : implement[s] # None => IsImplementRun(implement[s], main.events)
  /\ publish # None => IsPublishRun(publish)

IInv == WorldIsTyped /\ IsCommit(main) /\ RunsAreTyped

\* What RecordsOnlyAdvance says of one step.
Advance(events, later) ==
  \A k \in DOMAIN events :
    /\ k \in DOMAIN later
    /\ later[k] = events[k] \/ later[k].state = "complete"
    /\ events[k].state = "complete" => later[k] = events[k]

-----------------------------------------------------------------------------
(* Commits on main. *)

LEMMA StaleFields ==
  ASSUME NEW run, run # None, "fresh" \in DOMAIN run
  PROVE  /\ DOMAIN Stale(run) = DOMAIN run
         /\ Stale(run).fresh = FALSE
         /\ \A f \in DOMAIN run \ {"fresh"} : Stale(run)[f] = run[f]
BY DEF Stale

LEMMA StaleWatcher ==
  ASSUME NEW run, NEW events, NEW later, run # None => IsWatcherRun(run, events), Stale(run) # None
  PROVE  IsWatcherRun(Stale(run), later)
<1>1. run # None
  BY DEF Stale
<1>2. IsWatcherRun(run, events)
  BY <1>1
<1>3. /\ DOMAIN Stale(run) = DOMAIN run /\ Stale(run).fresh = FALSE
      /\ \A f \in DOMAIN run \ {"fresh"} : Stale(run)[f] = run[f]
  BY <1>1, <1>2, StaleFields DEF IsWatcherRun
<1> QED BY <1>2, <1>3 DEF IsWatcherRun

LEMMA StaleImplement ==
  ASSUME NEW run, NEW events, NEW later, run # None => IsImplementRun(run, events), Stale(run) # None
  PROVE  IsImplementRun(Stale(run), later)
<1>1. run # None
  BY DEF Stale
<1>2. IsImplementRun(run, events)
  BY <1>1
<1>3. /\ DOMAIN Stale(run) = DOMAIN run /\ Stale(run).fresh = FALSE
      /\ \A f \in DOMAIN run \ {"fresh"} : Stale(run)[f] = run[f]
  BY <1>1, <1>2, StaleFields DEF IsImplementRun
<1> QED BY <1>2, <1>3 DEF IsImplementRun

\* A record that is filed keeps what a commit holds, and touches no other record.
LEMMA RecordedCommit ==
  ASSUME NEW commit, IsCommit(commit), NEW record, IsRecord(record), IsBound(record)
  PROVE  LET filed == Recorded(commit, record) IN
         /\ IsCommit(filed)
         /\ DOMAIN filed.events = DOMAIN commit.events \cup {record.key}
         /\ filed.events[record.key] = record
         /\ \A k \in DOMAIN commit.events \ {record.key} : filed.events[k] = commit.events[k]
<1> DEFINE filed == Recorded(commit, record)
           events == [k \in DOMAIN commit.events \cup {record.key} |->
                        IF k = record.key THEN record ELSE commit.events[k]]
<1>1. /\ DOMAIN filed = {"policy", "lists", "events"}
      /\ filed.policy = commit.policy /\ filed.lists = commit.lists /\ filed.events = events
  BY DEF IsCommit, Recorded
<1>2. AreEvents(events)
  BY DEF IsCommit, AreEvents
<1> QED BY <1>1, <1>2 DEF IsCommit

\* A step that leaves main's records alone, or makes every run stale, keeps the
\* implementation runs it does not touch.
LEMMA AllStaleKeeps ==
  ASSUME IInv, implement' = AllStale
  PROVE  /\ implement' = [s \in Slots |-> implement'[s]]
         /\ \A s \in Slots : implement'[s] # None => IsImplementRun(implement'[s], main'.events)
<1>1. \A s \in Slots : implement'[s] = Stale(implement[s])
  BY DEF AllStale
<1>2. \A s \in Slots : implement[s] # None => IsImplementRun(implement[s], main.events)
  BY DEF IInv, RunsAreTyped
<1>3. \A s \in Slots : implement'[s] # None => IsImplementRun(implement'[s], main'.events)
  BY <1>1, <1>2, StaleImplement
<1>4. implement' = [s \in Slots |-> implement'[s]]
  BY <1>1 DEF AllStale
<1> QED BY <1>3, <1>4

LEMMA OneImplementMoves ==
  ASSUME IInv, UNCHANGED main, NEW s \in Slots, NEW run,
         run # None => IsImplementRun(run, main.events),
         implement' = [implement EXCEPT ![s] = run]
  PROVE  /\ implement' = [t \in Slots |-> implement'[t]]
         /\ \A t \in Slots : implement'[t] # None => IsImplementRun(implement'[t], main'.events)
BY DEF IInv, RunsAreTyped

-----------------------------------------------------------------------------
(* The watcher. *)

LEMMA SeenIsInput ==
  ASSUME IInv
  PROVE  IsInput(Seen) /\ DOMAIN SupportRows(Seen.captures[Page]) \subseteq Branches
<1>1. main.policy.branches \subseteq Branches /\ Branches \subseteq Nat
  BY BranchAssumption DEF IInv, IsCommit
<1>2. Captures[Page].body = page
  <2>1. Captures[Page] = CaptureOf(Page)
    BY DEF Captures, EvidenceSources, FixedCaptures
  <2>2. Page # Aggregate /\ Page # Releases /\ Page # MiseState /\ ~IsBranchFeed(Page)
    BY DEF Page, Aggregate, Releases, MiseState, IsBranchFeed, IsReleaseFeed
  <2>3. CaptureOf(Page) = Healthy(page)
    BY <2>2 DEF CaptureOf
  <2> QED BY <2>1, <2>3 DEF Healthy
<1>3. DOMAIN SupportRows(Captures[Page]) \subseteq Branches
  <2>1. \A i \in DOMAIN page : page[i] \in PageRows
    BY LenProperties DEF IInv, WorldIsTyped
  <2>2. \A i \in DOMAIN page : page[i].branch \in Branches
    BY <2>1 DEF PageRows
  <2> QED BY <1>2, <2>2 DEF SupportRows
<1>4. \A k \in Incomplete(main.events) : k[1] \in Families /\ k[2] \in Branches
  <2> SUFFICES ASSUME NEW k \in Incomplete(main.events)
               PROVE  k[1] \in Families /\ k[2] \in Branches
    OBVIOUS
  <2>1. /\ main.events[k].key = k /\ IsBound(main.events[k])
        /\ main.events[k].state # "complete"
    BY DEF Incomplete, IInv, IsCommit, AreEvents
  <2>2. ValidReadinessRecord(main.events[k]) /\ k[2] \in Branches
    BY <2>1 DEF IsBound, ValidCompletedRecord
  <2>3. k[1] \in LifecycleActions
    BY <2>1, <2>2 DEF ValidReadinessRecord
  <2> QED BY <2>2, <2>3 DEF Families, LifecycleActions
<1> QED BY <1>1, <1>3, <1>4 DEF IsInput, Seen

\* What is admitted is bound to the commit it was classified on.
LEMMA AdmittedIsPlanOn ==
  ASSUME IInv, Admitted(ClassifyEvidence(Seen))
  PROVE  IsPlanOn(ClassifyEvidence(Seen), main.events)
<1> DEFINE plan == ClassifyEvidence(Seen)
<1>1. IsRoutable(plan)
  BY SeenIsInput, PlansAreSound DEF IsSound
<1>2. /\ PlanShape(plan, Captures, Complete(main.events), Decision.rebuild)
      /\ StableReleaseEvidence(plan, Captures)
  BY DEF Admitted, ValidatePlan, PlanActions
<1>3. plan.edits => /\ Incomplete(main.events) = {}
                   /\ plan.action \in LifecycleActions
                   /\ \/ plan.key = main.policy.key
                      \/ \E b \in DOMAIN SupportRows(Seen.captures[Page]) : plan.key = NewBranchKey(b)
                      \/ plan.key[2] \in main.policy.branches
  BY SeenIsInput, EditsAreFresh DEF Seen
<1> HIDE DEF plan
<1>4. plan.key \notin Complete(main.events)
  BY <1>2 DEF PlanShape
<1>5. plan.action \in LifecycleActions => plan.key[1] = plan.action
  BY <1>2 DEF PlanShape, LifecycleActions
<1>6. plan.action \in PublishActions => plan.version # None
  BY <1>2 DEF PlanShape, StableReleaseEvidence, StableReleaseActions, PublishActions
<1>7. ASSUME plan.edits
      PROVE  plan.key \notin DOMAIN main.events /\ plan.key[2] \in Branches
  <2>1. plan.key \notin DOMAIN main.events
    BY <1>3, <1>4, <1>7 DEF Complete
  <2>2. plan.key = main.policy.key => plan.key[2] \in Branches
    BY <1>3, <1>5, <1>7 DEF IInv, IsCommit, NamesBranch
  <2>3. \A b \in DOMAIN SupportRows(Seen.captures[Page]) :
          plan.key = NewBranchKey(b) => plan.key[2] \in Branches
    BY SeenIsInput DEF NewBranchKey
  <2>4. plan.key[2] \in main.policy.branches => plan.key[2] \in Branches
    BY DEF IInv, IsCommit
  <2> QED BY <1>3, <1>7, <2>1, <2>2, <2>3, <2>4
<1> QED BY <1>1, <1>3, <1>4, <1>5, <1>6, <1>7 DEF IsPlanOn, plan

LEMMA InvestigateKeeps ==
  ASSUME IInv, Investigate
  PROVE  IInv'
<1>1. PICK plan : /\ watcher' = [plan |-> plan, record |-> Decision.record, captures |-> Seen.captures,
                                 base |-> main, fresh |-> TRUE, inFlight |-> (publish # None),
                                 repaired |-> FALSE, merged |-> FALSE]
                  /\ plan = None \/ plan = ClassifyEvidence(Seen)
                  /\ plan # None => Admitted(plan)
  BY DEF Investigate
<1>2. plan # None => IsPlanOn(plan, main.events)
  BY <1>1, AdmittedIsPlanOn
<1>3. /\ DOMAIN watcher' = {"plan", "record", "captures", "base", "fresh", "inFlight", "repaired", "merged"}
      /\ watcher'.plan = plan /\ watcher'.base = main
      /\ watcher'.fresh = TRUE /\ watcher'.inFlight = (publish # None)
  BY <1>1
<1>4. IsWatcherRun(watcher', main.events)
  BY <1>2, <1>3 DEF IsWatcherRun, IInv
<1> QED BY <1>4 DEF Investigate, IInv, WorldIsTyped, RunsAreTyped, php

\* A commit that files a complete record over none, or over one that waits.
LEMMA CompletionAdvances ==
  ASSUME IsCommit(main), NEW record, IsRecord(record), ValidCompletedRecord(record),
         record.key \in DOMAIN main.events => main.events[record.key].state # "complete",
         main' = Recorded(main, record)
  PROVE  IsCommit(main') /\ Advance(main.events, main'.events)
<1>1. IsBound(record) /\ record.state = "complete"
  BY DEF IsBound, ValidCompletedRecord
<1>2. /\ IsCommit(main')
      /\ DOMAIN main'.events = DOMAIN main.events \cup {record.key}
      /\ main'.events[record.key] = record
      /\ \A k \in DOMAIN main.events \ {record.key} : main'.events[k] = main.events[k]
  BY <1>1, RecordedCommit
<1> QED BY <1>1, <1>2 DEF Advance

LEMMA RepairKeeps ==
  ASSUME IInv, Repair
  PROVE  IInv' /\ Advance(main.events, main'.events)
<1>1. IsWatcherRun(watcher, main.events)
  BY DEF IInv, RunsAreTyped, Repair
<1>2. CASE RecordKey(watcher) \in DOMAIN main.events
  <2>1. watcher' = [watcher EXCEPT !.repaired = TRUE] /\ UNCHANGED <<main, quiet, implement>>
    BY <1>2 DEF Repair
  <2>2. IsWatcherRun(watcher', main.events)
    BY <1>1, <2>1 DEF IsWatcherRun
  <2> QED BY <2>1, <2>2 DEF Repair, IInv, WorldIsTyped, RunsAreTyped, Advance, php
<1>3. CASE RecordKey(watcher) \notin DOMAIN main.events
  <2> DEFINE record == RecoveredRecord(RecordKey(watcher), watcher.record)
  <2>1. /\ main' = Recorded(main, record) /\ implement' = AllStale /\ quiet' = FALSE
        /\ watcher' = [watcher EXCEPT !.repaired = TRUE, !.merged = TRUE, !.fresh = FALSE]
    BY <1>3 DEF Repair
  <2>2. IsRecord(record) /\ ValidCompletedRecord(record) /\ record.key = RecordKey(watcher)
    BY RecoveryIsAccepted DEF ReleaseEventRecorded, ValidCompletedRecord
  <2> HIDE DEF record
  <2>3. IsCommit(main') /\ Advance(main.events, main'.events)
    BY <1>3, <2>1, <2>2, CompletionAdvances DEF IInv
  <2>4. /\ DOMAIN watcher' = DOMAIN watcher /\ watcher'.plan = watcher.plan
        /\ watcher'.base = watcher.base /\ watcher'.inFlight = watcher.inFlight
        /\ watcher'.fresh = FALSE
    BY <1>1, <2>1 DEF IsWatcherRun
  <2>5. IsWatcherRun(watcher', main'.events)
    BY <1>1, <2>4 DEF IsWatcherRun
  <2> QED BY <2>1, <2>3, <2>5, AllStaleKeeps DEF Repair, IInv, WorldIsTyped, RunsAreTyped, php
<1> QED BY <1>2, <1>3

\* Steps that only end the watcher run, or note a failure of its repair.
LEMMA WatcherEndsKeeps ==
  ASSUME IInv, RepairFails \/ RouteNothing \/ WatcherStops
  PROVE  IInv' /\ UNCHANGED main
<1>1. CASE RepairFails
  <2>1. IsWatcherRun(watcher', main.events)
    BY <1>1 DEF IInv, RunsAreTyped, RepairFails, IsWatcherRun
  <2>2. failures' \in 0..MaxFailures
    BY <1>1, FailureAssumption DEF IInv, WorldIsTyped, RepairFails
  <2> QED BY <1>1, <2>1, <2>2 DEF RepairFails, IInv, WorldIsTyped, RunsAreTyped, php
<1>2. CASE RouteNothing
  BY <1>2 DEF RouteNothing, Routes, IInv, WorldIsTyped, RunsAreTyped, php
<1>3. CASE WatcherStops
  <2>1. failures' \in 0..MaxFailures
    BY <1>3, FailureAssumption DEF IInv, WorldIsTyped, WatcherStops
  <2> QED BY <1>3, <2>1 DEF WatcherStops, IInv, WorldIsTyped, RunsAreTyped, php
<1> QED BY <1>1, <1>2, <1>3

LEMMA RecordEvidenceKeeps ==
  ASSUME IInv, RecordEvidence
  PROVE  IInv' /\ UNCHANGED main
<1>1. quiet' \in BOOLEAN /\ watcher' = None /\ implement' = AllStale
  BY DEF RecordEvidence, RecordsWhatIsTrue, Routes
<1> QED BY <1>1, AllStaleKeeps DEF RecordEvidence, IInv, WorldIsTyped, RunsAreTyped, php

\* What the two dispatches carry: the routing sorts edits from releases.
LEMMA RoutedPlans ==
  ASSUME NEW run
  PROVE  /\ RouteOf(run) = "dispatch_implementation" =>
              run.plan # None /\ run.plan.edits
         /\ RouteOf(run) = "dispatch_publish" =>
              run.plan # None /\ ~run.plan.edits /\ run.plan.action \in PublishActions
         /\ RouteOf(run) = "complete_branch_eol" => run.plan # None
BY DEF RouteOf, Route, PlanRoute, PublishActions

LEMMA DispatchImplementationKeeps ==
  ASSUME IInv, DispatchImplementation
  PROVE  IInv' /\ UNCHANGED main
<1> DEFINE free == {s \in Slots : implement[s] = None}
           run == [stage |-> "dispatched", plan |-> watcher.plan,
                   base |-> watcher.base, fresh |-> watcher.fresh]
           s == CHOOSE s \in free : TRUE
<1>1. IsWatcherRun(watcher, main.events) /\ watcher.plan # None /\ watcher.plan.edits
      /\ watcher' = None
  BY RoutedPlans DEF IInv, RunsAreTyped, DispatchImplementation, Routes
<1>2. IsImplementRun(run, main.events)
  BY <1>1 DEF IsWatcherRun, IsImplementRun
<1>3. implement' = implement \/ (s \in Slots /\ implement' = [implement EXCEPT ![s] = run])
  BY DEF DispatchImplementation
<1> HIDE DEF run, s
<1>4. /\ implement' = [t \in Slots |-> implement'[t]]
      /\ \A t \in Slots : implement'[t] # None => IsImplementRun(implement'[t], main'.events)
  <2>1. UNCHANGED main
    BY DEF DispatchImplementation
  <2>2. CASE implement' = implement
    BY <2>1, <2>2 DEF IInv, RunsAreTyped
  <2> QED BY <1>2, <1>3, <2>1, <2>2, OneImplementMoves
<1> QED BY <1>1, <1>4 DEF DispatchImplementation, IInv, WorldIsTyped, RunsAreTyped, php

LEMMA DispatchPublishKeeps ==
  ASSUME IInv, DispatchPublish
  PROVE  IInv' /\ UNCHANGED main
<1> DEFINE run == [stage |-> "dispatched", plan |-> watcher.plan,
                   captures |-> watcher.captures, events |-> watcher.base.events]
<1>1. /\ IsWatcherRun(watcher, main.events) /\ watcher.plan # None /\ ~watcher.plan.edits
      /\ watcher.plan.action \in PublishActions /\ watcher' = None
  BY RoutedPlans DEF IInv, RunsAreTyped, DispatchPublish, Routes
<1>2. IsPublishRun(run)
  BY <1>1 DEF IsWatcherRun, IsPublishRun, IsCommit
<1>3. publish' = publish \/ publish' = run
  BY DEF DispatchPublish
<1> HIDE DEF run
<1> QED BY <1>1, <1>2, <1>3 DEF DispatchPublish, IInv, WorldIsTyped, RunsAreTyped, php

LEMMA CompleteRetirementKeeps ==
  ASSUME IInv, CompleteRetirement
  PROVE  IInv' /\ Advance(main.events, main'.events)
<1> DEFINE key == watcher.plan.key
           record == CompletedRetirement(main.events[key])
<1>1. CASE UNCHANGED <<main, implement, quiet>>
  BY <1>1 DEF CompleteRetirement, Routes, IInv, WorldIsTyped, RunsAreTyped, Advance, php
<1>2. CASE /\ key \in DOMAIN main.events
           /\ main.events[key].state \in {"php_bin_ready", "mise_ready"}
           /\ main' = Recorded(main, record) /\ implement' = AllStale /\ quiet' = FALSE
  <2>1. IsRecord(main.events[key]) /\ main.events[key].key = key
    BY <1>2 DEF IInv, IsCommit, AreEvents
  <2>2. IsRecord(record) /\ ValidCompletedRecord(record) /\ record.key = key
    BY <1>2, <2>1, RetirementIsAccepted
  <2> HIDE DEF record
  <2>3. IsCommit(main') /\ Advance(main.events, main'.events)
    BY <1>2, <2>2, CompletionAdvances DEF IInv
  <2>4. watcher' = None
    BY DEF CompleteRetirement, Routes
  <2> QED BY <1>2, <2>3, <2>4, AllStaleKeeps
          DEF CompleteRetirement, IInv, WorldIsTyped, RunsAreTyped, php
<1> QED BY <1>1, <1>2 DEF CompleteRetirement

-----------------------------------------------------------------------------
(* The implementation runs. *)

LEMMA VerifyEditKeeps ==
  ASSUME IInv, NEW s \in Slots, VerifyEdit(s)
  PROVE  IInv' /\ UNCHANGED main
<1> DEFINE stage == IF Edit(implement[s]).alreadyApplied THEN "merged" ELSE "verified"
           run == [implement[s] EXCEPT !.stage = stage]
<1>1. IsImplementRun(implement[s], main.events) /\ stage \in {"verified", "merged"}
  BY DEF VerifyEdit, IInv, RunsAreTyped
<1>2. implement' = [implement EXCEPT ![s] = run] /\ UNCHANGED <<main, watcher, publish>>
  BY DEF VerifyEdit
<1> HIDE DEF stage
<1>3. IsImplementRun(run, main.events)
  BY <1>1 DEF IsImplementRun
<1> HIDE DEF run
<1>4. /\ implement' = [t \in Slots |-> implement'[t]]
      /\ \A t \in Slots : implement'[t] # None => IsImplementRun(implement'[t], main'.events)
  BY <1>2, <1>3, OneImplementMoves
<1> QED BY <1>2, <1>4 DEF VerifyEdit, IInv, WorldIsTyped, RunsAreTyped, php

\* The tree a run merges holds branches of the model, whatever its base.
LEMMA EditedTreeIsTyped ==
  ASSUME NEW run, NEW events, IsImplementRun(run, events)
  PROVE  LET tree == EditedTree(run) IN
         /\ tree.policy.branches \subseteq Branches /\ tree.lists \subseteq Branches
         /\ NamesBranch(tree.policy.key)
<1>1. IsCommit(run.base) /\ run.plan.key[2] \in Branches
  BY DEF IsImplementRun, IsPlanOn
<1> QED BY <1>1 DEF EditedTree, ApplyLifecyclePlan, EditedBranches, TreeOf, IsCommit, NamesBranch

LEMMA MergeEditKeeps ==
  ASSUME IInv, NEW s \in Slots, MergeEdit(s)
  PROVE  IInv' /\ main'.events = main.events
<1> DEFINE merged == [implement[s] EXCEPT !.stage = "merged"]
           tree == EditedTree(implement[s])
<1>1. IsImplementRun(implement[s], main.events)
  BY DEF MergeEdit, IInv, RunsAreTyped
<1>2. /\ main' = [main EXCEPT !.policy = tree.policy, !.lists = @ \cup tree.lists]
      /\ implement' = [AllStale EXCEPT ![s] = merged]
      /\ watcher' = Stale(watcher) /\ quiet' = FALSE
      /\ UNCHANGED <<php, failures, publish>>
  BY DEF MergeEdit
<1>3. /\ tree.policy.branches \subseteq Branches /\ tree.lists \subseteq Branches
      /\ NamesBranch(tree.policy.key)
  BY <1>1, EditedTreeIsTyped
<1> HIDE DEF tree
<1>4. IsCommit(main') /\ main'.events = main.events
  BY <1>2, <1>3 DEF IInv, IsCommit
<1>5. IsImplementRun(merged, main.events)
  BY <1>1 DEF IsImplementRun
<1> HIDE DEF merged
<1>6. \A t \in Slots : AllStale[t] # None => IsImplementRun(AllStale[t], main.events)
  BY StaleImplement DEF AllStale, IInv, RunsAreTyped
<1>7. /\ implement' = [t \in Slots |-> implement'[t]]
      /\ \A t \in Slots : implement'[t] # None => IsImplementRun(implement'[t], main.events)
  BY <1>2, <1>5, <1>6 DEF AllStale
<1>8. watcher' # None => IsWatcherRun(watcher', main.events)
  BY <1>2, StaleWatcher DEF IInv, RunsAreTyped
<1> QED BY <1>2, <1>4, <1>7, <1>8 DEF IInv, WorldIsTyped, RunsAreTyped, php

LEMMA RecordReadinessKeeps ==
  ASSUME IInv, NEW s \in Slots, RecordReadiness(s)
  PROVE  IInv' /\ Advance(main.events, main'.events)
<1> DEFINE key == implement[s].plan.key
           record == ReadinessRecord(key, main.policy)
<1>1. IsImplementRun(implement[s], main.events) /\ implement[s].fresh
  BY DEF RecordReadiness, MayRecordReadiness, IInv, RunsAreTyped
<1>2. /\ main' = Recorded(main, record)
      /\ implement' = [AllStale EXCEPT ![s] = None]
      /\ watcher' = Stale(watcher) /\ quiet' = FALSE
      /\ UNCHANGED <<php, failures, publish>>
  BY DEF RecordReadiness
<1>3. key \notin DOMAIN main.events /\ key[1] \in LifecycleActions /\ key[2] \in Branches
  BY <1>1 DEF IsImplementRun, IsPlanOn, IsRoutable
<1>4. /\ IsRecord(record) /\ ValidReadinessRecord(record) /\ record.key = key
  BY <1>3, ReadinessIsAccepted
<1> HIDE DEF record
<1>5. IsBound(record)
  BY <1>3, <1>4 DEF IsBound
<1>6. /\ IsCommit(main')
      /\ DOMAIN main'.events = DOMAIN main.events \cup {key}
      /\ \A k \in DOMAIN main.events \ {key} : main'.events[k] = main.events[k]
  BY <1>2, <1>4, <1>5, RecordedCommit DEF IInv
<1>7. Advance(main.events, main'.events)
  BY <1>3, <1>6 DEF Advance
<1>8. \A t \in Slots : AllStale[t] # None => IsImplementRun(AllStale[t], main'.events)
  BY StaleImplement DEF AllStale, IInv, RunsAreTyped
<1>9. /\ implement' = [t \in Slots |-> implement'[t]]
      /\ \A t \in Slots : implement'[t] # None => IsImplementRun(implement'[t], main'.events)
  BY <1>2, <1>8 DEF AllStale
<1>10. watcher' # None => IsWatcherRun(watcher', main'.events)
  BY <1>2, StaleWatcher DEF IInv, RunsAreTyped
<1> QED BY <1>2, <1>6, <1>7, <1>9, <1>10 DEF IInv, WorldIsTyped, RunsAreTyped, php

LEMMA ImplementationStopsKeeps ==
  ASSUME IInv, NEW s \in Slots, ImplementationStops(s)
  PROVE  IInv' /\ UNCHANGED main
<1>1. failures' \in 0..MaxFailures
  BY FailureAssumption DEF IInv, WorldIsTyped, ImplementationStops
<1>2. implement' = [implement EXCEPT ![s] = None] /\ UNCHANGED main
  BY DEF ImplementationStops
<1>3. /\ implement' = [t \in Slots |-> implement'[t]]
      /\ \A t \in Slots : implement'[t] # None => IsImplementRun(implement'[t], main'.events)
  BY <1>2, OneImplementMoves
<1> QED BY <1>1, <1>2, <1>3 DEF ImplementationStops, IInv, WorldIsTyped, RunsAreTyped, php

-----------------------------------------------------------------------------
(* The publish run. *)

LEMMA PublishMovesKeep ==
  ASSUME IInv, CheckRelease \/ PublishRelease \/ PublishStops
  PROVE  IInv' /\ UNCHANGED main
<1>1. IsPublishRun(publish) /\ UNCHANGED main
  BY DEF CheckRelease, PublishRelease, PublishStops, IInv, RunsAreTyped
<1>2. CASE CheckRelease
  <2>1. IsPublishRun(publish')
    BY <1>1, <1>2 DEF CheckRelease, IsPublishRun
  <2> QED BY <1>2, <2>1 DEF CheckRelease, IInv, WorldIsTyped, RunsAreTyped, php
<1>3. CASE PublishRelease
  <2>1. publish' = [publish EXCEPT !.stage = "released"] /\ quiet' \in BOOLEAN
    BY <1>3 DEF PublishRelease
  <2>2. IsPublishRun(publish')
    BY <1>1, <2>1 DEF IsPublishRun
  <2> QED BY <1>3, <2>1, <2>2 DEF PublishRelease, IInv, WorldIsTyped, RunsAreTyped, php
<1>4. CASE PublishStops
  <2>1. failures' \in 0..MaxFailures
    BY <1>4, FailureAssumption DEF IInv, WorldIsTyped, PublishStops
  <2> QED BY <1>4, <2>1 DEF PublishStops, IInv, WorldIsTyped, RunsAreTyped, php
<1> QED BY <1>2, <1>3, <1>4

\* The record a publish run files: the record it waits on, completed, or a new one.
LEMMA FinalRecordIsComplete ==
  ASSUME NEW run, IsPublishRun(run)
  PROVE  LET record == FinalRecord(run) IN
         /\ IsRecord(record) /\ record.key = run.plan.key
         /\ ReleaseEventRecorded(record, run.plan.version)
<1> DEFINE key == run.plan.key
           started == StartedRecord(run)
           requested == IF key \in DOMAIN run.events THEN RequestedRelease(started) ELSE started
<1>1. IsRecord(requested) /\ requested.state = "release_requested" /\ requested.key = key
  <2>1. CASE key \in DOMAIN run.events
    <3>1. /\ started = run.events[key] /\ IsRecord(started) /\ started.key = key
          /\ IsBound(started)
      BY <2>1 DEF IsPublishRun, AreEvents, StartedRecord
    <3>2. key \notin Complete(run.events)
      BY DEF IsPublishRun, IsPlanOn
    <3>3. started.state # "complete"
      BY <2>1, <3>1, <3>2 DEF Complete, Incomplete
    <3>4. started.state = "php_bin_ready"
      BY <3>1, <3>3 DEF IsBound, ValidCompletedRecord, ValidReadinessRecord
    <3> HIDE DEF started
    <3> QED BY <2>1, <3>1, <3>4, RequestIsLegal
  <2>2. CASE key \notin DOMAIN run.events
    BY <2>2, NewRecordIsRecord DEF StartedRecord
  <2> QED BY <2>1, <2>2
<1>2. "published_release" \in ReleaseRecordKinds
  BY DEF ReleaseRecordKinds
<1>3. FinalRecord(run) = CompletedRelease(requested, run.plan.version, "published_release")
  BY DEF FinalRecord
<1> HIDE DEF requested
<1> QED BY <1>1, <1>2, <1>3, ReleaseIsAccepted

LEMMA RecordReleaseKeeps ==
  ASSUME IInv, RecordRelease
  PROVE  IInv' /\ Advance(main.events, main'.events)
<1> DEFINE key == publish.plan.key
           record == FinalRecord(publish)
<1>1. IsPublishRun(publish) /\ publish' = None /\ UNCHANGED <<php, failures>>
  BY DEF RecordRelease, IInv, RunsAreTyped
<1>2. CASE UNCHANGED <<main, quiet, watcher, implement>>
  BY <1>1, <1>2 DEF IInv, WorldIsTyped, RunsAreTyped, Advance, php
<1>3. CASE /\ ~AlreadyRecorded(publish) /\ main' = Recorded(main, record)
           /\ watcher' = Stale(watcher) /\ implement' = AllStale /\ quiet' = FALSE
  <2>1. /\ IsRecord(record) /\ record.key = key
        /\ ReleaseEventRecorded(record, publish.plan.version)
    BY <1>1, FinalRecordIsComplete
  <2>2. ValidCompletedRecord(record)
    BY <2>1 DEF ReleaseEventRecorded, ValidCompletedRecord
  <2> HIDE DEF record
  <2>3. key \in DOMAIN main.events => main.events[key].state # "complete"
    BY <1>3 DEF RecordRelease, RecordContradicts, ContradictsRelease, AlreadyRecorded
  <2>4. IsCommit(main') /\ Advance(main.events, main'.events)
    BY <1>3, <2>1, <2>2, <2>3, CompletionAdvances DEF IInv
  <2>5. watcher' # None => IsWatcherRun(watcher', main'.events)
    BY <1>3, StaleWatcher DEF IInv, RunsAreTyped
  <2> QED BY <1>1, <1>3, <2>4, <2>5, AllStaleKeeps DEF IInv, WorldIsTyped, RunsAreTyped, php
<1> QED BY <1>2, <1>3 DEF RecordRelease

-----------------------------------------------------------------------------
(* php.net, mise-php, and the whole specification. *)

LEMMA PageStaysTyped ==
  ASSUME page \in Seq(PageRows), PageMoves
  PROVE  page' \in Seq(PageRows)
<1>1. ASSUME NEW b \in Coming, page' = Append(page, Row(b, "stable"))
      PROVE  page' \in Seq(PageRows)
  <2>1. Row(b, "stable") \in PageRows
    <3>1. b \in Branches /\ "stable" \in SupportStates /\ <<1, 2, 3>> \in Seq(Nat)
      BY DEF Branches, SupportStates
    <3> QED BY <3>1 DEF Row, PageRows
  <2> QED BY <1>1, <2>1, AppendProperties
<1>2. ASSUME NEW i \in DOMAIN page, page' = [page EXCEPT ![i].state = "eol"]
      PROVE  page' \in Seq(PageRows)
  <2>1. page[i] \in PageRows /\ "eol" \in SupportStates
    BY LenProperties DEF SupportStates
  <2>2. [page[i] EXCEPT !.state = "eol"] \in PageRows
    BY <2>1 DEF PageRows
  <2>3. page' = [page EXCEPT ![i] = [page[i] EXCEPT !.state = "eol"]]
    BY <1>2
  <2> QED BY <2>2, <2>3, ExceptSeq
<1>3. ASSUME page # <<>>, page' = Tail(page)
      PROVE  page' \in Seq(PageRows)
  BY <1>3, HeadTailProperties
<1> QED BY <1>1, <1>2, <1>3 DEF PageMoves

LEMMA WorldKeeps ==
  ASSUME IInv, World
  PROVE  IInv' /\ UNCHANGED main
<1>1. /\ UNCHANGED <<main, watcher, implement, publish, failures>>
      /\ StillQuiet /\ (page' = page \/ PageMoves)
  BY DEF World, FeedMoves, AggregateMoves, PageMoves, MiseSynchronizes, MiseIsMadeReady, php
<1>2. quiet' \in BOOLEAN
  BY <1>1 DEF StillQuiet
<1>3. page' \in Seq(PageRows)
  BY <1>1, PageStaysTyped DEF IInv, WorldIsTyped
<1> QED BY <1>1, <1>2, <1>3 DEF IInv, WorldIsTyped, RunsAreTyped

LEMMA InitIsTyped ==
  ASSUME Init
  PROVE  IInv
<1>1. WorldIsTyped
  <2>1. page = FirstPage /\ failures = 0 /\ quiet = FALSE
    BY DEF Init
  <2>2. failures \in 0..MaxFailures
    BY <2>1, FailureAssumption
  <2> QED BY <2>1, <2>2, PageAssumption DEF WorldIsTyped
<1>2. IsCommit(main)
  <2>1. DOMAIN <<>> = {}
    BY EmptySeq
  <2>2. DOMAIN main.events = {}
    BY <2>1 DEF Init
  <2>3. NamesBranch(<<"bootstrap">>)
    BY DEF NamesBranch, LifecycleActions
  <2> QED BY <2>2, <2>3 DEF Init, IsCommit, AreEvents, Branches
<1>3. RunsAreTyped
  BY DEF Init, RunsAreTyped
<1> QED BY <1>1, <1>2, <1>3 DEF IInv

LEMMA StepKeeps ==
  ASSUME IInv, [Next]_vars
  PROVE  IInv' /\ Advance(main.events, main'.events)
<1>1. \A events : Advance(events, events)
  BY DEF Advance
<1>2. CASE Next
  <2>1. CASE System
    <3>1. CASE Investigate
      BY <1>1, <3>1, InvestigateKeeps DEF Investigate
    <3>2. CASE Repair
      BY <3>2, RepairKeeps
    <3>3. CASE Dispatch
      BY <1>1, <3>3, WatcherEndsKeeps, RecordEvidenceKeeps, DispatchImplementationKeeps,
         DispatchPublishKeeps, CompleteRetirementKeeps DEF Dispatch
    <3>4. ASSUME NEW s \in Slots, VerifyEdit(s) \/ MergeEdit(s) \/ RecordReadiness(s)
          PROVE  IInv' /\ Advance(main.events, main'.events)
      BY <1>1, <3>4, VerifyEditKeeps, MergeEditKeeps, RecordReadinessKeeps
    <3>5. CASE CheckRelease \/ PublishRelease
      BY <1>1, <3>5, PublishMovesKeep
    <3>6. CASE RecordRelease
      BY <3>6, RecordReleaseKeeps
    <3> QED BY <2>1, <3>1, <3>2, <3>3, <3>4, <3>5, <3>6 DEF System
  <2>2. CASE Faults
    BY <1>1, <2>2, WatcherEndsKeeps, PublishMovesKeep, ImplementationStopsKeeps DEF Faults
  <2>3. CASE World
    BY <1>1, <2>3, WorldKeeps
  <2> QED BY <1>2, <2>1, <2>2, <2>3 DEF Next
<1>3. CASE UNCHANGED vars
  BY <1>1, <1>3 DEF vars, IInv, WorldIsTyped, RunsAreTyped
<1> QED BY <1>2, <1>3

\* The runs and main stay in the shape the argument needs.
THEOREM Invariance == Spec => []IInv
<1>1. Init => IInv
  BY InitIsTyped
<1>2. IInv /\ [Next]_vars => IInv'
  BY StepKeeps
<1> QED BY <1>1, <1>2, PTL DEF Spec

\* Edits reach implementation runs and releases publish runs, each in a stage of its
\* own workflow, and main holds known branches and records in known states.
THEOREM TypeCorrectness == Spec => []TypeOK
<1>1. IInv => TypeOK
  <2> SUFFICES ASSUME IInv PROVE TypeOK
    OBVIOUS
  <2>1. \A k \in DOMAIN main.events : main.events[k].state \in EventStates
    <3> SUFFICES ASSUME NEW k \in DOMAIN main.events PROVE main.events[k].state \in EventStates
      OBVIOUS
    <3>1. main.events[k].state \in {"complete", "php_bin_ready"}
      BY DEF IInv, IsCommit, AreEvents, IsBound, ValidCompletedRecord, ValidReadinessRecord
    <3> QED BY <3>1 DEF EventStates, LegalEventTransitions
  <2>2. watcher # None => watcher.fresh \in BOOLEAN /\ watcher.inFlight \in BOOLEAN
    BY DEF IInv, RunsAreTyped, IsWatcherRun
  <2>3. \A s \in Slots : implement[s] # None =>
          /\ implement[s].stage \in {"dispatched", "verified", "merged"}
          /\ implement[s].plan.action \in LifecycleActions /\ implement[s].plan.edits
          /\ implement[s].fresh \in BOOLEAN
    BY DEF IInv, RunsAreTyped, IsImplementRun, IsPlanOn, IsRoutable
  <2>4. publish # None =>
          /\ publish.stage \in {"dispatched", "checked", "released"}
          /\ publish.plan.action \in PublishActions /\ ~publish.plan.edits
          /\ publish.plan.version # None
    BY DEF IInv, RunsAreTyped, IsPublishRun, IsPlanOn
  <2> QED BY <2>1, <2>2, <2>3, <2>4 DEF TypeOK, IInv, WorldIsTyped, IsCommit
<1> QED BY <1>1, Invariance, PTL

\* Every record on main is one its readers accept, whichever workflow wrote it.
THEOREM RecordsStayBound == Spec => []RecordsAreBound
<1>1. IInv => RecordsAreBound
  BY DEF IInv, IsCommit, AreEvents, IsBound, RecordsAreBound
<1> QED BY <1>1, Invariance, PTL

\* A record once on main stays, moves only to completion, and is final then.
THEOREM RecordsAdvance == Spec => RecordsOnlyAdvance
<1>1. IInv /\ [Next]_vars =>
        [\A k \in DOMAIN main.events :
           /\ k \in DOMAIN main'.events
           /\ main'.events[k] = main.events[k] \/ main'.events[k].state = "complete"
           /\ main.events[k].state = "complete" => main'.events[k] = main.events[k]]_vars
  BY StepKeeps DEF Advance
<1> QED BY <1>1, Invariance, PTL DEF Spec, RecordsOnlyAdvance

-----------------------------------------------------------------------------
(***************************************************************************)
(* One lifecycle at a time.                                                *)
(*                                                                         *)
(* A fresh edit is planned only while no record is incomplete and the edit *)
(* the policy stands for is recorded.  It merges only while the policy is  *)
(* still the one it was planned on; so no other edit merged in between, no *)
(* record can have been filed for one, and the records of its commit, all  *)
(* complete, are final.  The key of an incomplete record is therefore      *)
(* always the policy's own.                                                *)
(***************************************************************************)
\* The branches php.net has ended, or never announced: they stay so.
GoneBranches ==
  {b \in Branches \ Coming : \A i \in DOMAIN page : page[i].branch = b => page[i].state = "eol"}

ReleasedBranches == {r.v.branch : r \in released}

\* An edit as it was planned on its commit, given the ended branches.
IsEditOn(plan, commit, gone) ==
  /\ plan.action = "new_branch" => plan.key = NewBranchKey(plan.key[2]) /\ plan.key[2] \notin Maintained
  /\ plan.action = "branch_eol" => plan.key[2] \in gone
  /\ plan.allowed # {} => /\ Incomplete(commit.events) = {}
                          /\ commit.policy.key \in DOMAIN commit.events \cup {<<"bootstrap">>}

\* A release of a branch that shipped, or of a new branch under its own key.
IsReleaseOf(plan, shipped) ==
  \/ /\ plan.action = "new_patch" /\ plan.key[1] = "new_patch"
     /\ plan.key[2] = plan.version.branch /\ plan.version.branch \in shipped
  \/ plan.action = "new_branch" /\ plan.key = NewBranchKey(plan.version.branch)

PolicyMoves(plan, commit) ==
  ApplyLifecyclePlan(plan, TreeOf(commit)).policy # commit.policy

\* What the policy says of the branch its edit named, and of those it dropped.
PolicyHolds(policy, lists, gone) ==
  /\ policy.key = <<"bootstrap">> \/ policy.key[1] \in LifecycleActions
  /\ policy.key[1] = "new_branch" =>
       /\ policy.key = NewBranchKey(policy.key[2]) /\ policy.key[2] \notin Maintained
       /\ policy.key[2] \in policy.branches \cap lists
  /\ policy.key[1] = "branch_eol" => policy.key[2] \notin policy.branches /\ policy.key[2] \in gone
  /\ Maintained \ policy.branches \subseteq gone

RecordsHold(events, key, shipped) ==
  /\ \A b \in shipped : b \in Maintained \/ NewBranchKey(b) \in DOMAIN events
  /\ \A k \in DOMAIN events :
       /\ k[1] = "new_branch" => k = NewBranchKey(k[2])
       /\ k[1] \in PublishActions /\ events[k].state = "complete" => k[2] \in shipped
       /\ events[k].state # "complete" => k = key

WatcherHolds(run, commit, gone, shipped) ==
  /\ Advance(run.base.events, commit.events)
  /\ run.fresh => run.base = commit
  /\ run.record # None => run.record.branch \in shipped
  /\ run.plan # None =>
       /\ run.plan.action = "branch_eol" => run.plan.key[1] = "branch_eol"
       /\ run.plan.edits => IsEditOn(run.plan, run.base, gone)
       /\ run.plan.action \in PublishActions /\ ~run.plan.edits => IsReleaseOf(run.plan, shipped)

ImplementHolds(run, commit, gone) ==
  /\ Advance(run.base.events, commit.events)
  /\ IsEditOn(run.plan, run.base, gone)
  /\ run.stage = "dispatched" /\ run.fresh => run.base = commit
  /\ run.stage = "verified" => run.plan.allowed # {} /\ PolicyMoves(run.plan, run.base)
  /\ run.stage = "merged" /\ run.fresh => commit.policy.key = run.plan.key

\* The record a first release waits for is still what the run read, and mise-php is
\* ready for it.
Waits(run, answers) ==
  LET key == run.plan.key IN
  /\ key \in DOMAIN run.events /\ run.events[key].state = "php_bin_ready"
  /\ key \in DOMAIN answers
  /\ answers[key] = [policy |-> run.events[key].policy, ready |-> TRUE]

PublishHolds(run, commit, shipped, versions, answers) ==
  /\ Advance(run.events, commit.events)
  /\ IsReleaseOf(run.plan, shipped)
  /\ run.stage # "dispatched" /\ run.plan.action = "new_branch" => Waits(run, answers)
  /\ run.stage = "released" => run.plan.version \in versions

ReleasedVersions == {r.v : r \in released}

Outside ==
  /\ \A i \in DOMAIN page : page[i].state = "eol" => page[i].branch \notin Coming
  /\ \A r \in released : r = Release(r.v)
  /\ \A k \in DOMAIN mise :
       mise[k] = [policy |-> mise[k].policy, ready |-> mise[k].ready] /\ mise[k].ready \in BOOLEAN

RunsHold ==
  /\ watcher # None => WatcherHolds(watcher, main, GoneBranches, ReleasedBranches)
  /\ \A s \in Slots : implement[s] # None => ImplementHolds(implement[s], main, GoneBranches)
  /\ publish # None => PublishHolds(publish, main, ReleasedBranches, ReleasedVersions, mise)

Policy == PolicyHolds(main.policy, main.lists, GoneBranches)
Records == RecordsHold(main.events, main.policy.key, ReleasedBranches)

CycleInv == Outside /\ Policy /\ Records /\ RunsHold

-----------------------------------------------------------------------------
(* Commits and the world leave the runs what they hold. *)

LEMMA AdvanceIsTransitive ==
  ASSUME NEW first, NEW second, NEW third, Advance(first, second), Advance(second, third)
  PROVE  Advance(first, third)
BY DEF Advance

LEMMA EditStays ==
  ASSUME NEW plan, NEW commit, NEW gone, NEW later, gone \subseteq later, IsEditOn(plan, commit, gone)
  PROVE  IsEditOn(plan, commit, later)
BY DEF IsEditOn

\* A run that a commit made stale, or that the world moved under.
LEMMA WatcherStays ==
  ASSUME NEW run, NEW commit, NEW gone, NEW shipped, WatcherHolds(run, commit, gone, shipped),
         NEW later, Advance(commit.events, later.events),
         NEW next, next.base = run.base, next.record = run.record, next.plan = run.plan,
         next.fresh => run.fresh /\ later = commit,
         NEW ended, gone \subseteq ended, NEW public, shipped \subseteq public
  PROVE  WatcherHolds(next, later, ended, public)
<1>1. Advance(run.base.events, later.events)
  BY AdvanceIsTransitive DEF WatcherHolds
<1>2. run.plan # None /\ run.plan.edits => IsEditOn(run.plan, run.base, ended)
  BY EditStays DEF WatcherHolds
<1>3. \A plan : IsReleaseOf(plan, shipped) => IsReleaseOf(plan, public)
  BY DEF IsReleaseOf
<1> QED BY <1>1, <1>2, <1>3 DEF WatcherHolds

LEMMA ImplementStays ==
  ASSUME NEW run, NEW commit, NEW gone, ImplementHolds(run, commit, gone),
         NEW later, Advance(commit.events, later.events),
         NEW next, next.base = run.base, next.stage = run.stage, next.plan = run.plan,
         next.fresh => run.fresh /\ later = commit,
         NEW ended, gone \subseteq ended
  PROVE  ImplementHolds(next, later, ended)
<1>1. Advance(run.base.events, later.events)
  BY AdvanceIsTransitive DEF ImplementHolds
<1>2. IsEditOn(run.plan, run.base, ended)
  BY EditStays DEF ImplementHolds
<1> QED BY <1>1, <1>2 DEF ImplementHolds

LEMMA PublishStays ==
  ASSUME NEW run, NEW commit, NEW shipped, NEW versions, NEW answers,
         PublishHolds(run, commit, shipped, versions, answers),
         NEW later, Advance(commit.events, later.events),
         NEW public, shipped \subseteq public, NEW more, versions \subseteq more,
         NEW said, \A k \in DOMAIN answers :
                     k \in DOMAIN said /\ (answers[k].ready = TRUE => said[k] = answers[k])
  PROVE  PublishHolds(run, later, public, more, said)
<1>1. Advance(run.events, later.events)
  BY AdvanceIsTransitive DEF PublishHolds
<1>2. Waits(run, answers) => Waits(run, said)
  BY DEF Waits
<1>3. IsReleaseOf(run.plan, public)
  BY DEF PublishHolds, IsReleaseOf
<1> QED BY <1>1, <1>2, <1>3 DEF PublishHolds

\* After a commit only the runs it concerns need a look.
LEMMA StaleRunsHold ==
  ASSUME IInv, RunsHold, Advance(main.events, main'.events), UNCHANGED <<page, released, mise>>
  PROVE  /\ Stale(watcher) # None =>
              WatcherHolds(Stale(watcher), main', GoneBranches, ReleasedBranches)
         /\ \A s \in Slots : Stale(implement[s]) # None =>
              ImplementHolds(Stale(implement[s]), main', GoneBranches)
         /\ publish # None =>
              PublishHolds(publish, main', ReleasedBranches, ReleasedVersions, mise)
<1>1. ASSUME Stale(watcher) # None
      PROVE  WatcherHolds(Stale(watcher), main', GoneBranches, ReleasedBranches)
  <2>1. watcher # None
    BY <1>1 DEF Stale
  <2>2. IsWatcherRun(watcher, main.events) /\ WatcherHolds(watcher, main, GoneBranches, ReleasedBranches)
    BY <2>1 DEF IInv, RunsAreTyped, RunsHold
  <2>3. /\ Stale(watcher).fresh = FALSE /\ Stale(watcher).base = watcher.base
        /\ Stale(watcher).record = watcher.record /\ Stale(watcher).plan = watcher.plan
    BY <2>1, <2>2, StaleFields DEF IsWatcherRun
  <2> HIDE DEF GoneBranches, ReleasedBranches
  <2> QED BY <2>2, <2>3, WatcherStays
<1>2. ASSUME NEW s \in Slots, Stale(implement[s]) # None
      PROVE  ImplementHolds(Stale(implement[s]), main', GoneBranches)
  <2>1. implement[s] # None
    BY <1>2 DEF Stale
  <2>2. IsImplementRun(implement[s], main.events) /\ ImplementHolds(implement[s], main, GoneBranches)
    BY <2>1 DEF IInv, RunsAreTyped, RunsHold
  <2>3. /\ Stale(implement[s]).fresh = FALSE /\ Stale(implement[s]).base = implement[s].base
        /\ Stale(implement[s]).stage = implement[s].stage
        /\ Stale(implement[s]).plan = implement[s].plan
    BY <2>1, <2>2, StaleFields DEF IsImplementRun
  <2> QED BY <2>2, <2>3, ImplementStays
<1>3. ASSUME publish # None
      PROVE  PublishHolds(publish, main', ReleasedBranches, ReleasedVersions, mise)
  BY <1>3, PublishStays DEF RunsHold
<1> QED BY <1>1, <1>2, <1>3

\* What a step that leaves the outside alone leaves alone.
LEMMA OutsideStays ==
  ASSUME Outside, UNCHANGED <<page, released, mise>>
  PROVE  /\ Outside' /\ UNCHANGED <<GoneBranches, ReleasedBranches, ReleasedVersions, mise>>
BY DEF Outside, GoneBranches, ReleasedBranches, ReleasedVersions

\* A completion, filed for a release that is out or for no release at all.
LEMMA CompletionHolds ==
  ASSUME IInv, CycleInv, NEW record, main' = Recorded(main, record), record.state = "complete",
         record.key[1] = "new_branch" => record.key = NewBranchKey(record.key[2]),
         record.key[1] \in PublishActions => record.key[2] \in ReleasedBranches
  PROVE  /\ PolicyHolds(main'.policy, main'.lists, GoneBranches)
         /\ RecordsHold(main'.events, main'.policy.key, ReleasedBranches)
<1> DEFINE events == [k \in DOMAIN main.events \cup {record.key} |->
                        IF k = record.key THEN record ELSE main.events[k]]
<1>1. main'.policy = main.policy /\ main'.lists = main.lists /\ main'.events = events
  BY DEF Recorded, IInv, IsCommit
<1>2. RecordsHold(main.events, main.policy.key, ReleasedBranches)
  BY DEF CycleInv, Records
<1>3. RecordsHold(events, main.policy.key, ReleasedBranches)
  BY <1>2 DEF RecordsHold
<1> HIDE DEF events
<1> QED BY <1>1, <1>3 DEF CycleInv, Policy

-----------------------------------------------------------------------------
(* What the watcher reads, and what it then plans. *)

LEMMA PageIsCaptured == Captures[Page].body = page
<1>1. Captures[Page] = CaptureOf(Page)
  BY DEF Captures, EvidenceSources, FixedCaptures
<1>2. ~IsBranchFeed(Page) /\ Page # Aggregate /\ Page # Releases /\ Page # MiseState
  BY DEF Page, Aggregate, Releases, MiseState, IsBranchFeed, IsReleaseFeed
<1>3. CaptureOf(Page) = Healthy(page)
  BY <1>2 DEF CaptureOf
<1> QED BY <1>1, <1>3 DEF Healthy

LEMMA ReleasesAreCaptured == Captures[Releases].body = Published(released)
<1>1. Captures[Releases] = CaptureOf(Releases)
  BY DEF Captures, EvidenceSources, FixedCaptures
<1>2. /\ ~IsBranchFeed(Releases) /\ Releases # Page /\ Releases # Aggregate
      /\ Releases # MiseState
  BY DEF Page, Aggregate, Releases, MiseState, IsBranchFeed, IsReleaseFeed
<1>3. CaptureOf(Releases) = Healthy(ReleaseIdentity(released))
  BY <1>2 DEF CaptureOf
<1> QED BY <1>1, <1>3 DEF Healthy, ReleaseIdentity

\* What counts as shipped, in the classification and in its admission, is released.
LEMMA ShippedIsReleased ==
  ASSUME CycleInv
  PROVE  /\ ShippedBranches(Seen) \subseteq ReleasedBranches
         /\ \A b : BranchHasShipped(Captures, b, Complete(main.events)) => b \in ReleasedBranches
<1>1. \A r \in Captures[Releases].body : r.v.branch \in ReleasedBranches
  BY ReleasesAreCaptured DEF Published, ReleasedBranches
<1>2. \A k \in DOMAIN main.events :
        k[1] \in PublishActions /\ main.events[k].state = "complete" => k[2] \in ReleasedBranches
  BY DEF CycleInv, Records, RecordsHold
<1>3. CompletedKeys(Seen) = Complete(main.events) /\ Seen.captures = Captures
  BY DEF CompletedKeys, Complete, Incomplete, Seen
<1>4. \A k \in Complete(main.events) : k[1] \in PublishActions => k[2] \in ReleasedBranches
  BY <1>2 DEF Complete, Incomplete
<1>5. \A v \in PublishedVersions(Seen) : v.branch \in ReleasedBranches
  BY <1>1, <1>3, <1>4 DEF PublishedVersions, Version, PublishActions
<1>6. ShippedBranches(Seen) \subseteq ReleasedBranches
  BY <1>3, <1>4, <1>5 DEF ShippedBranches, PublishActions
<1>7. \A b : BranchHasShipped(Captures, b, Complete(main.events)) => b \in ReleasedBranches
  BY <1>1, <1>4 DEF BranchHasShipped, PublishActions
<1> QED BY <1>6, <1>7

\* No rebuild is due here: every release was built from the recipe of its branch.
LEMMA NoRebuildIsDue ==
  ASSUME CycleInv
  PROVE  Decision.rebuild = None
<1>1. \A r \in released : r.recipe = 0
  BY DEF CycleInv, Outside, Release
<1>2. PendingRebuild(released, [b \in main.policy.branches |-> 0]) = None
  BY <1>1 DEF PendingRebuild, DueForRebuild, BranchHeads, Published
<1> QED BY <1>2 DEF Decision, WatchDecision

LEMMA RepairIsOfARelease ==
  ASSUME Decision.record # None
  PROVE  Decision.record.branch \in ReleasedBranches
<1> DEFINE recorded == {r.v : r \in {s \in released : ReleaseKey(s.v) \in DOMAIN main.events}}
<1>1. Decision.record # None => Decision.record = UnrecordedRelease(released, recorded)
  BY DEF Decision, WatchDecision
<1> HIDE DEF recorded
<1>2. PICK r \in Published(released) : Decision.record = r.v
  BY <1>1, UnrecordedIsPublished
<1> QED BY <1>2 DEF Published, ReleasedBranches

\* The rows the rules read are those of the page, one for each branch.
LEMMA RowsAreThePage ==
  ASSUME IInv, NEW b \in DOMAIN SupportRows(Captures[Page])
  PROVE  LET row == SupportRows(Captures[Page])[b] IN
         /\ b \in Branches
         /\ \E i \in DOMAIN page : page[i].branch = b /\ page[i] = row
         /\ b \in GoneBranches => row.state = "eol"
         /\ PageReads(Captures[Page]) /\ Outside /\ row.state = "eol" => b \in GoneBranches
<1> DEFINE i == CHOOSE j \in DOMAIN page : page[j].branch = b
           row == SupportRows(Captures[Page])[b]
<1>1. row = page[i] /\ i \in DOMAIN page /\ page[i].branch = b
  BY PageIsCaptured DEF SupportRows
<1>2. b \in Branches
  BY SeenIsInput DEF Seen
<1> HIDE DEF i, row
<1>3. b \in GoneBranches => row.state = "eol"
  BY <1>1 DEF GoneBranches
<1>4. ASSUME PageReads(Captures[Page]), Outside, row.state = "eol"
      PROVE  b \in GoneBranches
  <2>1. b \notin Coming
    BY <1>1, <1>4 DEF Outside
  <2>2. \A j \in DOMAIN page : page[j].branch = b => j = i
    BY <1>1, <1>4, PageIsCaptured DEF PageReads
  <2>3. \A j \in DOMAIN page : page[j].branch = b => page[j].state = "eol"
    BY <1>1, <1>4, <2>2
  <2> QED BY <1>2, <2>1, <2>3 DEF GoneBranches
<1> QED BY <1>1, <1>2, <1>3, <1>4 DEF row

\* Nothing on main is owed a record when a fresh edit is planned.
LEMMA FreshEditIsOnASettledCommit ==
  ASSUME IInv, CycleInv, ClassifyEvidence(Seen).edits, ClassifyEvidence(Seen).allowed # {}
  PROVE  /\ Incomplete(main.events) = {}
         /\ main.policy.key \in DOMAIN main.events \cup {<<"bootstrap">>}
<1> DEFINE rows == SupportRows(Captures[Page])
           key == main.policy.key
<1>1. Incomplete(main.events) = {}
  BY SeenIsInput, EditsAreFresh DEF Seen
<1>2. ~RetirementIsOwed(Seen, rows) /\ ~BranchResumePending(Seen)
  <2>1. Seen.captures = Captures
    BY DEF Seen
  <2> QED BY <2>1, SeenIsInput, FreshEditsWait
<1>3. PolicyHolds(main.policy, main.lists, GoneBranches)
  BY DEF CycleInv, Policy
<1>4. Seen.policyKey = key /\ Seen.maintained = main.policy.branches /\ Seen.events = main.events
  BY DEF Seen
<1>5. CASE key[1] = "new_branch"
  <2>1. key = NewBranchKey(key[2]) /\ key[2] \notin Maintained /\ key[2] \in main.policy.branches
    BY <1>3, <1>5 DEF PolicyHolds
  <2>2. key[2] \in ShippedBranches(Seen)
    BY <1>2, <1>4, <1>5, <2>1 DEF BranchResumePending
  <2>3. key[2] \in ReleasedBranches
    BY <2>2, ShippedIsReleased
  <2>4. NewBranchKey(key[2]) \in DOMAIN main.events
    BY <2>1, <2>3 DEF CycleInv, Records, RecordsHold
  <2> QED BY <1>1, <2>1, <2>4
<1>6. CASE key[1] = "branch_eol"
  <2>1. key[2] \notin main.policy.branches /\ key[2] \in GoneBranches
    BY <1>3, <1>6 DEF PolicyHolds
  <2>2. key[2] \in DOMAIN rows => rows[key[2]].state = "eol"
    BY <2>1, RowsAreThePage
  <2> HIDE DEF rows
  <2>3. key \in DOMAIN main.events
    BY <1>2, <1>4, <1>6, <2>1, <2>2 DEF RetirementIsOwed
  <2> QED BY <1>1, <2>3
<1>7. key = <<"bootstrap">> \/ key[1] \in {"new_branch", "branch_eol"}
  BY <1>3 DEF PolicyHolds, LifecycleActions
<1> QED BY <1>1, <1>5, <1>6, <1>7

LEMMA PlannedEditHolds ==
  ASSUME IInv, CycleInv, Admitted(ClassifyEvidence(Seen)), ClassifyEvidence(Seen).edits
  PROVE  IsEditOn(ClassifyEvidence(Seen), main, GoneBranches)
<1> DEFINE plan == ClassifyEvidence(Seen)
           rows == SupportRows(Captures[Page])
<1>1. plan.action \in LifecycleActions /\ plan.key[1] = plan.action
  BY AdmittedIsPlanOn, EditsAreFresh, SeenIsInput DEF IsPlanOn
<1>2. PolicyHolds(main.policy, main.lists, GoneBranches) /\ Outside
  BY DEF CycleInv, Policy
<1>3. CASE plan.allowed = {}
  <2>1. plan.key = main.policy.key
    <3>1. IsLifecycleResume(plan)
      BY <1>1, <1>3 DEF IsLifecycleResume
    <3> HIDE DEF plan
    <3> QED BY <3>1 DEF Admitted, ValidatePlan, ResumeIsOwed, LifecycleOnBase, TreeOf, plan
  <2> HIDE DEF plan
  <2> QED BY <1>1, <1>2, <1>3, <2>1 DEF IsEditOn, PolicyHolds, plan
<1>4. CASE plan.allowed # {}
  <2>1. /\ PageReads(Captures[Page])
        /\ \/ /\ plan.action = "new_branch"
              /\ \E b \in DOMAIN rows \ main.policy.branches :
                   plan.key = NewBranchKey(b) /\ rows[b].state \in SupportedStates
           \/ /\ plan.action = "branch_eol"
              /\ \E b \in DOMAIN rows : plan.key[2] = b /\ rows[b].state = "eol"
    <3>1. Seen.captures = Captures /\ Seen.maintained = main.policy.branches
      BY DEF Seen
    <3> QED BY <1>4, <3>1, SeenIsInput, FreshEditsWait
  <2>2. /\ Incomplete(main.events) = {}
        /\ main.policy.key \in DOMAIN main.events \cup {<<"bootstrap">>}
    BY <1>4, FreshEditIsOnASettledCommit
  <2> HIDE DEF plan
  <2>3. ASSUME plan.action = "new_branch"
        PROVE  plan.key = NewBranchKey(plan.key[2]) /\ plan.key[2] \notin Maintained
    <3>1. PICK b \in DOMAIN rows \ main.policy.branches :
            plan.key = NewBranchKey(b) /\ rows[b].state \in SupportedStates
      BY <2>1, <2>3
    <3>2. plan.key[2] = b
      BY <3>1 DEF NewBranchKey
    <3>3. b \notin GoneBranches
      BY <3>1, RowsAreThePage DEF SupportedStates
    <3> QED BY <1>2, <3>1, <3>2, <3>3 DEF PolicyHolds
  <2>4. ASSUME plan.action = "branch_eol"
        PROVE  plan.key[2] \in GoneBranches
    BY <1>2, <2>1, <2>4, RowsAreThePage
  <2> QED BY <2>2, <2>3, <2>4 DEF IsEditOn, plan
<1> QED BY <1>3, <1>4

LEMMA PlannedReleaseHolds ==
  ASSUME IInv, CycleInv, Admitted(ClassifyEvidence(Seen)),
         ClassifyEvidence(Seen).action \in PublishActions, ~ClassifyEvidence(Seen).edits
  PROVE  IsReleaseOf(ClassifyEvidence(Seen), ReleasedBranches)
<1> DEFINE plan == ClassifyEvidence(Seen)
<1>1. plan.action \in {"new_patch", "new_branch"} =>
        \/ plan.action = "new_patch" /\ plan.key = ReleaseKey(plan.version)
        \/ /\ plan.key \in Incomplete(main.events)
           /\ plan.action = plan.key[1] /\ plan.version.branch = plan.key[2]
  BY SeenIsInput, ReleasesAreKeyed DEF Seen
<1> HIDE DEF plan
<1>2. /\ PlanShape(plan, Captures, Complete(main.events), Decision.rebuild)
      /\ PlanActions(plan, Captures)
      /\ PatchExtendsShippedBranch(plan, Captures, Complete(main.events))
  BY DEF Admitted, ValidatePlan, plan
<1>3. plan.action # "recipe_rebuild"
  BY <1>2, NoRebuildIsDue DEF PlanShape
<1>4. plan.action \in {"new_patch", "new_branch"}
  BY <1>3 DEF plan, PublishActions
<1>5. plan.version # None /\ plan.version.rev = 0
  BY <1>2, <1>3, <1>4 DEF PlanActions, StableReleaseEvidence, StableReleaseActions
<1>6. plan.action = "new_patch" => plan.version.branch \in ReleasedBranches
  BY <1>2, ShippedIsReleased DEF PatchExtendsShippedBranch
<1>7. CASE plan.action = "new_patch" /\ plan.key = ReleaseKey(plan.version)
  <2>1. plan.key[1] = "new_patch" /\ plan.key[2] = plan.version.branch
    BY <1>5, <1>7 DEF ReleaseKey
  <2> QED BY <1>6, <1>7, <2>1 DEF IsReleaseOf, plan
<1>8. CASE plan.key \in Incomplete(main.events) /\ plan.action = plan.key[1]
           /\ plan.version.branch = plan.key[2]
  <2>1. plan.key[1] = "new_branch" => plan.key = NewBranchKey(plan.key[2])
    BY <1>8 DEF Incomplete, CycleInv, Records, RecordsHold
  <2> QED BY <1>4, <1>6, <1>8, <2>1 DEF IsReleaseOf, plan
<1> QED BY <1>1, <1>4, <1>7, <1>8

LEMMA InvestigateHolds ==
  ASSUME IInv, CycleInv, Investigate
  PROVE  CycleInv'
<1>1. PICK plan : /\ watcher' = [plan |-> plan, record |-> Decision.record, captures |-> Seen.captures,
                                 base |-> main, fresh |-> TRUE, inFlight |-> (publish # None),
                                 repaired |-> FALSE, merged |-> FALSE]
                  /\ plan = None \/ plan = ClassifyEvidence(Seen)
                  /\ plan # None => Admitted(plan)
  BY DEF Investigate
<1>2. /\ watcher'.plan = plan /\ watcher'.base = main /\ watcher'.record = Decision.record
  BY <1>1
<1>3. plan # None =>
        /\ plan.action = "branch_eol" => plan.key[1] = "branch_eol"
        /\ plan.edits => IsEditOn(plan, main, GoneBranches)
        /\ plan.action \in PublishActions /\ ~plan.edits => IsReleaseOf(plan, ReleasedBranches)
  <2> SUFFICES ASSUME plan # None
               PROVE  /\ plan.action = "branch_eol" => plan.key[1] = "branch_eol"
                      /\ plan.edits => IsEditOn(plan, main, GoneBranches)
                      /\ plan.action \in PublishActions /\ ~plan.edits =>
                           IsReleaseOf(plan, ReleasedBranches)
    OBVIOUS
  <2>1. plan = ClassifyEvidence(Seen) /\ Admitted(plan)
    BY <1>1
  <2>2. plan.action = "branch_eol" => plan.key[1] = "branch_eol"
    BY <2>1 DEF Admitted, ValidatePlan, PlanShape
  <2> QED BY <2>1, <2>2, PlannedEditHolds, PlannedReleaseHolds
<1>4. Advance(main.events, main.events)
  BY DEF Advance
<1>5. WatcherHolds(watcher', main, GoneBranches, ReleasedBranches)
  BY <1>2, <1>3, <1>4, RepairIsOfARelease DEF WatcherHolds
<1>6. UNCHANGED <<page, released, mise, main, implement, publish>>
  BY DEF Investigate, php
<1>7. Outside' /\ UNCHANGED <<GoneBranches, ReleasedBranches, ReleasedVersions, mise>>
  BY <1>6, OutsideStays DEF CycleInv
<1> QED BY <1>5, <1>6, <1>7 DEF CycleInv, Policy, Records, RunsHold

-----------------------------------------------------------------------------
(* The watcher's steps. *)

LEMMA RepairHolds ==
  ASSUME IInv, CycleInv, Repair
  PROVE  CycleInv'
<1>1. /\ IsWatcherRun(watcher, main.events)
      /\ WatcherHolds(watcher, main, GoneBranches, ReleasedBranches)
  BY DEF IInv, RunsAreTyped, Repair, CycleInv, RunsHold
<1>2. UNCHANGED <<page, released, mise, publish>>
  BY DEF Repair, php
<1>3. Outside' /\ UNCHANGED <<GoneBranches, ReleasedBranches, ReleasedVersions, mise>>
  BY <1>2, OutsideStays DEF CycleInv
<1>4. Advance(main.events, main'.events)
  BY RepairKeeps
<1>5. CASE RecordKey(watcher) \in DOMAIN main.events
  <2>1. watcher' = [watcher EXCEPT !.repaired = TRUE] /\ UNCHANGED <<main, implement>>
    BY <1>5 DEF Repair
  <2>2. /\ watcher'.base = watcher.base /\ watcher'.record = watcher.record
        /\ watcher'.plan = watcher.plan /\ watcher'.fresh = watcher.fresh
    BY <1>1, <2>1 DEF IsWatcherRun
  <2>3. WatcherHolds(watcher', main, GoneBranches, ReleasedBranches)
    BY <1>1, <2>2 DEF WatcherHolds
  <2> QED BY <1>2, <1>3, <2>1, <2>3 DEF CycleInv, Policy, Records, RunsHold
<1>6. CASE RecordKey(watcher) \notin DOMAIN main.events
  <2> DEFINE key == RecordKey(watcher)
             record == RecoveredRecord(key, watcher.record)
  <2>1. /\ main' = Recorded(main, record) /\ implement' = AllStale
        /\ watcher' = [watcher EXCEPT !.repaired = TRUE, !.merged = TRUE, !.fresh = FALSE]
    BY <1>6 DEF Repair
  <2>2. record.state = "complete" /\ record.key = key
    BY RecoveryIsAccepted DEF ReleaseEventRecorded
  <2>3. watcher.record # None
    BY DEF Repair, RepairIsDue, Route, RecoveryRoute, RecoveryKey, RecoveryCall, RecoveryAction, RecordKey
  <2>4. key[1] \in {"new_patch", "recipe_rebuild"} /\ key[2] = watcher.record.branch
    BY <2>3 DEF RecordKey, ReleaseKey
  <2>5. watcher.record.branch \in ReleasedBranches
    BY <1>1, <2>3 DEF WatcherHolds
  <2> HIDE DEF record, key
  <2>6. /\ PolicyHolds(main'.policy, main'.lists, GoneBranches)
        /\ RecordsHold(main'.events, main'.policy.key, ReleasedBranches)
    BY <2>1, <2>2, <2>4, <2>5, CompletionHolds
  <2>7. /\ watcher'.base = watcher.base /\ watcher'.record = watcher.record
        /\ watcher'.plan = watcher.plan /\ watcher'.fresh = FALSE
    BY <1>1, <2>1 DEF IsWatcherRun
  <2>8. WatcherHolds(watcher', main', GoneBranches, ReleasedBranches)
    <3> HIDE DEF GoneBranches, ReleasedBranches
    <3> QED BY <1>1, <1>4, <2>7, WatcherStays
  <2>9. /\ \A s \in Slots : implement'[s] # None => ImplementHolds(implement'[s], main', GoneBranches)
        /\ publish # None => PublishHolds(publish, main', ReleasedBranches, ReleasedVersions, mise)
    <3>1. RunsHold
      BY DEF CycleInv
    <3>2. \A s \in Slots : implement'[s] = Stale(implement[s])
      BY <2>1 DEF AllStale
    <3> QED BY <1>2, <1>4, <3>1, <3>2, StaleRunsHold
  <2> QED BY <1>2, <1>3, <2>6, <2>8, <2>9 DEF CycleInv, Policy, Records, RunsHold
<1> QED BY <1>5, <1>6

\* Steps that end the watcher run or note a failure, and move no record or policy.
LEMMA WatcherEndsHolds ==
  ASSUME IInv, CycleInv, RepairFails \/ RouteNothing \/ WatcherStops \/ RecordEvidence
  PROVE  CycleInv'
<1>1. UNCHANGED <<page, released, mise, main, publish>>
  BY DEF RepairFails, RouteNothing, WatcherStops, RecordEvidence, php
<1>2. Outside' /\ UNCHANGED <<GoneBranches, ReleasedBranches, ReleasedVersions, mise>>
  BY <1>1, OutsideStays DEF CycleInv
<1>3. watcher' # None => WatcherHolds(watcher', main, GoneBranches, ReleasedBranches)
  <2>1. CASE RepairFails
    <3>1. IsWatcherRun(watcher, main.events) /\ watcher' = [watcher EXCEPT !.repaired = TRUE]
      BY <2>1 DEF IInv, RunsAreTyped, RepairFails
    <3>2. /\ watcher'.base = watcher.base /\ watcher'.record = watcher.record
          /\ watcher'.plan = watcher.plan /\ watcher'.fresh = watcher.fresh
      BY <3>1 DEF IsWatcherRun
    <3>3. WatcherHolds(watcher, main, GoneBranches, ReleasedBranches)
      BY <2>1 DEF RepairFails, CycleInv, RunsHold
    <3> QED BY <3>2, <3>3 DEF WatcherHolds
  <2>2. CASE RouteNothing \/ WatcherStops \/ RecordEvidence
    BY <2>2 DEF RouteNothing, WatcherStops, RecordEvidence, Routes
  <2> QED BY <2>1, <2>2
<1>4. \A s \in Slots : implement'[s] # None => ImplementHolds(implement'[s], main, GoneBranches)
  <2>1. CASE implement' = implement
    BY <2>1 DEF CycleInv, RunsHold
  <2>2. CASE implement' = AllStale
    <3>1. Advance(main.events, main'.events) /\ RunsHold
      BY <1>1 DEF Advance, CycleInv
    <3>2. \A s \in Slots : implement'[s] = Stale(implement[s])
      BY <2>2 DEF AllStale
    <3> QED BY <1>1, <3>1, <3>2, StaleRunsHold
  <2> QED BY <2>1, <2>2 DEF RepairFails, RouteNothing, WatcherStops, RecordEvidence
<1> QED BY <1>1, <1>2, <1>3, <1>4 DEF CycleInv, Policy, Records, RunsHold

LEMMA DispatchHolds ==
  ASSUME IInv, CycleInv, DispatchImplementation \/ DispatchPublish
  PROVE  CycleInv'
<1>1. UNCHANGED <<page, released, mise, main>> /\ watcher # None /\ watcher' = None
  BY DEF DispatchImplementation, DispatchPublish, Routes, php
<1>2. Outside' /\ UNCHANGED <<GoneBranches, ReleasedBranches, ReleasedVersions, mise>>
  BY <1>1, OutsideStays DEF CycleInv
<1>3. WatcherHolds(watcher, main, GoneBranches, ReleasedBranches)
  BY <1>1 DEF CycleInv, RunsHold
<1>4. CASE DispatchImplementation
  <2> DEFINE free == {s \in Slots : implement[s] = None}
             run == [stage |-> "dispatched", plan |-> watcher.plan,
                     base |-> watcher.base, fresh |-> watcher.fresh]
             s == CHOOSE s \in free : TRUE
  <2>1. watcher.plan # None /\ watcher.plan.edits
    BY <1>4, RoutedPlans DEF DispatchImplementation, Routes
  <2>2. ImplementHolds(run, main, GoneBranches)
    BY <1>3, <2>1 DEF WatcherHolds, ImplementHolds
  <2>3. implement' = implement \/ (s \in Slots /\ implement' = [implement EXCEPT ![s] = run])
    BY <1>4 DEF DispatchImplementation
  <2> HIDE DEF run, s
  <2>4. \A t \in Slots : implement'[t] # None => ImplementHolds(implement'[t], main, GoneBranches)
    <3>1. \A t \in Slots : implement'[t] = implement[t] \/ implement'[t] = run
      BY <2>3 DEF IInv, RunsAreTyped
    <3> QED BY <2>2, <3>1 DEF CycleInv, RunsHold
  <2>5. publish' = publish
    BY <1>4 DEF DispatchImplementation
  <2> QED BY <1>1, <1>2, <2>4, <2>5 DEF CycleInv, Policy, Records, RunsHold
<1>5. CASE DispatchPublish
  <2> DEFINE run == [stage |-> "dispatched", plan |-> watcher.plan,
                     captures |-> watcher.captures, events |-> watcher.base.events]
  <2>1. watcher.plan # None /\ ~watcher.plan.edits /\ watcher.plan.action \in PublishActions
    BY <1>5, RoutedPlans DEF DispatchPublish, Routes
  <2>2. PublishHolds(run, main, ReleasedBranches, ReleasedVersions, mise)
    BY <1>3, <2>1 DEF WatcherHolds, PublishHolds
  <2>3. publish' = publish \/ publish' = run
    BY <1>5 DEF DispatchPublish
  <2> HIDE DEF run
  <2>4. implement' = implement
    BY <1>5 DEF DispatchPublish
  <2> QED BY <1>1, <1>2, <2>2, <2>3, <2>4 DEF CycleInv, Policy, Records, RunsHold
<1> QED BY <1>4, <1>5

LEMMA CompleteRetirementHolds ==
  ASSUME IInv, CycleInv, CompleteRetirement
  PROVE  CycleInv'
<1> DEFINE key == watcher.plan.key
           record == CompletedRetirement(main.events[key])
<1>1. UNCHANGED <<page, released, mise, publish>> /\ watcher # None /\ watcher' = None
  BY DEF CompleteRetirement, Routes, php
<1>2. Outside' /\ UNCHANGED <<GoneBranches, ReleasedBranches, ReleasedVersions, mise>>
  BY <1>1, OutsideStays DEF CycleInv
<1>3. CASE UNCHANGED <<main, implement>>
  BY <1>1, <1>2, <1>3 DEF CycleInv, Policy, Records, RunsHold
<1>4. CASE /\ key \in DOMAIN main.events
           /\ main.events[key].state \in {"php_bin_ready", "mise_ready"}
           /\ main' = Recorded(main, record) /\ implement' = AllStale
  <2>1. IsRecord(main.events[key]) /\ main.events[key].key = key
    BY <1>4 DEF IInv, IsCommit, AreEvents
  <2>2. record.state = "complete" /\ record.key = key
    BY <1>4, <2>1, RetirementIsAccepted DEF ValidCompletedRecord
  <2>3. watcher.plan # None /\ watcher.plan.action = "branch_eol"
    BY DEF CompleteRetirement, Routes, RouteOf, Route, PlanRoute
  <2>4. key[1] = "branch_eol"
    BY <1>1, <2>3 DEF CycleInv, RunsHold, WatcherHolds
  <2> HIDE DEF record, key
  <2>5. /\ PolicyHolds(main'.policy, main'.lists, GoneBranches)
        /\ RecordsHold(main'.events, main'.policy.key, ReleasedBranches)
    BY <1>4, <2>2, <2>4, CompletionHolds DEF PublishActions
  <2>6. Advance(main.events, main'.events) /\ RunsHold
    BY CompleteRetirementKeeps DEF CycleInv
  <2>7. \A s \in Slots : implement'[s] = Stale(implement[s])
    BY <1>4 DEF AllStale
  <2>8. /\ \A s \in Slots : implement'[s] # None => ImplementHolds(implement'[s], main', GoneBranches)
        /\ publish # None => PublishHolds(publish, main', ReleasedBranches, ReleasedVersions, mise)
    BY <1>1, <2>6, <2>7, StaleRunsHold
  <2> QED BY <1>1, <1>2, <2>5, <2>8 DEF CycleInv, Policy, Records, RunsHold
<1> QED BY <1>3, <1>4 DEF CompleteRetirement

-----------------------------------------------------------------------------
(* The implementation runs. *)

\* What is sealed changes the policy, unless it resumes an edit on its base.
LEMMA SealedEditMoves ==
  ASSUME NEW run, run.plan.action \in LifecycleActions, run.plan.edits, EditIsSealed(run)
  PROVE  /\ Edit(run).alreadyApplied => run.base.policy.key = run.plan.key
         /\ ~Edit(run).alreadyApplied =>
              run.plan.allowed # {} /\ PolicyMoves(run.plan, run.base)
<1> DEFINE base == TreeOf(run.base)
           tree == ApplyLifecyclePlan(run.plan, base)
<1>1. EditApplies(run.plan, base) /\ Seals(run.plan, base, tree)
  BY DEF EditIsSealed, EditedTree
<1>2. Edit(run).alreadyApplied <=> ChangedPaths(base, tree) = {}
  BY DEF Edit, EditedTree, Manifest
<1>3. base.policy = run.base.policy
  BY DEF TreeOf
<1>4. ASSUME ChangedPaths(base, tree) = {}
      PROVE  run.base.policy.key = run.plan.key
  BY <1>1, <1>3, <1>4 DEF Seals, LifecycleOnBase
<1>5. ASSUME ChangedPaths(base, tree) # {}
      PROVE  run.plan.allowed # {} /\ PolicyMoves(run.plan, run.base)
  <2>1. ~IsLifecycleResume(run.plan)
    <3> SUFFICES ASSUME IsLifecycleResume(run.plan) PROVE FALSE
      OBVIOUS
    <3>1. tree = base
      BY DEF ApplyLifecyclePlan
    <3>2. ChangedPaths(base, base) = {}
      BY DEF ChangedPaths
    <3> QED BY <1>5, <3>1, <3>2
  <2>2. run.plan.allowed # {}
    BY <2>1 DEF IsLifecycleResume
  <2>3. tree.policy.branches = EditedBranches(run.plan, base)
    BY <2>1 DEF ApplyLifecyclePlan
  <2>4. EditedBranches(run.plan, base) # base.policy.branches
    BY <1>1, <2>1 DEF EditApplies, EditedBranches
  <2> QED BY <1>3, <2>2, <2>3, <2>4 DEF PolicyMoves
<1> QED BY <1>2, <1>4, <1>5

\* Nothing but one implementation run moves.
LEMMA OneRunHolds ==
  ASSUME IInv, CycleInv, UNCHANGED <<page, released, mise, main, watcher, publish>>,
         NEW s \in Slots, NEW run, implement' = [implement EXCEPT ![s] = run],
         run # None => ImplementHolds(run, main, GoneBranches)
  PROVE  CycleInv'
<1>1. Outside' /\ UNCHANGED <<GoneBranches, ReleasedBranches, ReleasedVersions, mise>>
  BY OutsideStays DEF CycleInv
<1>2. \A t \in Slots : implement'[t] = implement[t] \/ implement'[t] = run
  BY DEF IInv, RunsAreTyped
<1>3. \A t \in Slots : implement'[t] # None => ImplementHolds(implement'[t], main, GoneBranches)
  BY <1>2 DEF CycleInv, RunsHold
<1> QED BY <1>1, <1>3 DEF CycleInv, Policy, Records, RunsHold

LEMMA VerifyEditHolds ==
  ASSUME IInv, CycleInv, NEW s \in Slots, VerifyEdit(s)
  PROVE  CycleInv'
<1> DEFINE run == implement[s]
           stage == IF Edit(run).alreadyApplied THEN "merged" ELSE "verified"
           next == [run EXCEPT !.stage = stage]
<1>1. /\ IsImplementRun(run, main.events) /\ ImplementHolds(run, main, GoneBranches)
      /\ run.stage = "dispatched" /\ EditIsSealed(run) /\ run.fresh
  BY DEF VerifyEdit, MergeIsAdmitted, VerifyMerge, IInv, RunsAreTyped, CycleInv, RunsHold
<1>2. /\ Edit(run).alreadyApplied => run.base.policy.key = run.plan.key
      /\ ~Edit(run).alreadyApplied => run.plan.allowed # {} /\ PolicyMoves(run.plan, run.base)
  BY <1>1, SealedEditMoves DEF IsImplementRun, IsPlanOn, IsRoutable
<1>3. /\ implement' = [implement EXCEPT ![s] = next]
      /\ UNCHANGED <<page, released, mise, main, watcher, publish>>
  BY DEF VerifyEdit, php
<1>4. run.base = main
  BY <1>1 DEF ImplementHolds
<1> HIDE DEF run
<1>5. /\ next.plan = run.plan /\ next.base = run.base /\ next.fresh = run.fresh
      /\ next.stage = stage
  BY <1>1 DEF IsImplementRun
<1> HIDE DEF next
<1>6. ImplementHolds(next, main, GoneBranches)
  BY <1>1, <1>2, <1>4, <1>5 DEF ImplementHolds
<1> QED BY <1>3, <1>6, OneRunHolds

LEMMA ImplementationStopsHolds ==
  ASSUME IInv, CycleInv, NEW s \in Slots, ImplementationStops(s)
  PROVE  CycleInv'
<1>1. /\ implement' = [implement EXCEPT ![s] = None]
      /\ UNCHANGED <<page, released, mise, main, watcher, publish>>
  BY DEF ImplementationStops, php
<1> QED BY <1>1, OneRunHolds

\* A verified edit merges over the very policy it was planned on, and over no record
\* that waits.
LEMMA MergeIsOverItsBase ==
  ASSUME IInv, CycleInv, NEW s \in Slots, MergeEdit(s)
  PROVE  /\ implement[s].base.policy = main.policy /\ implement[s].plan.allowed # {}
         /\ Incomplete(main.events) = {}
         /\ main.policy.key \in DOMAIN main.events \cup {<<"bootstrap">>}
<1> DEFINE run == implement[s]
           base == TreeOf(run.base)
           tree == EditedTree(run)
<1>1. /\ ImplementHolds(run, main, GoneBranches) /\ run.stage = "verified" /\ MergesCleanly(run)
  BY DEF MergeEdit, CycleInv, RunsHold
<1>2. /\ run.plan.allowed # {} /\ PolicyMoves(run.plan, run.base)
      /\ Advance(run.base.events, main.events) /\ IsEditOn(run.plan, run.base, GoneBranches)
  BY <1>1 DEF ImplementHolds
<1>3. run.base.policy = main.policy
  <2>1. PolicyPath \in ChangedPaths(base, tree)
    BY <1>2 DEF PolicyMoves, EditedTree, TreeOf, ChangedPaths
  <2>2. PolicyPath \in Edit(run).files
    BY <2>1 DEF Edit, Manifest
  <2>3. PolicyPath \notin ChangedPaths(base, TreeOf(main))
    BY <1>1, <2>2 DEF MergesCleanly
  <2> QED BY <2>3 DEF ChangedPaths, TreeOf
<1> HIDE DEF run
<1>4. /\ Incomplete(run.base.events) = {}
      /\ main.policy.key \in DOMAIN run.base.events \cup {<<"bootstrap">>}
  BY <1>2, <1>3 DEF IsEditOn
<1>5. \A k \in DOMAIN run.base.events :
        k \in DOMAIN main.events /\ main.events[k].state = "complete"
  BY <1>2, <1>4 DEF Incomplete, Advance
<1>6. Incomplete(main.events) = {}
  <2> SUFFICES ASSUME NEW k \in Incomplete(main.events) PROVE FALSE
    OBVIOUS
  <2>1. k \in DOMAIN main.events /\ main.events[k].state # "complete"
    BY DEF Incomplete
  <2>2. k = main.policy.key
    BY <2>1 DEF CycleInv, Records, RecordsHold
  <2>3. IsBound(main.events[k]) /\ main.events[k].key = k
    BY <2>1 DEF IInv, IsCommit, AreEvents
  <2>4. k[1] \in LifecycleActions
    BY <2>1, <2>3 DEF IsBound, ValidCompletedRecord, ValidReadinessRecord
  <2>5. k # <<"bootstrap">>
    BY <2>4 DEF LifecycleActions
  <2> QED BY <1>4, <1>5, <2>1, <2>2, <2>5
<1> QED BY <1>2, <1>3, <1>4, <1>5, <1>6 DEF run

LEMMA MergeEditHolds ==
  ASSUME IInv, CycleInv, NEW s \in Slots, MergeEdit(s)
  PROVE  CycleInv'
<1> DEFINE run == implement[s]
           tree == EditedTree(run)
           merged == [run EXCEPT !.stage = "merged"]
           branches == EditedBranches(run.plan, TreeOf(run.base))
<1>1. /\ IsImplementRun(run, main.events) /\ ImplementHolds(run, main, GoneBranches)
      /\ main' = [main EXCEPT !.policy = tree.policy, !.lists = @ \cup tree.lists]
      /\ implement' = [AllStale EXCEPT ![s] = merged] /\ watcher' = Stale(watcher)
      /\ UNCHANGED <<page, released, mise, publish>>
  BY DEF MergeEdit, php, IInv, RunsAreTyped, CycleInv, RunsHold
<1>2. Outside' /\ UNCHANGED <<GoneBranches, ReleasedBranches, ReleasedVersions, mise>>
  BY <1>1, OutsideStays DEF CycleInv
<1>3. /\ run.base.policy = main.policy /\ run.plan.allowed # {}
      /\ Incomplete(main.events) = {}
  BY MergeIsOverItsBase
<1> HIDE DEF run
<1>4. /\ tree.policy.branches = branches /\ tree.policy.key = run.plan.key
      /\ run.plan.action = "new_branch" => run.plan.key[2] \in tree.lists
  BY <1>3 DEF EditedTree, ApplyLifecyclePlan, IsLifecycleResume
<1> HIDE DEF tree
<1>5. /\ main'.policy = tree.policy /\ main'.lists = main.lists \cup tree.lists
      /\ main'.events = main.events
  BY <1>1 DEF IInv, IsCommit
<1>6. PolicyHolds(main'.policy, main'.lists, GoneBranches)
  <2>1. /\ run.plan.key[1] = run.plan.action /\ run.plan.action \in LifecycleActions
        /\ IsEditOn(run.plan, run.base, GoneBranches)
    BY <1>1 DEF IsImplementRun, IsPlanOn, IsRoutable, ImplementHolds
  <2>2. Maintained \ main.policy.branches \subseteq GoneBranches
    BY DEF CycleInv, Policy, PolicyHolds
  <2>3. branches = IF run.plan.action = "new_branch" THEN main.policy.branches \cup {run.plan.key[2]}
                   ELSE main.policy.branches \ {run.plan.key[2]}
    BY <1>3 DEF EditedBranches, TreeOf
  <2> HIDE DEF branches, GoneBranches
  <2>4. run.plan.action = "new_branch" \/ run.plan.action = "branch_eol"
    BY <2>1 DEF LifecycleActions
  <2> QED BY <1>4, <1>5, <2>1, <2>2, <2>3, <2>4 DEF PolicyHolds, IsEditOn
<1>7. RecordsHold(main'.events, main'.policy.key, ReleasedBranches)
  BY <1>3, <1>5 DEF CycleInv, Records, RecordsHold, Incomplete
<1>8. Advance(main.events, main'.events) /\ RunsHold
  BY <1>5 DEF Advance, CycleInv
<1>9. ImplementHolds(merged, main', GoneBranches)
  <2>1. merged.plan = run.plan /\ merged.base = run.base /\ merged.stage = "merged"
    BY <1>1 DEF IsImplementRun
  <2> HIDE DEF merged
  <2> QED BY <1>1, <1>4, <1>5, <2>1 DEF ImplementHolds
<1>10. \A t \in Slots : implement'[t] = Stale(implement[t]) \/ implement'[t] = merged
  BY <1>1 DEF AllStale
<1> HIDE DEF merged
<1>11. /\ watcher' # None => WatcherHolds(watcher', main', GoneBranches, ReleasedBranches)
       /\ \A t \in Slots : implement'[t] # None => ImplementHolds(implement'[t], main', GoneBranches)
       /\ publish # None => PublishHolds(publish, main', ReleasedBranches, ReleasedVersions, mise)
  BY <1>1, <1>8, <1>9, <1>10, StaleRunsHold
<1> QED BY <1>1, <1>2, <1>6, <1>7, <1>11 DEF CycleInv, Policy, Records, RunsHold

LEMMA RecordReadinessHolds ==
  ASSUME IInv, CycleInv, NEW s \in Slots, RecordReadiness(s)
  PROVE  CycleInv'
<1> DEFINE run == implement[s]
           key == run.plan.key
           record == ReadinessRecord(key, main.policy)
           events == [k \in DOMAIN main.events \cup {record.key} |->
                        IF k = record.key THEN record ELSE main.events[k]]
<1>1. /\ IsImplementRun(run, main.events) /\ ImplementHolds(run, main, GoneBranches)
      /\ run.stage = "merged" /\ run.fresh
      /\ main' = Recorded(main, record)
      /\ implement' = [AllStale EXCEPT ![s] = None] /\ watcher' = Stale(watcher)
      /\ UNCHANGED <<page, released, mise, publish>>
  BY DEF RecordReadiness, MayRecordReadiness, php, IInv, RunsAreTyped, CycleInv, RunsHold
<1>2. Outside' /\ UNCHANGED <<GoneBranches, ReleasedBranches, ReleasedVersions, mise>>
  BY <1>1, OutsideStays DEF CycleInv
<1> HIDE DEF run
<1>3. /\ key = main.policy.key /\ key[1] = run.plan.action /\ key[1] \in LifecycleActions
      /\ key[1] = "new_branch" => key = NewBranchKey(key[2])
  BY <1>1 DEF IsImplementRun, IsPlanOn, IsRoutable, ImplementHolds, IsEditOn
<1>4. record.key = key /\ record.state = "php_bin_ready"
  BY <1>3, ReadinessIsAccepted DEF ValidReadinessRecord
<1>5. main'.policy = main.policy /\ main'.lists = main.lists /\ main'.events = events
  BY <1>1 DEF Recorded, IInv, IsCommit
<1> HIDE DEF record, key
<1>6. RecordsHold(events, main.policy.key, ReleasedBranches)
  <2>1. RecordsHold(main.events, main.policy.key, ReleasedBranches)
    BY DEF CycleInv, Records
  <2> QED BY <1>3, <1>4, <2>1 DEF RecordsHold
<1>7. PolicyHolds(main'.policy, main'.lists, GoneBranches)
  BY <1>5 DEF CycleInv, Policy
<1>8. RecordsHold(main'.events, main'.policy.key, ReleasedBranches)
  BY <1>5, <1>6
<1>9. Advance(main.events, main'.events) /\ RunsHold
  BY RecordReadinessKeeps DEF CycleInv
<1>10. \A t \in Slots : implement'[t] = Stale(implement[t]) \/ implement'[t] = None
  BY <1>1 DEF AllStale
<1>11. /\ watcher' # None => WatcherHolds(watcher', main', GoneBranches, ReleasedBranches)
       /\ \A t \in Slots : implement'[t] # None => ImplementHolds(implement'[t], main', GoneBranches)
       /\ publish # None => PublishHolds(publish, main', ReleasedBranches, ReleasedVersions, mise)
  BY <1>1, <1>9, <1>10, StaleRunsHold
<1> QED BY <1>1, <1>2, <1>7, <1>8, <1>11 DEF CycleInv, Policy, Records, RunsHold

-----------------------------------------------------------------------------
(* The publish run. *)

\* Only the publish run moves, and main not at all.
LEMMA OnePublishHolds ==
  ASSUME IInv, CycleInv, UNCHANGED <<page, released, mise, main, watcher, implement>>,
         publish' # None => PublishHolds(publish', main, ReleasedBranches, ReleasedVersions, mise)
  PROVE  CycleInv'
<1>1. Outside' /\ UNCHANGED <<GoneBranches, ReleasedBranches, ReleasedVersions, mise>>
  BY OutsideStays DEF CycleInv
<1> QED BY <1>1 DEF CycleInv, Policy, Records, RunsHold

LEMMA CheckReleaseHolds ==
  ASSUME IInv, CycleInv, CheckRelease
  PROVE  CycleInv'
<1>1. /\ IsPublishRun(publish)
      /\ PublishHolds(publish, main, ReleasedBranches, ReleasedVersions, mise)
      /\ FirstReleaseIsAllowed(publish)
      /\ publish' = [publish EXCEPT !.stage = "checked"]
      /\ UNCHANGED <<page, released, mise, main, watcher, implement>>
  BY DEF CheckRelease, php, IInv, RunsAreTyped, CycleInv, RunsHold
<1>2. publish'.plan = publish.plan /\ publish'.events = publish.events /\ publish'.stage = "checked"
  BY <1>1 DEF IsPublishRun
<1>3. ASSUME publish.plan.action = "new_branch"
      PROVE  Waits(publish, mise)
  <2> DEFINE key == publish.plan.key
  <2>1. /\ key \in DOMAIN publish.events /\ publish.events[key].state = "php_bin_ready"
        /\ MiseIsReady(publish.events[key]) /\ publish.events[key].key = key
    BY <1>1, <1>3 DEF FirstReleaseIsAllowed, IsPublishRun, AreEvents
  <2>2. /\ key \in DOMAIN mise /\ mise[key].ready
        /\ mise[key].policy = publish.events[key].policy
    BY <2>1 DEF MiseIsReady, ReadinessFile
  <2>3. /\ mise[key] = [policy |-> mise[key].policy, ready |-> mise[key].ready]
        /\ mise[key].ready \in BOOLEAN
    BY <2>2 DEF CycleInv, Outside
  <2>4. mise[key].ready = TRUE
    BY <2>2, <2>3
  <2> QED BY <2>1, <2>2, <2>3, <2>4 DEF Waits
<1>4. PublishHolds(publish', main, ReleasedBranches, ReleasedVersions, mise)
  BY <1>1, <1>2, <1>3 DEF PublishHolds, Waits
<1> QED BY <1>1, <1>4, OnePublishHolds

LEMMA PublishStopsHolds ==
  ASSUME IInv, CycleInv, PublishStops
  PROVE  CycleInv'
BY OnePublishHolds DEF PublishStops, php

\* More is released, ended and answered: what the runs hold stays.
LEMMA RunsOutliveTheWorld ==
  ASSUME RunsHold, UNCHANGED <<main, watcher, implement>>,
         GoneBranches \subseteq GoneBranches', ReleasedBranches \subseteq ReleasedBranches',
         ReleasedVersions \subseteq ReleasedVersions',
         \A k \in DOMAIN mise : k \in DOMAIN mise' /\ (mise[k].ready = TRUE => mise'[k] = mise[k])
  PROVE  /\ watcher # None => WatcherHolds(watcher, main, GoneBranches', ReleasedBranches')
         /\ \A s \in Slots : implement[s] # None => ImplementHolds(implement[s], main, GoneBranches')
         /\ publish # None =>
              PublishHolds(publish, main, ReleasedBranches', ReleasedVersions', mise')
<1>1. Advance(main.events, main.events)
  BY DEF Advance
<1> HIDE DEF GoneBranches, ReleasedBranches, ReleasedVersions
<1>2. watcher # None => WatcherHolds(watcher, main, GoneBranches', ReleasedBranches')
  BY <1>1, WatcherStays DEF RunsHold
<1>3. \A s \in Slots : implement[s] # None => ImplementHolds(implement[s], main, GoneBranches')
  BY <1>1, ImplementStays DEF RunsHold
<1>4. ASSUME publish # None
      PROVE  PublishHolds(publish, main, ReleasedBranches', ReleasedVersions', mise')
  <2>1. PublishHolds(publish, main, ReleasedBranches, ReleasedVersions, mise)
    BY <1>4 DEF RunsHold
  <2>2. Waits(publish, mise) => Waits(publish, mise')
    BY DEF Waits
  <2>3. IsReleaseOf(publish.plan, ReleasedBranches')
    BY <2>1 DEF PublishHolds, IsReleaseOf
  <2> QED BY <2>1, <2>2, <2>3 DEF PublishHolds
<1> QED BY <1>2, <1>3, <1>4

\* What is released was known: a branch that shipped, or one whose record waits.
LEMMA ReleaseIsKnown ==
  ASSUME IInv, CycleInv, PublishRelease
  PROVE  LET v == publish.plan.version
             key == NewBranchKey(v.branch)
         IN
         \/ v.branch \in ReleasedBranches
         \/ /\ v.branch \notin ReleasedBranches
            /\ key \in DOMAIN main.events /\ main.events[key].state = "php_bin_ready"
            /\ key \in DOMAIN mise
            /\ mise[key] = [policy |-> main.events[key].policy, ready |-> TRUE]
<1> DEFINE v == publish.plan.version
           key == NewBranchKey(v.branch)
<1>1. /\ PublishHolds(publish, main, ReleasedBranches, ReleasedVersions, mise)
      /\ publish.stage = "checked"
  BY DEF PublishRelease, CycleInv, RunsHold
<1>2. CASE v.branch \notin ReleasedBranches
  <2>1. publish.plan.action = "new_branch" /\ publish.plan.key = key
    BY <1>1, <1>2 DEF PublishHolds, IsReleaseOf
  <2>2. Waits(publish, mise)
    BY <1>1, <2>1 DEF PublishHolds
  <2>3. key \in DOMAIN main.events /\ main.events[key].state = "complete" => v.branch \in ReleasedBranches
    <3>1. key[1] \in PublishActions /\ key[2] = v.branch
      BY DEF NewBranchKey, PublishActions
    <3> HIDE DEF key
    <3> QED BY <3>1 DEF CycleInv, Records, RecordsHold
  <2> HIDE DEF key, v
  <2>4. key \in DOMAIN main.events /\ main.events[key] = publish.events[key]
    BY <1>1, <1>2, <2>1, <2>2, <2>3 DEF PublishHolds, Waits, Advance
  <2> QED BY <1>2, <2>1, <2>2, <2>4 DEF Waits, key, v
<1> QED BY <1>2

LEMMA PublishReleaseHolds ==
  ASSUME IInv, CycleInv, PublishRelease
  PROVE  CycleInv'
<1> DEFINE v == publish.plan.version
<1>1. /\ IsPublishRun(publish)
      /\ PublishHolds(publish, main, ReleasedBranches, ReleasedVersions, mise)
      /\ publish.stage = "checked" /\ publish # None
      /\ publish' = [publish EXCEPT !.stage = "released"]
      /\ UNCHANGED <<page, mise, main, watcher, implement>>
  BY DEF PublishRelease, php, IInv, RunsAreTyped, CycleInv, RunsHold
<1>2. \/ released' = released /\ IsPublished(v)
      \/ released' = released \cup {Release(v)}
  BY DEF PublishRelease
<1>3. Release(v).v = v
  BY DEF Release
<1>4. /\ released \subseteq released' /\ \E r \in released' : r.v = v
      /\ \A r \in released' : r \in released \/ r = Release(v)
  BY <1>2, <1>3 DEF IsPublished
<1>5. /\ ReleasedBranches \subseteq ReleasedBranches' /\ ReleasedVersions \subseteq ReleasedVersions'
      /\ v \in ReleasedVersions'
      /\ \A b \in ReleasedBranches' : b \in ReleasedBranches \/ b = v.branch
      /\ UNCHANGED GoneBranches
  BY <1>1, <1>3, <1>4 DEF ReleasedBranches, ReleasedVersions, GoneBranches
<1>6. Outside'
  BY <1>1, <1>3, <1>4 DEF CycleInv, Outside
<1>7. Records'
  <2>1. RecordsHold(main.events, main.policy.key, ReleasedBranches)
    BY DEF CycleInv, Records
  <2>2. v.branch \in ReleasedBranches \/ NewBranchKey(v.branch) \in DOMAIN main.events
    BY ReleaseIsKnown
  <2> HIDE DEF ReleasedBranches, v
  <2>3. RecordsHold(main.events, main.policy.key, ReleasedBranches')
    BY <1>5, <2>1, <2>2 DEF RecordsHold
  <2> QED BY <1>1, <2>3 DEF Records
<1>8. /\ watcher # None => WatcherHolds(watcher, main, GoneBranches', ReleasedBranches')
      /\ \A s \in Slots : implement[s] # None => ImplementHolds(implement[s], main, GoneBranches')
      /\ PublishHolds(publish, main, ReleasedBranches', ReleasedVersions', mise')
  BY <1>1, <1>5, RunsOutliveTheWorld DEF CycleInv
<1>9. /\ publish'.plan = publish.plan /\ publish'.events = publish.events
      /\ publish'.stage = "released"
  BY <1>1 DEF IsPublishRun
<1>10. PublishHolds(publish', main, ReleasedBranches', ReleasedVersions', mise')
  BY <1>1, <1>5, <1>8, <1>9 DEF PublishHolds, Waits
<1> QED BY <1>1, <1>5, <1>6, <1>7, <1>8, <1>10 DEF CycleInv, Policy, RunsHold

LEMMA RecordReleaseHolds ==
  ASSUME IInv, CycleInv, RecordRelease
  PROVE  CycleInv'
<1> DEFINE key == publish.plan.key
           record == FinalRecord(publish)
<1>1. /\ IsPublishRun(publish) /\ publish.stage = "released"
      /\ PublishHolds(publish, main, ReleasedBranches, ReleasedVersions, mise)
      /\ publish' = None /\ UNCHANGED <<page, released, mise>>
  BY DEF RecordRelease, php, IInv, RunsAreTyped, CycleInv, RunsHold
<1>2. Outside' /\ UNCHANGED <<GoneBranches, ReleasedBranches, ReleasedVersions, mise>>
  BY <1>1, OutsideStays DEF CycleInv
<1>3. CASE UNCHANGED <<main, watcher, implement>>
  BY <1>1, <1>2, <1>3 DEF CycleInv, Policy, Records, RunsHold
<1>4. CASE /\ main' = Recorded(main, record)
           /\ watcher' = Stale(watcher) /\ implement' = AllStale
  <2>1. record.state = "complete" /\ record.key = key
    BY <1>1, FinalRecordIsComplete DEF ReleaseEventRecorded
  <2>2. /\ key[1] = "new_branch" => key = NewBranchKey(key[2])
        /\ key[2] \in ReleasedBranches
    <3>1. publish.plan.version.branch \in ReleasedBranches
      BY <1>1 DEF PublishHolds, ReleasedVersions, ReleasedBranches
    <3>2. IsReleaseOf(publish.plan, ReleasedBranches)
      BY <1>1 DEF PublishHolds
    <3> QED BY <3>1, <3>2 DEF IsReleaseOf, NewBranchKey
  <2> HIDE DEF record, key
  <2>3. /\ PolicyHolds(main'.policy, main'.lists, GoneBranches)
        /\ RecordsHold(main'.events, main'.policy.key, ReleasedBranches)
    BY <1>4, <2>1, <2>2, CompletionHolds
  <2>4. Advance(main.events, main'.events) /\ RunsHold
    BY RecordReleaseKeeps DEF CycleInv
  <2>5. \A s \in Slots : implement'[s] = Stale(implement[s])
    BY <1>4 DEF AllStale
  <2>6. /\ watcher' # None => WatcherHolds(watcher', main', GoneBranches, ReleasedBranches)
        /\ \A s \in Slots : implement'[s] # None => ImplementHolds(implement'[s], main', GoneBranches)
    BY <1>1, <1>4, <2>4, <2>5, StaleRunsHold
  <2> QED BY <1>1, <1>2, <2>3, <2>6 DEF CycleInv, Policy, Records, RunsHold
<1> QED BY <1>3, <1>4 DEF RecordRelease

-----------------------------------------------------------------------------
(* php.net and mise-php, and the whole specification. *)

\* A branch php.net has ended stays ended: what it announces is another one.
LEMMA PageMovesOn ==
  ASSUME IInv, Outside, PageMoves
  PROVE  /\ GoneBranches \subseteq GoneBranches'
         /\ \A i \in DOMAIN page' : page'[i].state = "eol" => page'[i].branch \notin Coming
<1>1. page \in Seq(PageRows) /\ DOMAIN page = 1..Len(page) /\ Len(page) \in Nat
  BY LenProperties DEF IInv, WorldIsTyped
<1> DEFINE Later == \A i \in DOMAIN page' :
             \/ page'[i].state # "eol" /\ page'[i].branch \in Coming
             \/ page'[i].state = "eol" /\ page'[i].branch \in Ending
             \/ \E j \in DOMAIN page : page'[i] = page[j]
<1>2. ASSUME NEW b \in Coming, page' = Append(page, Row(b, "stable"))
      PROVE  Later
  <2>1. Row(b, "stable").branch = b /\ Row(b, "stable").state = "stable"
    BY DEF Row
  <2>2. \A i \in DOMAIN page' :
        \/ i \in DOMAIN page /\ page'[i] = page[i]
        \/ page'[i] = Row(b, "stable")
    <3> DEFINE S == PageRows \cup {Row(b, "stable")}
    <3>1. page \in Seq(S) /\ Row(b, "stable") \in S
      BY <1>1, SeqMonotonic
    <3> HIDE DEF S
    <3>2. /\ Len(page') = Len(page) + 1 /\ page' \in Seq(S)
          /\ \A i \in 1..Len(page) : page'[i] = page[i]
          /\ page'[Len(page) + 1] = Row(b, "stable")
      BY <1>2, <3>1, AppendProperties
    <3>3. DOMAIN page' = 1..(Len(page) + 1)
      BY <3>2, LenProperties
    <3> QED BY <1>1, <3>2, <3>3
  <2> QED BY <2>1, <2>2
<1>3. ASSUME NEW i \in DOMAIN page, page[i].branch \in Ending, page' = [page EXCEPT ![i].state = "eol"]
      PROVE  Later
  <2>1. page[i] \in PageRows
    BY <1>1
  <2>2. /\ [page[i] EXCEPT !.state = "eol"].branch = page[i].branch
        /\ [page[i] EXCEPT !.state = "eol"].state = "eol"
    BY <2>1 DEF PageRows
  <2>3. page' = [page EXCEPT ![i] = [page[i] EXCEPT !.state = "eol"]]
    BY <1>3
  <2> QED BY <1>1, <1>3, <2>2, <2>3
<1>4. ASSUME page # <<>>, page' = Tail(page)
      PROVE  Later
  <2>1. /\ Len(page') = Len(page) - 1 /\ page' \in Seq(PageRows)
        /\ \A i \in 1..Len(page') : page'[i] = page[i + 1]
    BY <1>1, <1>4, HeadTailProperties, LenProperties
  <2>2. DOMAIN page' = 1..Len(page')
    BY <2>1, LenProperties
  <2>3. \A i \in DOMAIN page' : i + 1 \in DOMAIN page /\ page'[i] = page[i + 1]
    BY <1>1, <2>1, <2>2
  <2> QED BY <2>3
<1>5. Later
  BY <1>2, <1>3, <1>4 DEF PageMoves
<1>6. \A i \in DOMAIN page' : page'[i].state = "eol" => page'[i].branch \notin Coming
  BY <1>5, NoReturn DEF Outside
<1>7. GoneBranches \subseteq GoneBranches'
  BY <1>5 DEF GoneBranches
<1> QED BY <1>6, <1>7

LEMMA WorldHolds ==
  ASSUME IInv, CycleInv, World
  PROVE  CycleInv'
<1>1. /\ UNCHANGED <<released, main, watcher, implement, publish>>
      /\ page' = page \/ PageMoves
  BY DEF World, FeedMoves, AggregateMoves, PageMoves, MiseSynchronizes, MiseIsMadeReady, php
<1>2. /\ GoneBranches \subseteq GoneBranches'
      /\ \A i \in DOMAIN page' : page'[i].state = "eol" => page'[i].branch \notin Coming
  BY <1>1, PageMovesOn DEF CycleInv, Outside, GoneBranches
<1> DEFINE Says(k) == mise'[k] = [policy |-> mise'[k].policy, ready |-> mise'[k].ready]
                      /\ mise'[k].ready \in BOOLEAN
           Keeps(k) == k \in DOMAIN mise' /\ (mise[k].ready = TRUE => mise'[k] = mise[k])
<1>3. (\A k \in DOMAIN mise : Keeps(k)) /\ (\A k \in DOMAIN mise' : Says(k))
  <2>1. \A k \in DOMAIN mise :
          mise[k] = [policy |-> mise[k].policy, ready |-> mise[k].ready] /\ mise[k].ready \in BOOLEAN
    BY DEF CycleInv, Outside
  <2>2. CASE mise' = mise
    BY <2>1, <2>2
  <2>3. ASSUME NEW key, MiseSynchronizes(key)
        PROVE  (\A k \in DOMAIN mise : Keeps(k)) /\ (\A k \in DOMAIN mise' : Says(k))
    <3>1. /\ mise' = [k \in DOMAIN mise \cup {key} |->
                        IF k = key THEN [policy |-> main.policy, ready |-> FALSE] ELSE mise[k]]
          /\ key \notin DOMAIN mise
      BY <2>3 DEF MiseSynchronizes
    <3> QED BY <2>1, <3>1
  <2>4. ASSUME NEW key \in DOMAIN mise, MiseIsMadeReady(key)
        PROVE  (\A k \in DOMAIN mise : Keeps(k)) /\ (\A k \in DOMAIN mise' : Says(k))
    <3> DEFINE answer == [mise[key] EXCEPT !.ready = TRUE]
    <3>1. mise' = [mise EXCEPT ![key] = answer] /\ ~mise[key].ready
      BY <2>4 DEF MiseIsMadeReady
    <3>2. answer = [policy |-> mise[key].policy, ready |-> TRUE]
      <4>1. mise[key] = [policy |-> mise[key].policy, ready |-> mise[key].ready]
        BY <2>1
      <4>2. \A p, b, t : [[policy |-> p, ready |-> b] EXCEPT !.ready = t] = [policy |-> p, ready |-> t]
        OBVIOUS
      <4>3. mise[key] = [policy |-> mise[key].policy, ready |-> mise[key].ready] =>
              answer = [[policy |-> mise[key].policy, ready |-> mise[key].ready] EXCEPT !.ready = TRUE]
        OBVIOUS
      <4> QED BY ZenonT(30), <4>1, <4>2, <4>3
    <3> HIDE DEF answer
    <3>3. /\ DOMAIN mise' = DOMAIN mise /\ mise'[key] = answer
          /\ \A k \in DOMAIN mise : k # key => mise'[k] = mise[k]
      BY <3>1
    <3>4. mise[key].ready # TRUE
      BY <3>1
    <3>5. Says(key)
      BY <3>2, <3>3
    <3>6. \A k \in DOMAIN mise' : Says(k)
      BY <2>1, <3>3, <3>5
    <3> QED BY <3>3, <3>4, <3>6
  <2>5. \/ mise' = mise
        \/ \E key \in DOMAIN main.events : MiseSynchronizes(key)
        \/ \E key \in DOMAIN mise : MiseIsMadeReady(key)
    BY DEF World, FeedMoves, AggregateMoves, PageMoves
  <2> QED BY <2>2, <2>3, <2>4, <2>5
<1>4. UNCHANGED <<ReleasedBranches, ReleasedVersions>>
  BY <1>1 DEF ReleasedBranches, ReleasedVersions
<1>5. Outside'
  BY <1>1, <1>2, <1>3 DEF CycleInv, Outside
<1>6. Policy' /\ Records'
  <2>1. PolicyHolds(main.policy, main.lists, GoneBranches)
    BY DEF CycleInv, Policy
  <2>2. \A ended : GoneBranches \subseteq ended => PolicyHolds(main.policy, main.lists, ended)
    BY <2>1 DEF PolicyHolds
  <2>3. PolicyHolds(main.policy, main.lists, GoneBranches')
    BY <1>2, <2>2
  <2> QED BY <1>1, <1>4, <2>3 DEF CycleInv, Policy, Records
<1>7. /\ watcher # None => WatcherHolds(watcher, main, GoneBranches', ReleasedBranches')
      /\ \A s \in Slots : implement[s] # None => ImplementHolds(implement[s], main, GoneBranches')
      /\ publish # None =>
           PublishHolds(publish, main, ReleasedBranches', ReleasedVersions', mise')
  BY <1>1, <1>2, <1>3, <1>4, RunsOutliveTheWorld DEF CycleInv
<1> QED BY <1>1, <1>5, <1>6, <1>7 DEF CycleInv, RunsHold

LEMMA InitHolds ==
  ASSUME Init
  PROVE  CycleInv
<1>1. DOMAIN <<>> = {}
  BY EmptySeq
<1>2. Outside
  <2>1. \A v : Release(v) = Release(Release(v).v)
    BY DEF Release
  <2>2. \A r \in released : r = Release(r.v)
    BY <2>1 DEF Init
  <2> QED BY <1>1, <2>2, NoReturn DEF Init, Outside
<1>3. Policy
  <2>1. main.policy.branches = Maintained /\ main.policy.key = <<"bootstrap">>
    BY DEF Init
  <2> QED BY <2>1 DEF Policy, PolicyHolds
<1>4. Records
  <2>1. \A b \in ReleasedBranches : b \in Maintained
    BY DEF Init, ReleasedBranches, Release, Version
  <2>2. DOMAIN main.events = {}
    BY <1>1 DEF Init
  <2> QED BY <2>1, <2>2 DEF Records, RecordsHold
<1>5. RunsHold
  BY DEF Init, RunsHold
<1> QED BY <1>2, <1>3, <1>4, <1>5 DEF CycleInv

LEMMA CycleStepHolds ==
  ASSUME IInv, CycleInv, [Next]_vars
  PROVE  CycleInv'
<1>1. CASE System
  <2>1. ASSUME NEW s \in Slots, VerifyEdit(s) \/ MergeEdit(s) \/ RecordReadiness(s)
        PROVE  CycleInv'
    BY <2>1, VerifyEditHolds, MergeEditHolds, RecordReadinessHolds
  <2>2. CASE Investigate \/ Repair \/ Dispatch
    BY <2>2, InvestigateHolds, RepairHolds, WatcherEndsHolds, DispatchHolds,
       CompleteRetirementHolds DEF Dispatch
  <2>3. CASE CheckRelease \/ PublishRelease \/ RecordRelease
    BY <2>3, CheckReleaseHolds, PublishReleaseHolds, RecordReleaseHolds
  <2> QED BY <1>1, <2>1, <2>2, <2>3 DEF System
<1>2. CASE Faults
  BY <1>2, WatcherEndsHolds, PublishStopsHolds, ImplementationStopsHolds DEF Faults
<1>3. CASE World
  BY <1>3, WorldHolds
<1>4. CASE UNCHANGED vars
  <2>1. UNCHANGED <<page, released, mise, main, watcher, implement, publish>>
    BY <1>4 DEF vars
  <2>2. Outside' /\ UNCHANGED <<GoneBranches, ReleasedBranches, ReleasedVersions, mise>>
    BY <2>1, OutsideStays DEF CycleInv
  <2> QED BY <2>1, <2>2 DEF CycleInv, Policy, Records, RunsHold
<1> QED BY <1>1, <1>2, <1>3, <1>4 DEF Next

\* Every run, however stale its commit, holds an edit or a release that main, the page
\* and the releases still have room for.
THEOREM CycleInvariance == Spec => [](IInv /\ CycleInv)
<1>1. Init => IInv /\ CycleInv
  BY InitIsTyped, InitHolds
<1>2. IInv /\ CycleInv /\ [Next]_vars => IInv' /\ CycleInv'
  BY StepKeeps, CycleStepHolds
<1> QED BY <1>1, <1>2, PTL DEF Spec

\* The only incomplete record is that of the edit the policy stands for, however many
\* implementation runs are alive: at most one branch is entering or leaving.
THEOREM OneAtATime == Spec => []OneLifecycleInFlight
<1>1. CycleInv => OneLifecycleInFlight
  BY DEF CycleInv, Records, RecordsHold, OneLifecycleInFlight, Incomplete
<1> QED BY <1>1, CycleInvariance, PTL

\* A fresh edit never overwrites the policy key of an edit whose record is still owed:
\* the merge checks files and no records, and that is enough.
THEOREM OwedResumesAreKept == Spec => OwedResumeSurvives
<1>1. ASSUME IInv, CycleInv, [Next]_vars, main'.policy.key # main.policy.key
      PROVE  main.policy.key = <<"bootstrap">> \/ main.policy.key \in DOMAIN main.events
  <2>1. \A tree, record : Recorded(tree, record).policy = tree.policy \/ "policy" \notin DOMAIN tree
    BY DEF Recorded
  <2>2. "policy" \in DOMAIN main
    BY <1>1 DEF IInv, IsCommit
  <2>3. \A record : Recorded(main, record).policy = main.policy
    BY <2>1, <2>2
  <2>4. \E s \in Slots : MergeEdit(s)
    <3>1. CASE System
      BY <1>1, <2>3, <3>1 DEF System, Investigate, Repair, Dispatch, RouteNothing, RecordEvidence,
         DispatchImplementation, DispatchPublish, CompleteRetirement, VerifyEdit, RecordReadiness,
         CheckRelease, PublishRelease, RecordRelease
    <3>2. CASE Faults
      BY <1>1, <3>2, WatcherEndsKeeps, PublishMovesKeep, ImplementationStopsKeeps DEF Faults
    <3>3. CASE World
      BY <1>1, <3>3, WorldKeeps
    <3>4. CASE UNCHANGED vars
      BY <1>1, <3>4 DEF vars
    <3> QED BY <1>1, <3>1, <3>2, <3>3, <3>4 DEF Next
  <2> QED BY <1>1, <2>4, MergeIsOverItsBase
<1>2. IInv /\ CycleInv /\ [Next]_vars =>
        [main'.policy.key # main.policy.key =>
           main.policy.key = <<"bootstrap">> \/ main.policy.key \in DOMAIN main.events]_vars
  BY <1>1
<1> QED BY <1>2, CycleInvariance, PTL DEF Spec, OwedResumeSurvives

\* The first release on a branch is public only while its record waits for it, the
\* policy maintains it and mise-php is ready for exactly that policy, although the run
\* that publishes it read an older commit.
THEOREM FirstReleasesAreReady == Spec => FirstReleaseIsReady
<1> DEFINE IsReady(r) ==
             LET key == NewBranchKey(r.v.branch) IN
             /\ key \in DOMAIN main.events /\ main.events[key].state = "php_bin_ready"
             /\ key \in DOMAIN mise
             /\ mise[key] = [policy |-> main.events[key].policy, ready |-> TRUE]
             /\ r.v.branch \in main.policy.branches \cap main.lists
<1>1. ASSUME IInv, CycleInv, [Next]_vars, NEW r \in released' \ released,
             \A s \in released : s.v.branch # r.v.branch
      PROVE  IsReady(r)
  <2> DEFINE v == publish.plan.version
             key == NewBranchKey(v.branch)
  <2>1. PublishRelease
    BY <1>1 DEF Next, System, Faults, World, Investigate, Repair, Dispatch, RouteNothing,
       RecordEvidence, DispatchImplementation, DispatchPublish, CompleteRetirement, VerifyEdit,
       MergeEdit, RecordReadiness, CheckRelease, RecordRelease, RepairFails, WatcherStops,
       PublishStops, ImplementationStops, FeedMoves, AggregateMoves, PageMoves,
       MiseSynchronizes, MiseIsMadeReady, vars
  <2>2. r.v = v
    BY <1>1, <2>1 DEF PublishRelease, Release
  <2>3. v.branch \notin ReleasedBranches
    BY <1>1, <2>2 DEF ReleasedBranches
  <2>4. /\ key \in DOMAIN main.events /\ main.events[key].state = "php_bin_ready"
        /\ key \in DOMAIN mise
        /\ mise[key] = [policy |-> main.events[key].policy, ready |-> TRUE]
    BY <1>1, <2>1, <2>3, ReleaseIsKnown
  <2>5. key = main.policy.key
    BY <1>1, <2>4 DEF CycleInv, Records, RecordsHold
  <2>6. key[1] = "new_branch" /\ key[2] = v.branch
    BY DEF NewBranchKey
  <2> HIDE DEF key
  <2>7. v.branch \in main.policy.branches \cap main.lists
    BY <1>1, <2>5, <2>6 DEF CycleInv, Policy, PolicyHolds
  <2> QED BY <2>2, <2>4, <2>7 DEF key
<1>2. IInv /\ CycleInv /\ [Next]_vars =>
        [\A r \in released' \ released : (\A s \in released : s.v.branch # r.v.branch) => IsReady(r)]_vars
  BY <1>1
<1> QED BY <1>2, CycleInvariance, PTL DEF Spec, FirstReleaseIsReady

-----------------------------------------------------------------------------
(***************************************************************************)
(* Every edit can be made.                                                 *)
(*                                                                         *)
(* A run keeps its plan and its commit to its end, so what admission and   *)
(* the classification promise of the two holds whenever the run comes to   *)
(* apply them.                                                             *)
(***************************************************************************)
LEMMA StaleKeepsThePlan ==
  ASSUME IInv
  PROVE  /\ Stale(watcher) # None =>
              /\ watcher # None /\ Stale(watcher).plan = watcher.plan
              /\ Stale(watcher).base = watcher.base
         /\ \A s \in Slots : Stale(implement[s]) # None =>
              /\ implement[s] # None /\ Stale(implement[s]).plan = implement[s].plan
              /\ Stale(implement[s]).base = implement[s].base
<1>1. ASSUME Stale(watcher) # None
      PROVE  /\ watcher # None /\ Stale(watcher).plan = watcher.plan
             /\ Stale(watcher).base = watcher.base
  <2>1. watcher # None
    BY <1>1 DEF Stale
  <2> QED BY <2>1, StaleFields DEF IInv, RunsAreTyped, IsWatcherRun
<1>2. ASSUME NEW s \in Slots, Stale(implement[s]) # None
      PROVE  /\ implement[s] # None /\ Stale(implement[s]).plan = implement[s].plan
             /\ Stale(implement[s]).base = implement[s].base
  <2>1. implement[s] # None
    BY <1>2 DEF Stale
  <2>2. DOMAIN implement[s] = {"stage", "plan", "base", "fresh"}
    BY <2>1 DEF IInv, RunsAreTyped, IsImplementRun
  <2> QED BY <2>1, <2>2, StaleFields
<1> QED BY <1>1, <1>2

WatcherKeepsItsPlan ==
  watcher' # None =>
    watcher # None /\ watcher'.plan = watcher.plan /\ watcher'.base = watcher.base

ImplementKeepsItsPlan(s) ==
  implement'[s] # None =>
    \/ /\ implement[s] # None /\ implement'[s].plan = implement[s].plan
       /\ implement'[s].base = implement[s].base
    \/ /\ watcher # None /\ watcher.plan # None /\ watcher.plan.edits
       /\ implement'[s].plan = watcher.plan /\ implement'[s].base = watcher.base

\* Plans come from the investigation, and runs from the watcher's plan.
LEMMA PlansAreKept ==
  ASSUME IInv, [Next]_vars
  PROVE  /\ Investigate \/ WatcherKeepsItsPlan
         /\ \A s \in Slots : ImplementKeepsItsPlan(s)
<1>1. watcher' = watcher => WatcherKeepsItsPlan
  BY DEF WatcherKeepsItsPlan
<1>2. watcher' = Stale(watcher) \/ watcher' = None => WatcherKeepsItsPlan
  BY StaleKeepsThePlan DEF WatcherKeepsItsPlan
<1>3. Repair \/ RepairFails => WatcherKeepsItsPlan
  <2> SUFFICES ASSUME Repair \/ RepairFails PROVE WatcherKeepsItsPlan
    OBVIOUS
  <2>1. IsWatcherRun(watcher, main.events) /\ watcher # None
    BY DEF Repair, RepairFails, IInv, RunsAreTyped
  <2>2. \/ watcher' = [watcher EXCEPT !.repaired = TRUE]
        \/ watcher' = [watcher EXCEPT !.repaired = TRUE, !.merged = TRUE, !.fresh = FALSE]
    BY DEF Repair, RepairFails
  <2>3. watcher'.plan = watcher.plan /\ watcher'.base = watcher.base
    BY <2>1, <2>2 DEF IsWatcherRun
  <2> QED BY <2>1, <2>3 DEF WatcherKeepsItsPlan
<1>4. Investigate \/ WatcherKeepsItsPlan
  BY <1>1, <1>2, <1>3 DEF Next, System, Faults, World, Dispatch, RouteNothing, RecordEvidence,
     DispatchImplementation, DispatchPublish, CompleteRetirement, Routes, VerifyEdit, MergeEdit,
     RecordReadiness, CheckRelease, PublishRelease, RecordRelease, WatcherStops, PublishStops,
     ImplementationStops, FeedMoves, AggregateMoves, PageMoves, MiseSynchronizes,
     MiseIsMadeReady, vars
<1> DEFINE ImplementsKeep == \A s \in Slots : ImplementKeepsItsPlan(s)
<1>5. implement' = implement => ImplementsKeep
  BY DEF ImplementKeepsItsPlan
<1>6. \A s \in Slots : implement'[s] = Stale(implement[s]) \/ implement'[s] = None =>
        ImplementKeepsItsPlan(s)
  BY StaleKeepsThePlan DEF ImplementKeepsItsPlan
<1>7. implement' = AllStale => ImplementsKeep
  BY <1>6 DEF AllStale
<1>8. ASSUME NEW s \in Slots, VerifyEdit(s) \/ MergeEdit(s) \/ RecordReadiness(s) \/ ImplementationStops(s)
      PROVE  ImplementsKeep
  <2> DEFINE stage == IF VerifyEdit(s) /\ ~Edit(implement[s]).alreadyApplied
                      THEN "verified" ELSE "merged"
             moved == [implement[s] EXCEPT !.stage = stage]
  <2>1. IsImplementRun(implement[s], main.events) /\ implement[s] # None
    BY <1>8 DEF VerifyEdit, MergeEdit, RecordReadiness, ImplementationStops, IInv, RunsAreTyped
  <2>2. moved.plan = implement[s].plan /\ moved.base = implement[s].base
    BY <2>1 DEF IsImplementRun
  <2>3. \/ implement' = [implement EXCEPT ![s] = moved]
        \/ implement' = [AllStale EXCEPT ![s] = moved]
        \/ implement' = [AllStale EXCEPT ![s] = None]
        \/ implement' = [implement EXCEPT ![s] = None]
    BY <1>8 DEF VerifyEdit, MergeEdit, RecordReadiness, ImplementationStops
  <2> HIDE DEF moved
  <2>4. implement'[s] = moved \/ implement'[s] = None
    BY <2>3 DEF AllStale, IInv, RunsAreTyped
  <2>5. \A t \in Slots \ {s} : implement'[t] = implement[t] \/ implement'[t] = Stale(implement[t])
    BY <2>3 DEF AllStale, IInv, RunsAreTyped
  <2>6. ImplementKeepsItsPlan(s)
    BY <2>1, <2>2, <2>4 DEF ImplementKeepsItsPlan
  <2>7. \A t \in Slots : implement'[t] = implement[t] => ImplementKeepsItsPlan(t)
    BY DEF ImplementKeepsItsPlan
  <2> QED BY <1>6, <2>5, <2>6, <2>7
<1>9. DispatchImplementation => ImplementsKeep
  <2> SUFFICES ASSUME DispatchImplementation PROVE ImplementsKeep
    OBVIOUS
  <2> DEFINE free == {s \in Slots : implement[s] = None}
             run == [stage |-> "dispatched", plan |-> watcher.plan,
                     base |-> watcher.base, fresh |-> watcher.fresh]
             one == CHOOSE s \in free : TRUE
  <2>1. watcher # None /\ watcher.plan # None /\ watcher.plan.edits
    BY RoutedPlans DEF DispatchImplementation, Routes
  <2>2. implement' = implement \/ implement' = [implement EXCEPT ![one] = run]
    BY DEF DispatchImplementation
  <2>3. run.plan = watcher.plan /\ run.base = watcher.base
    OBVIOUS
  <2> HIDE DEF run, one
  <2>4. \A s \in Slots : implement'[s] = implement[s] \/ implement'[s] = run
    BY <2>2 DEF IInv, RunsAreTyped
  <2> QED BY <2>1, <2>3, <2>4 DEF ImplementKeepsItsPlan
<1> HIDE DEF ImplementsKeep
<1>10. ImplementsKeep
  <2>1. CASE \E s \in Slots : VerifyEdit(s) \/ MergeEdit(s) \/ RecordReadiness(s) \/ ImplementationStops(s)
    BY <1>8, <2>1
  <2>2. CASE DispatchImplementation
    BY <1>9, <2>2
  <2>3. CASE implement' = implement \/ implement' = AllStale
    BY <1>5, <1>7, <2>3
  <2> QED BY <2>1, <2>2, <2>3 DEF Next, System, Faults, World, Investigate, Repair, Dispatch,
       RouteNothing, RecordEvidence, DispatchPublish, CompleteRetirement, CheckRelease,
       PublishRelease, RecordRelease, RepairFails, WatcherStops, PublishStops,
       FeedMoves, AggregateMoves, PageMoves, MiseSynchronizes, MiseIsMadeReady, vars
<1> QED BY <1>4, <1>10 DEF ImplementsKeep

\* Only a merge moves the policy or the module lists.
LEMMA MergesMoveThePolicy ==
  ASSUME IInv, [Next]_vars, \A s \in Slots : ~MergeEdit(s)
  PROVE  main'.policy = main.policy /\ main'.lists = main.lists
<1>1. DOMAIN main = {"policy", "lists", "events"}
  BY DEF IInv, IsCommit
<1>2. \A record : /\ Recorded(main, record).policy = main.policy
                  /\ Recorded(main, record).lists = main.lists
  BY <1>1 DEF Recorded
<1>3. CASE System
  BY <1>2, <1>3 DEF System, Investigate, Repair, Dispatch, RouteNothing, RecordEvidence,
     DispatchImplementation, DispatchPublish, CompleteRetirement, VerifyEdit, RecordReadiness,
     CheckRelease, PublishRelease, RecordRelease
<1>4. CASE Faults
  BY <1>4, WatcherEndsKeeps, PublishMovesKeep, ImplementationStopsKeeps DEF Faults
<1>5. CASE World
  BY <1>5, WorldKeeps
<1>6. CASE UNCHANGED vars
  BY <1>6 DEF vars
<1> QED BY <1>3, <1>4, <1>5, <1>6 DEF Next

\* An edit its own commit allows, where every branch has its module list.
Fits(plan, commit) ==
  /\ commit.policy.branches \subseteq commit.lists
  /\ EditApplies(plan, TreeOf(commit))
  /\ Seals(plan, TreeOf(commit), ApplyLifecyclePlan(plan, TreeOf(commit)))

\* A first branch php.net keeps: the policy never loses its last branch, whose
\* list the next one copies.
IsKept(b) ==
  /\ b \in Maintained \ Ending
  /\ \E i \in DOMAIN FirstPage : FirstPage[i].branch = b /\ FirstPage[i].state # "eol"

Stays(b) == \E i \in DOMAIN page : page[i].branch = b /\ page[i].state # "eol"

EditsFit ==
  /\ watcher # None /\ watcher.plan # None /\ watcher.plan.edits => Fits(watcher.plan, watcher.base)
  /\ \A s \in Slots : implement[s] # None => Fits(implement[s].plan, implement[s].base)

SupplyInv(b) ==
  /\ Stays(b)
  /\ main.policy.branches \subseteq main.lists /\ ValidPolicy(main.policy)
  /\ EditsFit

LEMMA BranchStays ==
  ASSUME NEW b, IsKept(b), IInv, Stays(b), [Next]_vars
  PROVE  Stays(b)'
<1>1. page \in Seq(PageRows) /\ DOMAIN page = 1..Len(page) /\ Len(page) \in Nat
  BY LenProperties DEF IInv, WorldIsTyped
<1>2. PICK i \in DOMAIN page : page[i].branch = b /\ page[i].state # "eol"
  BY DEF Stays
<1>3. CASE UNCHANGED page
  BY <1>3 DEF Stays
<1>4. CASE PageMoves
  <2>1. ASSUME NEW c \in Coming, page' = Append(page, Row(c, "stable"))
        PROVE  Stays(b)'
    <3> DEFINE S == PageRows \cup {Row(c, "stable")}
    <3>1. page \in Seq(S) /\ Row(c, "stable") \in S
      BY <1>1, SeqMonotonic
    <3> HIDE DEF S
    <3>2. /\ Len(page') = Len(page) + 1 /\ page' \in Seq(S)
          /\ \A j \in 1..Len(page) : page'[j] = page[j]
      BY <2>1, <3>1, AppendProperties
    <3>3. DOMAIN page' = 1..(Len(page) + 1)
      BY <3>2, LenProperties
    <3>4. i \in DOMAIN page' /\ page'[i] = page[i]
      BY <1>1, <3>2, <3>3
    <3> QED BY <1>2, <3>4 DEF Stays
  <2>2. ASSUME NEW j \in DOMAIN page, page[j].branch \in Ending, page' = [page EXCEPT ![j].state = "eol"]
        PROVE  Stays(b)'
    <3>1. i # j
      BY <1>2, <2>2 DEF IsKept
    <3>2. i \in DOMAIN page' /\ page'[i] = page[i]
      BY <1>1, <2>2, <3>1
    <3> QED BY <1>2, <3>2 DEF Stays
  <2>3. ASSUME page # <<>>, Head(page).state = "eol", page' = Tail(page)
        PROVE  Stays(b)'
    <3>1. /\ Len(page') = Len(page) - 1 /\ page' \in Seq(PageRows)
          /\ \A j \in 1..Len(page') : page'[j] = page[j + 1]
          /\ Head(page) = page[1]
      BY <1>1, <2>3, HeadTailProperties, LenProperties
    <3>2. DOMAIN page' = 1..Len(page')
      BY <3>1, LenProperties
    <3>3. i # 1
      BY <1>2, <2>3, <3>1
    <3>4. i - 1 \in DOMAIN page' /\ page'[i - 1] = page[(i - 1) + 1] /\ (i - 1) + 1 = i
      BY <1>1, <3>1, <3>2, <3>3
    <3> QED BY <1>2, <3>4 DEF Stays
  <2> QED BY <1>4, <2>1, <2>2, <2>3 DEF PageMoves
<1>5. CASE System \/ Faults
  BY <1>3, <1>5 DEF System, Faults, Investigate, Repair, RepairFails, Dispatch, RouteNothing,
     RecordEvidence, DispatchImplementation, DispatchPublish, CompleteRetirement, VerifyEdit,
     MergeEdit, RecordReadiness, CheckRelease, PublishRelease, RecordRelease, WatcherStops,
     PublishStops, ImplementationStops, php
<1>6. World => PageMoves \/ UNCHANGED page
  BY DEF World, FeedMoves, AggregateMoves, MiseSynchronizes, MiseIsMadeReady, php
<1> QED BY <1>3, <1>4, <1>5, <1>6 DEF Next, vars

\* A kept branch is in the policy: only what php.net ended leaves it.
LEMMA KeptIsMaintained ==
  ASSUME NEW b, IsKept(b), CycleInv, Stays(b)
  PROVE  b \in main.policy.branches
<1>1. b \notin GoneBranches
  BY DEF Stays, GoneBranches
<1> QED BY <1>1 DEF IsKept, CycleInv, Policy, PolicyHolds

\* What a plan may change covers what its edit writes.
LEMMA FreshEditSeals ==
  ASSUME NEW plan, NEW base, plan.action \in LifecycleActions, plan.key[1] = plan.action, plan.edits,
         plan.evidence # {}, ValidPolicy(base.policy), EditApplies(plan, base),
         plan.allowed = (IF plan.action = "new_branch" THEN {ListPath(plan.key[2]), PolicyPath}
                         ELSE {PolicyPath})
  PROVE  Seals(plan, base, ApplyLifecyclePlan(plan, base))
<1> DEFINE tree == ApplyLifecyclePlan(plan, base)
<1>1. ~IsLifecycleResume(plan)
  BY DEF IsLifecycleResume
<1>2. /\ tree.policy.branches = EditedBranches(plan, base) /\ tree.policy.key = plan.key
      /\ tree.policy.evidence = {item.digest : item \in plan.evidence}
      /\ tree.lists = base.lists \cup (IF plan.action = "new_branch" THEN {plan.key[2]} ELSE {})
  BY <1>1 DEF ApplyLifecyclePlan
<1> HIDE DEF tree
<1>3. tree.policy # base.policy
  <2>1. EditedBranches(plan, base) # base.policy.branches
    BY <1>1 DEF EditApplies, EditedBranches
  <2> QED BY <1>2, <2>1
<1>4. PolicyPath \in ChangedPaths(base, tree)
  BY <1>3 DEF ChangedPaths
<1>5. ChangedPaths(base, tree) \subseteq plan.allowed
  BY <1>2 DEF ChangedPaths
<1>6. ValidPolicy(tree.policy)
  BY <1>2 DEF ValidPolicy
<1> QED BY <1>2, <1>4, <1>5, <1>6 DEF Seals, tree

\* An edit that resumes leaves its commit as it is.
LEMMA ResumeSeals ==
  ASSUME NEW plan, NEW base, IsLifecycleResume(plan), LifecycleOnBase(plan, base)
  PROVE  EditApplies(plan, base) /\ Seals(plan, base, ApplyLifecyclePlan(plan, base))
<1>1. ApplyLifecyclePlan(plan, base) = base
  BY DEF ApplyLifecyclePlan
<1>2. ChangedPaths(base, base) = {}
  BY DEF ChangedPaths
<1> QED BY <1>1, <1>2 DEF Seals, EditApplies, IsLifecycleResume, LifecycleOnBase

LEMMA PlannedEditFits ==
  ASSUME NEW b, IsKept(b), IInv, CycleInv, SupplyInv(b),
         Admitted(ClassifyEvidence(Seen)), ClassifyEvidence(Seen).edits
  PROVE  Fits(ClassifyEvidence(Seen), main)
<1> DEFINE plan == ClassifyEvidence(Seen)
           rows == SupportRows(Captures[Page])
           base == TreeOf(main)
<1>1. plan.action \in LifecycleActions /\ plan.key[1] = plan.action
  BY AdmittedIsPlanOn, EditsAreFresh, SeenIsInput DEF IsPlanOn
<1>2. base.policy = main.policy /\ base.lists = main.lists
  BY DEF TreeOf
<1>3. plan.evidence # {} /\ (IsLifecycleResume(plan) => LifecycleOnBase(plan, base))
  <2> HIDE DEF plan, base
  <2> QED BY DEF Admitted, ValidatePlan, ResumeIsOwed, PlanActions, EvidenceResolves, plan, base
<1>4. ValidPolicy(base.policy) /\ main.policy.branches \subseteq main.lists
  BY <1>2 DEF SupplyInv
<1>5. CASE plan.allowed = {}
  <2>1. IsLifecycleResume(plan)
    BY <1>1, <1>5 DEF IsLifecycleResume
  <2> HIDE DEF plan, base
  <2>2. EditApplies(plan, base) /\ Seals(plan, base, ApplyLifecyclePlan(plan, base))
    BY <1>3, <2>1, ResumeSeals
  <2> QED BY <1>4, <2>2 DEF Fits, plan, base
<1>6. CASE plan.allowed # {}
  <2>1. \/ /\ plan.action = "new_branch"
           /\ \E c \in DOMAIN rows \ main.policy.branches :
                /\ plan.key = NewBranchKey(c) /\ plan.allowed = {ListPath(c), PolicyPath}
                /\ \A d \in main.policy.branches : ~(c < d)
        \/ /\ plan.action = "branch_eol" /\ plan.allowed = {PolicyPath}
           /\ plan.key[2] \in main.policy.branches
    <3>1. Seen.captures = Captures /\ Seen.maintained = main.policy.branches
      BY DEF Seen
    <3> QED BY <1>6, <3>1, SeenIsInput, FreshEditsWait
  <2>2. \A c \in DOMAIN rows : c \in Branches
    BY RowsAreThePage
  <2>3. plan.edits /\ ~IsLifecycleResume(plan)
    BY <1>6 DEF IsLifecycleResume
  <2>4. main.policy.branches \subseteq Branches
    BY DEF IInv, IsCommit
  <2> HIDE DEF plan, base, rows
  <2>5. CASE plan.action = "new_branch"
    <3>1. PICK c \in DOMAIN rows \ main.policy.branches :
            /\ plan.key = NewBranchKey(c) /\ plan.allowed = {ListPath(c), PolicyPath}
            /\ \A d \in main.policy.branches : ~(c < d)
      BY <2>1, <2>5
    <3>2. plan.key[2] = c
      BY <3>1 DEF NewBranchKey
    <3> DEFINE older == {d \in base.policy.branches : d < c}
    <3>3. older = main.policy.branches
      <4>1. c \in Nat /\ c \notin main.policy.branches /\ main.policy.branches \subseteq Nat
        BY <2>2, <2>4, <3>1, BranchAssumption
      <4>2. \A d \in main.policy.branches : d < c
        <5> SUFFICES ASSUME NEW d \in main.policy.branches PROVE d < c
          OBVIOUS
        <5>1. d \in Nat /\ d # c /\ ~(c < d)
          BY <3>1, <4>1
        <5> QED BY <4>1, <5>1
      <4> QED BY <1>2, <4>2
    <3>4. b \in older
      BY <3>3, KeptIsMaintained DEF SupplyInv
    <3>5. older \subseteq Nat /\ c \in Nat /\ \A d \in older : d <= c
      <4>1. older \subseteq Nat /\ c \in Nat
        BY <2>2, <2>4, <3>1, <3>3, BranchAssumption
      <4> QED BY <4>1
    <3> HIDE DEF older
    <3>6. \E d \in older : \A e \in older : e <= d
      BY <3>4, <3>5, GreatestOfSome
    <3>7. older # {} /\ \E d \in base.lists : d \in older /\ \A e \in older : e <= d
      BY <1>2, <1>4, <3>3, <3>4, <3>6
    <3>8. HasAList(base, c)
      BY <3>7 DEF HasAList, older
    <3>9. EditApplies(plan, base)
      BY <1>1, <1>2, <1>4, <2>3, <2>5, <3>1, <3>2, <3>8 DEF EditApplies
    <3>10. Seals(plan, base, ApplyLifecyclePlan(plan, base))
      BY <1>1, <1>3, <1>4, <2>3, <2>5, <3>1, <3>2, <3>9, FreshEditSeals
    <3> QED BY <1>4, <3>9, <3>10 DEF Fits, plan, base
  <2>6. CASE plan.action = "branch_eol"
    <3>1. plan.allowed = {PolicyPath} /\ plan.key[2] \in base.policy.branches
      BY <1>2, <2>1, <2>6
    <3>2. EditApplies(plan, base)
      BY <1>1, <1>4, <2>3, <2>6, <3>1 DEF EditApplies
    <3>3. Seals(plan, base, ApplyLifecyclePlan(plan, base))
      BY <1>1, <1>3, <1>4, <2>3, <2>6, <3>1, <3>2, FreshEditSeals
    <3> QED BY <1>4, <3>2, <3>3 DEF Fits, plan, base
  <2> QED BY <1>1, <2>5, <2>6 DEF LifecycleActions
<1> QED BY <1>5, <1>6

\* A merge leaves a valid policy, whose branches all have their lists.
LEMMA MergeFits ==
  ASSUME IInv, CycleInv, main.policy.branches \subseteq main.lists,
         NEW s \in Slots, MergeEdit(s), EditIsSealed(implement[s])
  PROVE  main'.policy.branches \subseteq main'.lists /\ ValidPolicy(main'.policy)
<1> DEFINE run == implement[s]
           base == TreeOf(run.base)
           tree == ApplyLifecyclePlan(run.plan, base)
<1>1. /\ Seals(run.plan, base, tree) /\ PolicyMoves(run.plan, run.base) /\ run.plan.allowed # {}
      /\ run.base.policy = main.policy
  BY MergeIsOverItsBase DEF MergeEdit, EditIsSealed, EditedTree, CycleInv, RunsHold, ImplementHolds
<1>2. main'.policy = tree.policy /\ main'.lists = main.lists \cup tree.lists
  BY DEF MergeEdit, EditedTree, IInv, IsCommit
<1> HIDE DEF run
<1>3. PolicyPath \in ChangedPaths(base, tree)
  BY <1>1 DEF PolicyMoves, ChangedPaths, TreeOf
<1>4. ValidPolicy(tree.policy)
  BY <1>1, <1>3 DEF Seals
<1>5. tree.policy.branches \subseteq main.policy.branches \cup tree.lists
  BY <1>1 DEF ApplyLifecyclePlan, IsLifecycleResume, EditedBranches, TreeOf
<1> QED BY <1>2, <1>4, <1>5

LEMMA SupplyStepHolds ==
  ASSUME NEW b, IsKept(b), IInv, CycleInv, SupplyInv(b), [Next]_vars
  PROVE  SupplyInv(b)'
<1>1. Stays(b)'
  BY BranchStays DEF SupplyInv
<1>2. main'.policy.branches \subseteq main'.lists /\ ValidPolicy(main'.policy)
  <2>1. ASSUME NEW s \in Slots, MergeEdit(s)
        PROVE  main'.policy.branches \subseteq main'.lists /\ ValidPolicy(main'.policy)
    <3>1. EditIsSealed(implement[s])
      BY <2>1 DEF MergeEdit, SupplyInv, EditsFit, Fits, EditIsSealed, EditedTree
    <3> QED BY <2>1, <3>1, MergeFits DEF SupplyInv
  <2>2. CASE \A s \in Slots : ~MergeEdit(s)
    BY <2>2, MergesMoveThePolicy DEF SupplyInv
  <2> QED BY <2>1, <2>2
<1>3. watcher' # None /\ watcher'.plan # None /\ watcher'.plan.edits =>
        Fits(watcher'.plan, watcher'.base)
  <2>1. CASE Investigate
    <3>1. PICK plan : /\ watcher' = [plan |-> plan, record |-> Decision.record, captures |-> Seen.captures,
                                     base |-> main, fresh |-> TRUE, inFlight |-> (publish # None),
                                     repaired |-> FALSE, merged |-> FALSE]
                      /\ plan = None \/ plan = ClassifyEvidence(Seen)
                      /\ plan # None => Admitted(plan)
      BY <2>1 DEF Investigate
    <3>2. watcher'.plan = plan /\ watcher'.base = main
      BY <3>1
    <3> QED BY <3>1, <3>2, PlannedEditFits
  <2>2. CASE WatcherKeepsItsPlan
    BY <2>2 DEF WatcherKeepsItsPlan, SupplyInv, EditsFit
  <2> QED BY <2>1, <2>2, PlansAreKept
<1>4. \A s \in Slots : implement'[s] # None => Fits(implement'[s].plan, implement'[s].base)
  BY PlansAreKept DEF ImplementKeepsItsPlan, SupplyInv, EditsFit
<1> QED BY <1>1, <1>2, <1>3, <1>4 DEF SupplyInv, EditsFit

\* As long as php.net keeps one of the first branches, an admitted edit can always be
\* applied and sealed: its branch is in the policy or not, as the edit needs it, a
\* list can be copied, and what it writes is what it may change.
THEOREM EditsApply ==
  ASSUME NEW b, IsKept(b)
  PROVE  Spec => []EveryEditApplies
<1>1. Init => SupplyInv(b)
  <2> SUFFICES ASSUME Init PROVE SupplyInv(b)
    OBVIOUS
  <2>1. Stays(b)
    BY DEF Init, IsKept, Stays
  <2>2. main.policy.branches \subseteq main.lists /\ ValidPolicy(main.policy)
    BY DEF Init, ValidPolicy
  <2>3. EditsFit
    BY DEF Init, EditsFit
  <2> QED BY <2>1, <2>2, <2>3 DEF SupplyInv
<1>2. IInv /\ CycleInv /\ SupplyInv(b) /\ [Next]_vars => SupplyInv(b)'
  BY SupplyStepHolds
<1>3. SupplyInv(b) => EveryEditApplies
  BY DEF SupplyInv, EditsFit, EveryEditApplies, Fits, EditIsSealed, EditedTree
<1> QED BY <1>1, <1>2, <1>3, CycleInvariance, PTL DEF Spec

-----------------------------------------------------------------------------
(***************************************************************************)
(* Every plan is admitted.                                                 *)
(*                                                                         *)
(* Main and php.net only ever hold what PlansAreAccepted asks of a         *)
(* reading: feeds that name plain versions, a valid policy whose branches  *)
(* have their lists, records of the branches that entered and left it, and *)
(* keys that are values.                                                   *)
(***************************************************************************)
FeedsAreNumbered == own \in [Branches -> Nat \cup {None}] /\ aggregate \in PlainVersions

LifecycleKeys == ({"new_branch"} \X Nat) \cup ({"branch_eol"} \X Nat \X Nat)

\* What the edits are of, on main and in the runs.
EditsAreKeyed ==
  /\ main.policy.key \in LifecycleKeys \cup {<<"bootstrap">>}
  /\ watcher # None /\ watcher.plan # None /\ watcher.plan.edits =>
       watcher.plan.key \in LifecycleKeys
  /\ \A s \in Slots : implement[s] # None => implement[s].plan.key \in LifecycleKeys

EditsAreSealed ==
  \A s \in Slots :
    implement[s] # None /\ implement[s].stage = "verified" => EditIsSealed(implement[s])

CommitIsWhole == main.policy.branches \subseteq main.lists /\ ValidPolicy(main.policy)

\* The records of retirements are of branches that left, those of new branches of
\* branches that entered: the first branches only leave, and the others only enter.
RecordsMatch(events, branches) ==
  \A k \in DOMAIN events :
    /\ k[1] \in Families
    /\ k[1] = "branch_eol" => k[2] \in Maintained \ branches
    /\ k[1] = "new_branch" => k[2] \in branches \ Maintained

ReadingInv ==
  /\ FeedsAreNumbered /\ EditsAreKeyed /\ EditsAreSealed /\ CommitIsWhole
  /\ RecordsMatch(main.events, main.policy.branches)

LEMMA FeedsStayNumbered ==
  ASSUME FeedsAreNumbered, [Next]_vars
  PROVE  FeedsAreNumbered'
<1>1. CASE UNCHANGED <<own, aggregate>>
  BY <1>1 DEF FeedsAreNumbered
<1>2. ASSUME NEW b \in Branches, NEW p \in 0..LastPatch[b], FeedMoves(b, p) \/ AggregateMoves(b, p)
      PROVE  FeedsAreNumbered'
  <2>1. b \in Nat /\ p \in Nat
    BY BranchAssumption, PatchAssumption
  <2>2. Version(b, p) \in PlainVersions
    BY <2>1, VersionsAreValues
  <2>3. CASE FeedMoves(b, p)
    BY <2>1, <2>3 DEF FeedMoves, FeedsAreNumbered
  <2>4. CASE AggregateMoves(b, p)
    BY <2>2, <2>4 DEF AggregateMoves, FeedsAreNumbered
  <2> QED BY <1>2, <2>3, <2>4
<1>3. \/ UNCHANGED <<own, aggregate>>
      \/ \E b \in Branches : \E p \in 0..LastPatch[b] : FeedMoves(b, p) \/ AggregateMoves(b, p)
  BY DEF Next, System, Faults, World, Investigate, Repair, RepairFails, Dispatch, RouteNothing,
     RecordEvidence, DispatchImplementation, DispatchPublish, CompleteRetirement, VerifyEdit,
     MergeEdit, RecordReadiness, CheckRelease, PublishRelease, RecordRelease, WatcherStops,
     PublishStops, ImplementationStops, PageMoves, MiseSynchronizes, MiseIsMadeReady, php, vars
<1> QED BY <1>1, <1>2, <1>3

\* What is verified was sealed on its own commit, which no other step looks at again.
LEMMA SealsAreKept ==
  ASSUME IInv, EditsAreSealed, [Next]_vars
  PROVE  EditsAreSealed'
<1> DEFINE Sealed(t) == implement'[t] # None /\ implement'[t].stage = "verified" =>
                          EditIsSealed(implement'[t])
<1>1. \A run, next : next.plan = run.plan /\ next.base = run.base /\ EditIsSealed(run) =>
        EditIsSealed(next)
  BY DEF EditIsSealed, EditedTree
<1>2. \A t \in Slots : implement'[t] = implement[t] => Sealed(t)
  BY DEF EditsAreSealed
<1>3. \A t \in Slots : implement'[t] = None => Sealed(t)
  OBVIOUS
<1>4. ASSUME NEW t \in Slots, implement'[t] = Stale(implement[t])
      PROVE  Sealed(t)
  <2> SUFFICES ASSUME implement'[t] # None, implement'[t].stage = "verified"
               PROVE  EditIsSealed(implement'[t])
    OBVIOUS
  <2>1. implement[t] # None
    BY <1>4 DEF Stale
  <2>2. implement'[t] = [implement[t] EXCEPT !.fresh = FALSE]
    BY <1>4, <2>1 DEF Stale
  <2>3. DOMAIN implement[t] = {"stage", "plan", "base", "fresh"}
    BY <2>1 DEF IInv, RunsAreTyped, IsImplementRun
  <2> DEFINE run == implement[t]
             next == implement'[t]
  <2>4. run # None /\ next.stage = run.stage /\ next.plan = run.plan /\ next.base = run.base
    BY <2>1, <2>2, <2>3
  <2> QED BY <1>1, <2>4 DEF EditsAreSealed
<1>5. ASSUME NEW s \in Slots, VerifyEdit(s) \/ MergeEdit(s) \/ RecordReadiness(s) \/ ImplementationStops(s)
      PROVE  \A t \in Slots : Sealed(t)
  <2> DEFINE stage == IF VerifyEdit(s) /\ ~Edit(implement[s]).alreadyApplied
                      THEN "verified" ELSE "merged"
             moved == [implement[s] EXCEPT !.stage = stage]
  <2>1. IsImplementRun(implement[s], main.events) /\ implement[s] # None
    BY <1>5 DEF VerifyEdit, MergeEdit, RecordReadiness, ImplementationStops, IInv, RunsAreTyped
  <2>2. moved.plan = implement[s].plan /\ moved.base = implement[s].base /\ moved.stage = stage
    BY <2>1 DEF IsImplementRun
  <2>3. \/ implement' = [implement EXCEPT ![s] = moved]
        \/ implement' = [AllStale EXCEPT ![s] = moved]
        \/ implement' = [AllStale EXCEPT ![s] = None]
        \/ implement' = [implement EXCEPT ![s] = None]
    BY <1>5 DEF VerifyEdit, MergeEdit, RecordReadiness, ImplementationStops
  <2>4. stage = "verified" => EditIsSealed(implement[s])
    BY DEF VerifyEdit, MergeIsAdmitted
  <2> HIDE DEF moved, stage
  <2>5. implement'[s] = moved \/ implement'[s] = None
    BY <2>3 DEF AllStale, IInv, RunsAreTyped
  <2>6. \A t \in Slots \ {s} : implement'[t] = implement[t] \/ implement'[t] = Stale(implement[t])
    BY <2>3 DEF AllStale, IInv, RunsAreTyped
  <2>7. Sealed(s)
    BY <1>1, <2>2, <2>4, <2>5
  <2> HIDE DEF Sealed
  <2> QED BY <1>2, <1>4, <2>6, <2>7
<1>6. ASSUME DispatchImplementation, NEW t \in Slots
      PROVE  Sealed(t)
  <2> DEFINE free == {s \in Slots : implement[s] = None}
             run == [stage |-> "dispatched", plan |-> watcher.plan,
                     base |-> watcher.base, fresh |-> watcher.fresh]
             one == CHOOSE s \in free : TRUE
  <2>1. implement' = implement \/ implement' = [implement EXCEPT ![one] = run]
    BY <1>6 DEF DispatchImplementation
  <2>2. run.stage = "dispatched"
    OBVIOUS
  <2> HIDE DEF run, one
  <2>3. implement'[t] = implement[t] \/ implement'[t] = run
    BY <2>1 DEF IInv, RunsAreTyped
  <2>4. CASE implement'[t] = run
    BY <2>2, <2>4
  <2> HIDE DEF Sealed
  <2> QED BY <1>2, <2>3, <2>4
<1> HIDE DEF Sealed
<1>7. \A t \in Slots : Sealed(t)
  <2>1. CASE \E s \in Slots : VerifyEdit(s) \/ MergeEdit(s) \/ RecordReadiness(s) \/ ImplementationStops(s)
    BY <1>5, <2>1
  <2>2. CASE DispatchImplementation
    BY <1>6, <2>2
  <2>3. CASE implement' = implement
    BY <1>2, <2>3
  <2>4. CASE implement' = AllStale
    BY <1>4, <2>4 DEF AllStale
  <2> QED BY <2>1, <2>2, <2>3, <2>4 DEF Next, System, Faults, World, Investigate, Repair, Dispatch,
       RouteNothing, RecordEvidence, DispatchPublish, CompleteRetirement, CheckRelease,
       PublishRelease, RecordRelease, RepairFails, WatcherStops, PublishStops,
       FeedMoves, AggregateMoves, PageMoves, MiseSynchronizes, MiseIsMadeReady, vars
<1> QED BY <1>7 DEF EditsAreSealed, Sealed

\* A record is filed first for the edit the policy stands for, or for a release.
LEMMA NewKeys ==
  ASSUME IInv, CycleInv, [Next]_vars, NEW k \in DOMAIN main'.events, k \notin DOMAIN main.events
  PROVE  /\ UNCHANGED <<main.policy, main.lists>>
         /\ k[1] \in {"new_patch", "recipe_rebuild"} \/ (k = main.policy.key /\ k[1] \in LifecycleActions)
<1>1. DOMAIN main = {"policy", "lists", "events"}
  BY DEF IInv, IsCommit
<1>2. \A record : /\ DOMAIN Recorded(main, record).events = DOMAIN main.events \cup {record.key}
                  /\ Recorded(main, record).policy = main.policy
                  /\ Recorded(main, record).lists = main.lists
  BY <1>1 DEF Recorded
<1>3. main' # main
  OBVIOUS
<1>4. CASE Repair
  <2> DEFINE record == RecoveredRecord(RecordKey(watcher), watcher.record)
  <2>1. main' = Recorded(main, record)
    BY <1>3, <1>4 DEF Repair
  <2>2. record.key = RecordKey(watcher)
    BY RecoveryIsAccepted
  <2>3. watcher.record # None
    BY <1>4 DEF Repair, RepairIsDue, Route, RecoveryRoute, RecoveryKey, RecoveryCall, RecoveryAction, RecordKey
  <2>4. RecordKey(watcher)[1] \in {"new_patch", "recipe_rebuild"}
    BY <2>3 DEF RecordKey, ReleaseKey
  <2> HIDE DEF record
  <2> QED BY <1>2, <2>1, <2>2, <2>4
<1>5. CASE CompleteRetirement
  <2> DEFINE key == watcher.plan.key
             record == CompletedRetirement(main.events[key])
  <2>1. /\ main' = Recorded(main, record) /\ key \in DOMAIN main.events
        /\ main.events[key].state \in {"php_bin_ready", "mise_ready"}
    BY <1>3, <1>5 DEF CompleteRetirement
  <2>2. IsRecord(main.events[key]) /\ main.events[key].key = key
    BY <2>1 DEF IInv, IsCommit, AreEvents
  <2>3. record.key = key
    BY <2>1, <2>2, RetirementIsAccepted
  <2> HIDE DEF record, key
  <2> QED BY <1>2, <2>1, <2>3
<1>6. ASSUME NEW s \in Slots, RecordReadiness(s)
      PROVE  /\ UNCHANGED <<main.policy, main.lists>>
             /\ k = main.policy.key /\ k[1] \in LifecycleActions
  <2> DEFINE run == implement[s]
             record == ReadinessRecord(run.plan.key, main.policy)
  <2>1. /\ IsImplementRun(run, main.events) /\ ImplementHolds(run, main, GoneBranches)
        /\ run.stage = "merged" /\ run.fresh /\ main' = Recorded(main, record)
    BY <1>6 DEF RecordReadiness, MayRecordReadiness, IInv, RunsAreTyped, CycleInv, RunsHold
  <2> HIDE DEF run
  <2>2. run.plan.key = main.policy.key /\ run.plan.key[1] \in LifecycleActions
    BY <2>1 DEF IsImplementRun, IsPlanOn, IsRoutable, ImplementHolds
  <2>3. record.key = run.plan.key
    BY <2>2, ReadinessIsAccepted
  <2> HIDE DEF record
  <2> QED BY <1>2, <2>1, <2>2, <2>3
<1>7. CASE RecordRelease
  <2> DEFINE key == publish.plan.key
             record == FinalRecord(publish)
  <2>1. /\ IsPublishRun(publish) /\ publish.stage = "released"
        /\ PublishHolds(publish, main, ReleasedBranches, ReleasedVersions, mise)
    BY <1>7 DEF RecordRelease, IInv, RunsAreTyped, CycleInv, RunsHold
  <2>2. main' = Recorded(main, record)
    BY <1>3, <1>7 DEF RecordRelease
  <2>3. record.key = key
    BY <2>1, FinalRecordIsComplete
  <2>4. key[1] = "new_patch" \/ key \in DOMAIN main.events
    <3>1. CASE publish.plan.action = "new_branch"
      BY <2>1, <3>1 DEF PublishHolds, Waits, Advance
    <3>2. CASE publish.plan.action # "new_branch"
      BY <2>1, <3>2 DEF PublishHolds, IsReleaseOf
    <3> QED BY <3>1, <3>2
  <2> HIDE DEF record, key
  <2> QED BY <1>2, <2>2, <2>3, <2>4
<1>8. ASSUME NEW s \in Slots
      PROVE  ~MergeEdit(s)
  <2>1. MergeEdit(s) => main'.events = main.events
    BY <1>1 DEF MergeEdit
  <2> QED BY <2>1
<1>9. CASE System
  BY <1>3, <1>4, <1>5, <1>6, <1>7, <1>8, <1>9 DEF System, Investigate, Dispatch, RouteNothing,
     RecordEvidence, DispatchImplementation, DispatchPublish, VerifyEdit, CheckRelease, PublishRelease
<1>10. CASE Faults
  BY <1>3, <1>10, WatcherEndsKeeps, PublishMovesKeep, ImplementationStopsKeeps DEF Faults
<1>11. CASE World
  BY <1>3, <1>11, WorldKeeps
<1>12. CASE UNCHANGED vars
  BY <1>3, <1>12 DEF vars
<1> QED BY <1>9, <1>10, <1>11, <1>12 DEF Next

\* A planned edit is of a numbered branch, and its key a value.
LEMMA PlannedEditIsKeyed ==
  ASSUME IInv, EditsAreKeyed, Admitted(ClassifyEvidence(Seen)), ClassifyEvidence(Seen).edits
  PROVE  ClassifyEvidence(Seen).key \in LifecycleKeys
<1> DEFINE plan == ClassifyEvidence(Seen)
           rows == SupportRows(Captures[Page])
<1>1. plan.action \in LifecycleActions /\ plan.key[1] = plan.action
  BY AdmittedIsPlanOn, EditsAreFresh, SeenIsInput DEF IsPlanOn
<1>2. CASE plan.allowed = {}
  <2>1. IsLifecycleResume(plan)
    BY <1>1, <1>2 DEF IsLifecycleResume
  <2> HIDE DEF plan
  <2>2. plan.key = main.policy.key
    BY <2>1 DEF Admitted, ValidatePlan, ResumeIsOwed, LifecycleOnBase, TreeOf, plan
  <2>3. plan.key # <<"bootstrap">>
    BY <1>1 DEF LifecycleActions
  <2> QED BY <2>2, <2>3 DEF EditsAreKeyed, plan
<1>3. CASE plan.allowed # {}
  <2>1. \/ plan.action = "new_branch" /\ \E b \in DOMAIN rows : plan.key = NewBranchKey(b)
        \/ /\ plan.action = "branch_eol"
           /\ \E b \in DOMAIN rows : plan.key = <<"branch_eol", b, SecurityUntil(rows[b])>>
    <3>1. Seen.captures = Captures
      BY DEF Seen
    <3> QED BY <1>3, <3>1, SeenIsInput, FreshEditsWait
  <2>2. \A b \in DOMAIN rows : b \in Nat /\ SecurityUntil(rows[b]) \in Nat
    <3> SUFFICES ASSUME NEW b \in DOMAIN rows
                 PROVE  b \in Nat /\ SecurityUntil(rows[b]) \in Nat
      OBVIOUS
    <3>1. b \in Branches /\ \E i \in DOMAIN page : page[i] = rows[b]
      BY RowsAreThePage
    <3>2. \A i \in DOMAIN page : page[i] \in PageRows
      BY LenProperties DEF IInv, WorldIsTyped
    <3>3. rows[b] \in PageRows
      BY <3>1, <3>2
    <3> HIDE DEF rows
    <3>4. rows[b].dates[3] \in Nat
      BY <3>3 DEF PageRows
    <3> QED BY <3>1, <3>4, BranchAssumption DEF SecurityUntil
  <2> HIDE DEF plan, rows
  <2> QED BY <2>1, <2>2 DEF LifecycleKeys, NewBranchKey, plan
<1> QED BY <1>2, <1>3

LEMMA KeysStayKeyed ==
  ASSUME IInv, CycleInv, EditsAreKeyed, [Next]_vars
  PROVE  EditsAreKeyed'
<1>1. main'.policy.key \in LifecycleKeys \cup {<<"bootstrap">>}
  <2>1. ASSUME NEW s \in Slots, MergeEdit(s)
        PROVE  main'.policy.key \in LifecycleKeys
    <3> DEFINE run == implement[s]
    <3>1. run # None /\ run.plan.allowed # {} /\ main'.policy = EditedTree(run).policy
      BY <2>1, MergeIsOverItsBase DEF MergeEdit, IInv, IsCommit
    <3>2. run.plan.key \in LifecycleKeys
      BY <3>1 DEF EditsAreKeyed
    <3> HIDE DEF run
    <3>3. EditedTree(run).policy.key = run.plan.key
      BY <3>1 DEF EditedTree, ApplyLifecyclePlan, IsLifecycleResume
    <3> QED BY <3>1, <3>2, <3>3
  <2>2. CASE \A s \in Slots : ~MergeEdit(s)
    BY <2>2, MergesMoveThePolicy DEF EditsAreKeyed
  <2> QED BY <2>1, <2>2
<1>2. watcher' # None /\ watcher'.plan # None /\ watcher'.plan.edits =>
        watcher'.plan.key \in LifecycleKeys
  <2>1. CASE Investigate
    <3>1. PICK plan : /\ watcher' = [plan |-> plan, record |-> Decision.record, captures |-> Seen.captures,
                                     base |-> main, fresh |-> TRUE, inFlight |-> (publish # None),
                                     repaired |-> FALSE, merged |-> FALSE]
                      /\ plan = None \/ plan = ClassifyEvidence(Seen)
                      /\ plan # None => Admitted(plan)
      BY <2>1 DEF Investigate
    <3>2. watcher'.plan = plan
      BY <3>1
    <3> QED BY <3>1, <3>2, PlannedEditIsKeyed
  <2>2. CASE WatcherKeepsItsPlan
    BY <2>2 DEF WatcherKeepsItsPlan, EditsAreKeyed
  <2> QED BY <2>1, <2>2, PlansAreKept
<1>3. \A s \in Slots : implement'[s] # None => implement'[s].plan.key \in LifecycleKeys
  BY PlansAreKept DEF ImplementKeepsItsPlan, EditsAreKeyed
<1> QED BY <1>1, <1>2, <1>3 DEF EditsAreKeyed

LEMMA CommitsStayWhole ==
  ASSUME IInv, CycleInv, EditsAreSealed, CommitIsWhole, [Next]_vars
  PROVE  CommitIsWhole'
<1>1. ASSUME NEW s \in Slots, MergeEdit(s)
      PROVE  CommitIsWhole'
  <2>1. EditIsSealed(implement[s])
    BY <1>1 DEF MergeEdit, EditsAreSealed
  <2> QED BY <1>1, <2>1, MergeFits DEF CommitIsWhole
<1>2. CASE \A s \in Slots : ~MergeEdit(s)
  BY <1>2, MergesMoveThePolicy DEF CommitIsWhole
<1> QED BY <1>1, <1>2

\* php.net ends only first branches.
LEMMA GoneIsMaintained == GoneBranches \subseteq Maintained
BY DEF GoneBranches, Branches

LEMMA RecordsStayMatched ==
  ASSUME IInv, CycleInv, RecordsMatch(main.events, main.policy.branches), [Next]_vars
  PROVE  RecordsMatch(main'.events, main'.policy.branches)
<1>1. PolicyHolds(main.policy, main.lists, GoneBranches)
  BY DEF CycleInv, Policy
<1>2. ASSUME NEW s \in Slots, MergeEdit(s)
      PROVE  RecordsMatch(main'.events, main'.policy.branches)
  <2> DEFINE run == implement[s]
             plan == run.plan
             branches == EditedBranches(plan, TreeOf(run.base))
  <2>1. /\ IsImplementRun(run, main.events) /\ ImplementHolds(run, main, GoneBranches)
        /\ plan.allowed # {} /\ run.base.policy = main.policy
        /\ main'.policy = EditedTree(run).policy /\ main'.events = main.events
    BY <1>2, MergeIsOverItsBase DEF MergeEdit, IInv, IsCommit, RunsAreTyped, CycleInv, RunsHold
  <2> HIDE DEF run
  <2>2. main'.policy.branches = branches
    BY <2>1 DEF EditedTree, ApplyLifecyclePlan, IsLifecycleResume
  <2>3. plan.action \in LifecycleActions /\ IsEditOn(plan, run.base, GoneBranches)
    BY <2>1 DEF IsImplementRun, IsPlanOn, IsRoutable, ImplementHolds
  <2>4. branches = IF plan.action = "new_branch" THEN main.policy.branches \cup {plan.key[2]}
                   ELSE main.policy.branches \ {plan.key[2]}
    BY <2>1 DEF EditedBranches, TreeOf
  <2> HIDE DEF branches, plan
  <2>5. CASE plan.action = "new_branch"
    BY <2>1, <2>2, <2>3, <2>4, <2>5 DEF IsEditOn, RecordsMatch
  <2>6. CASE plan.action = "branch_eol"
    <3>1. plan.key[2] \in Maintained
      BY <2>3, <2>6, GoneIsMaintained DEF IsEditOn
    <3> QED BY <2>1, <2>2, <2>4, <2>6, <3>1 DEF RecordsMatch
  <2> QED BY <2>3, <2>5, <2>6 DEF LifecycleActions
<1>3. CASE \A s \in Slots : ~MergeEdit(s)
  <2>1. main'.policy.branches = main.policy.branches
    BY <1>3, MergesMoveThePolicy
  <2>2. ASSUME NEW k \in DOMAIN main'.events, k \notin DOMAIN main.events
        PROVE  /\ k[1] \in Families
               /\ k[1] = "branch_eol" => k[2] \in Maintained \ main.policy.branches
               /\ k[1] = "new_branch" => k[2] \in main.policy.branches \ Maintained
    <3>1. k[1] \in {"new_patch", "recipe_rebuild"} \/ (k = main.policy.key /\ k[1] \in LifecycleActions)
      BY <2>2, NewKeys
    <3>2. k = main.policy.key =>
            /\ k[1] = "branch_eol" => k[2] \in Maintained \ main.policy.branches
            /\ k[1] = "new_branch" => k[2] \in main.policy.branches \ Maintained
      BY <1>1, GoneIsMaintained DEF PolicyHolds
    <3> QED BY <3>1, <3>2 DEF Families, LifecycleActions
  <2> QED BY <2>1, <2>2 DEF RecordsMatch
<1> QED BY <1>2, <1>3

\* A capture taken now, and the commit it is classified on, make a sound reading.
LEMMA FeedsAreCaptured ==
  ASSUME IInv, FeedsAreNumbered
  PROVE  FeedsAreTyped(Seen)
<1>1. Seen.captures = Captures /\ Seen.maintained = main.policy.branches
  BY DEF Seen
<1>2. DOMAIN Captures = EvidenceSources(main.policy.branches)
  BY DEF Captures
<1>3. ASSUME NEW b \in main.policy.branches, Captures[Feed(b)].shaped
      PROVE  Captures[Feed(b)].body \in Nat
  <2>1. Captures[Feed(b)] = CaptureOf(Feed(b))
    BY DEF Captures, EvidenceSources
  <2>2. /\ IsBranchFeed(Feed(b)) /\ Feed(b)[2] = b
        /\ Feed(b) \notin {Page, Aggregate, Releases, MiseState}
    BY FeedIds DEF FixedCaptures
  <2>3. CaptureOf(Feed(b)) = FeedBody(b)
    BY <2>2 DEF CaptureOf
  <2>4. own[b] # None
    BY <1>3, <2>1, <2>3 DEF FeedBody, NotServed
  <2>5. own[b] \in Nat
    BY <2>4 DEF FeedsAreNumbered, IInv, IsCommit
  <2> QED BY <2>1, <2>3, <2>4, <2>5 DEF FeedBody, Healthy
<1>4. \A m \in DOMAIN Captures[Aggregate].body :
        Captures[Aggregate].body[m] \in [branch : Nat, patch : Nat, rev : {0}]
  <2>1. Captures[Aggregate] = CaptureOf(Aggregate)
    BY DEF Captures, EvidenceSources, FixedCaptures
  <2>2. Aggregate # Page
    BY DEF Aggregate, Page
  <2>3. Captures[Aggregate].body = [major \in {Major(aggregate.branch)} |-> aggregate]
    <3>1. ~IsBranchFeed(Aggregate) /\ Aggregate # Releases /\ Aggregate # MiseState
      BY FixedIds DEF Aggregate, Releases, MiseState
    <3> QED BY <2>1, <2>2, <3>1 DEF CaptureOf, Healthy
  <2> QED BY <2>3 DEF FeedsAreNumbered, PlainVersions
<1> QED BY <1>1, <1>2, <1>3, <1>4 DEF FeedsAreTyped

LEMMA SeenIsReading ==
  ASSUME IInv, CycleInv, ReadingInv
  PROVE  IsReading(Seen, TreeOf(main))
<1>1. /\ Seen.captures = Captures /\ Seen.maintained = main.policy.branches
      /\ Seen.policyKey = main.policy.key /\ Seen.events = main.events
      /\ Seen.decision.incomplete = Incomplete(main.events)
      /\ Seen.decision.rebuild = Decision.rebuild
  BY DEF Seen
<1>2. IsInput(Seen) /\ FeedsAreTyped(Seen)
  BY SeenIsInput, FeedsAreCaptured DEF ReadingInv
<1>3. CommitIsSound(Seen, TreeOf(main))
  BY <1>1 DEF CommitIsSound, TreeOf, ReadingInv, CommitIsWhole
<1>4. RecordsAreSound(Seen)
  <2>1. Incomplete(main.events) = DOMAIN main.events \ CompletedKeys(Seen)
    BY <1>1 DEF Incomplete, CompletedKeys
  <2>2. ASSUME NEW k \in Incomplete(main.events)
        PROVE  k # None /\ k[1] # "new_patch"
    <3>1. k \in DOMAIN main.events /\ main.events[k].state # "complete"
      BY DEF Incomplete
    <3>2. k = main.policy.key
      BY <3>1 DEF CycleInv, Records, RecordsHold
    <3>3. IsBound(main.events[k]) /\ main.events[k].key = k
      BY <3>1 DEF IInv, IsCommit, AreEvents
    <3>4. k[1] \in LifecycleActions
      BY <3>1, <3>3 DEF IsBound, ValidCompletedRecord, ValidReadinessRecord
    <3>5. k \in LifecycleKeys
      <4>1. <<"bootstrap">>[1] \notin LifecycleActions
        BY DEF LifecycleActions
      <4> QED BY <3>2, <3>4, <4>1 DEF ReadingInv, EditsAreKeyed
    <3>6. {"branch_eol"} \X Nat \X Nat \subseteq {"branch_eol", "new_patch"} \X Nat \X Nat
      OBVIOUS
    <3>7. None \notin LifecycleKeys
      BY <3>6, NoneIsNoValue DEF LifecycleKeys
    <3> QED BY <3>4, <3>5, <3>7 DEF LifecycleActions
  <2>3. \A k \in DOMAIN main.events :
          /\ k[1] \in Families
          /\ k[1] = "branch_eol" => k[2] \notin main.policy.branches
          /\ k[1] = "new_branch" => k[2] \in main.policy.branches
    BY DEF ReadingInv, RecordsMatch
  <2>4. CompletedKeys(Seen) \subseteq DOMAIN main.events
    BY <1>1 DEF CompletedKeys
  <2> QED BY <1>1, <2>1, <2>2, <2>3, <2>4 DEF RecordsAreSound
<1>5. SelectionIsSound(Seen)
  BY <1>1, NoRebuildIsDue DEF SelectionIsSound, RebuildIsSelected
<1> QED BY <1>2, <1>3, <1>4, <1>5 DEF IsReading

LEMMA ReadingHolds ==
  Spec => [](IInv /\ CycleInv /\ ReadingInv)
<1>1. Init => ReadingInv
  <2> SUFFICES ASSUME Init PROVE ReadingInv
    OBVIOUS
  <2> DEFINE newest == CHOOSE b \in Maintained : \A c \in Maintained : c <= b
  <2>1. newest \in Maintained
    BY BranchAssumption
  <2>2. newest \in Nat
    BY <2>1, BranchAssumption DEF Branches
  <2>3. own = [b \in Branches |-> IF b \in Maintained THEN 0 ELSE None] /\ aggregate = Version(newest, 0)
    BY DEF Init
  <2> HIDE DEF newest
  <2>4. FeedsAreNumbered
    <3>1. aggregate \in PlainVersions
      BY <2>2, <2>3, VersionsAreValues
    <3> QED BY <2>3, <3>1 DEF FeedsAreNumbered
  <2>5. EditsAreKeyed /\ EditsAreSealed
    BY DEF Init, EditsAreKeyed, EditsAreSealed
  <2>6. CommitIsWhole /\ RecordsMatch(main.events, main.policy.branches)
    BY DEF Init, CommitIsWhole, ValidPolicy, RecordsMatch
  <2> QED BY <2>4, <2>5, <2>6 DEF ReadingInv
<1>2. IInv /\ CycleInv /\ ReadingInv /\ [Next]_vars => ReadingInv'
  <2> SUFFICES ASSUME IInv, CycleInv, ReadingInv, [Next]_vars PROVE ReadingInv'
    OBVIOUS
  <2>1. FeedsAreNumbered' /\ EditsAreKeyed'
    BY FeedsStayNumbered, KeysStayKeyed DEF ReadingInv
  <2>2. EditsAreSealed' /\ CommitIsWhole'
    BY SealsAreKept, CommitsStayWhole DEF ReadingInv
  <2>3. RecordsMatch(main'.events, main'.policy.branches)
    BY RecordsStayMatched DEF ReadingInv
  <2> QED BY <2>1, <2>2, <2>3 DEF ReadingInv
<1> QED BY <1>1, <1>2, CycleInvariance, PTL DEF Spec

\* Whatever php.net, mise-php and main have come to, the plan the classifier derives
\* from a capture is one the independent admission accepts, for any branches, pages,
\* patches and runs: no disagreement of the two programs can stop the watcher.
THEOREM PlansAreAdmitted == Spec => []EveryPlanIsAdmitted
<1>1. IInv /\ CycleInv /\ ReadingInv => EveryPlanIsAdmitted
  <2> SUFFICES ASSUME IInv, CycleInv, ReadingInv PROVE Admitted(ClassifyEvidence(Seen))
    BY DEF EveryPlanIsAdmitted
  <2>1. /\ Seen.captures = Captures /\ CompletedKeys(Seen) = Complete(main.events)
        /\ Seen.decision.rebuild = Decision.rebuild
    BY DEF Seen, CompletedKeys, Complete, Incomplete
  <2>2. Accepted(Seen, TreeOf(main), ClassifyEvidence(Seen))
    BY SeenIsReading, PlansAreAccepted
  <2> QED BY <2>1, <2>2 DEF Accepted, Admitted
<1> QED BY <1>1, ReadingHolds, PTL

-----------------------------------------------------------------------------
(***************************************************************************)
(* A quiet day hides no work.                                              *)
(*                                                                         *)
(* The commit is quiet after a run recorded the capture on which it found  *)
(* nothing to do.  While that run lived no publish run did, so no record   *)
(* was completed beside it, and branches that enter or leave the policy    *)
(* never come back, so an equal capture is of the same policy.  What the   *)
(* run found is what a run would find now.                                 *)
(***************************************************************************)
\* What a capture taken on a commit that owes nothing is classified from.
SettledReading(captures, commit) ==
  [captures |-> captures,
   decision |-> [trigger |-> "quiet", incomplete |-> {}, rebuild |-> None],
   events |-> commit.events,
   maintained |-> commit.policy.branches,
   policyKey |-> commit.policy.key]

NothingIsDue(captures, commit) ==
  Incomplete(commit.events) = {} =>
    ClassifyEvidence(SettledReading(captures, commit)).action = "no_change"

\* Between two policies a first branch left, or another one entered.
BranchesMoved(older, newer) ==
  \/ \E b \in older \ newer : b \in Maintained
  \/ \E b \in newer \ older : b \notin Maintained

PolicyIsOlder(older, newer) == newer = older \/ BranchesMoved(older.branches, newer.branches)

FindsNothing(run, commit) ==
  /\ DOMAIN run.captures = EvidenceSources(run.base.policy.branches)
  /\ NothingIsDue(run.captures, run.base)
  /\ PolicyIsOlder(run.base.policy, commit.policy)
  /\ commit.events = run.base.events \/ Incomplete(commit.events) # {}

WaitsQuietly(run, commit, releasing) ==
  /\ ~run.inFlight => releasing = None
  /\ run.plan # None /\ run.plan.action = "no_change" /\ ~run.inFlight /\ ~run.merged =>
       FindsNothing(run, commit)

QuietInv ==
  /\ quiet => NothingIsDue(Captures, main)
  /\ watcher # None => WaitsQuietly(watcher, main, publish)

LEMMA SeenIsSettled ==
  ASSUME CycleInv, Incomplete(main.events) = {}
  PROVE  ClassifyEvidence(Seen) = ClassifyEvidence(SettledReading(Captures, main))
<1> DEFINE w == SettledReading(Captures, main)
<1>1. Decision.trigger # "health_failed"
  BY DEF Decision, WatchDecision, Wake, EvidenceTrigger, SnapshotIsTrusted
<1>2. /\ Seen.captures = Captures /\ Seen.events = main.events
      /\ Seen.maintained = main.policy.branches /\ Seen.policyKey = main.policy.key
      /\ Seen.decision.rebuild = None /\ Seen.decision.incomplete = {}
      /\ Seen.decision.trigger # "health_failed"
  BY <1>1, NoRebuildIsDue DEF Seen
<1>3. /\ w.captures = Captures /\ w.events = main.events
      /\ w.maintained = main.policy.branches /\ w.policyKey = main.policy.key
      /\ w.decision.rebuild = None /\ w.decision.incomplete = {}
      /\ w.decision.trigger # "health_failed"
  BY DEF SettledReading
<1> HIDE DEF w
<1>4. ClassifyEvidence(Seen) = ClassifyEvidence(w)
  BY <1>2, <1>3, TriggersDecideNothing
<1> QED BY <1>4 DEF w

\* Equal captures are of equally many branches.
LEMMA EqualCapturesEqualBranches ==
  ASSUME NEW older, NEW newer, EvidenceSources(older) = EvidenceSources(newer)
  PROVE  older = newer
<1>1. \A b, c : Feed(b) = Feed(c) => b = c
  BY FeedIds
<1>2. \A b : b \in older <=> Feed(b) \in EvidenceSources(older)
  BY <1>1, FeedIds DEF EvidenceSources
<1>3. \A b : b \in newer <=> Feed(b) \in EvidenceSources(newer)
  BY <1>1, FeedIds DEF EvidenceSources
<1> QED BY <1>2, <1>3

LEMMA CapturesStay ==
  ASSUME UNCHANGED <<page, own, aggregate, released, mise, main>>
  PROVE  Captures' = Captures
<1>1. \A id : CaptureOf(id)' = CaptureOf(id)
  BY DEF CaptureOf, FeedBody
<1> QED BY <1>1 DEF Captures

\* A first branch only leaves the policy, and the others only enter it.
LEMMA PoliciesMoveOn ==
  ASSUME IInv, CycleInv, EditsAreSealed, NEW s \in Slots, MergeEdit(s), NEW older,
         PolicyIsOlder(older, main.policy)
  PROVE  PolicyIsOlder(older, main'.policy)
<1> DEFINE run == implement[s]
           plan == run.plan
           branches == EditedBranches(plan, TreeOf(run.base))
<1>1. /\ IsImplementRun(run, main.events) /\ ImplementHolds(run, main, GoneBranches)
      /\ plan.allowed # {} /\ run.base.policy = main.policy /\ EditIsSealed(run)
      /\ main'.policy = EditedTree(run).policy
  BY MergeIsOverItsBase DEF MergeEdit, IInv, IsCommit, RunsAreTyped, CycleInv, RunsHold, EditsAreSealed
<1> HIDE DEF run
<1>2. main'.policy.branches = branches
  BY <1>1 DEF EditedTree, ApplyLifecyclePlan, IsLifecycleResume
<1>3. plan.action \in LifecycleActions /\ IsEditOn(plan, run.base, GoneBranches)
  BY <1>1 DEF IsImplementRun, IsPlanOn, IsRoutable, ImplementHolds
<1>4. branches = IF plan.action = "new_branch" THEN main.policy.branches \cup {plan.key[2]}
                 ELSE main.policy.branches \ {plan.key[2]}
  BY <1>1 DEF EditedBranches, TreeOf
<1>5. IF plan.action = "new_branch" THEN plan.key[2] \notin main.policy.branches
      ELSE plan.key[2] \in main.policy.branches
  BY <1>1 DEF EditIsSealed, EditApplies, IsLifecycleResume, TreeOf
<1>6. IF plan.action = "new_branch" THEN plan.key[2] \notin Maintained
      ELSE plan.key[2] \in Maintained
  BY <1>3, GoneIsMaintained DEF IsEditOn, LifecycleActions
<1> HIDE DEF branches, plan
<1>7. BranchesMoved(main.policy.branches, branches)
  BY <1>4, <1>5, <1>6 DEF BranchesMoved
<1>8. BranchesMoved(older.branches, main.policy.branches) => BranchesMoved(older.branches, branches)
  BY <1>4, <1>6 DEF BranchesMoved
<1> QED BY <1>2, <1>7, <1>8 DEF PolicyIsOlder

\* A run that keeps what it found, on a commit that holds what it held.
LEMMA QuietRunStays ==
  ASSUME NEW run, NEW commit, NEW releasing, WaitsQuietly(run, commit, releasing),
         NEW next, next.plan = run.plan, next.captures = run.captures, next.base = run.base,
         next.inFlight = run.inFlight, ~next.merged => ~run.merged,
         NEW later, \A older : PolicyIsOlder(older, commit.policy) => PolicyIsOlder(older, later.policy),
         ~run.inFlight => later.events = commit.events \/ Incomplete(later.events) # {},
         NEW published, releasing = None => published = None
  PROVE  WaitsQuietly(next, later, published)
<1>1. FindsNothing(run, commit) /\ ~run.inFlight => FindsNothing(next, later)
  BY DEF FindsNothing
<1> QED BY <1>1 DEF WaitsQuietly

LEMMA StaleWatcherKeeps ==
  ASSUME IInv, watcher # None
  PROVE  LET run == Stale(watcher) IN
         /\ run.plan = watcher.plan /\ run.captures = watcher.captures /\ run.base = watcher.base
         /\ run.inFlight = watcher.inFlight /\ run.merged = watcher.merged
<1>1. DOMAIN watcher = {"plan", "record", "captures", "base", "fresh", "inFlight", "repaired", "merged"}
  BY DEF IInv, RunsAreTyped, IsWatcherRun
<1> QED BY <1>1 DEF Stale

\* The route that records the evidence is that of a run that found nothing, alone.
LEMMA RecordedEvidenceIsQuiet ==
  ASSUME IInv, QuietInv, RecordEvidence, watcher.captures = Captures
  PROVE  NothingIsDue(Captures, main)
<1> DEFINE run == watcher
<1>1. run # None /\ RouteOf(run) = "no_change_evidence"
  BY DEF RecordEvidence, Routes
<1>2. /\ run.plan # None /\ run.plan.action = "no_change" /\ ~run.inFlight /\ ~run.merged
  <2> DEFINE d == [action |-> IF run.plan = None THEN "none" ELSE run.plan.action,
                   key |-> IF run.plan = None THEN None ELSE run.plan.key,
                   recordKey |-> RecordKey(run),
                   edits |-> run.plan # None /\ run.plan.edits,
                   recoveryMerged |-> run.merged,
                   evidenceRecorded |-> FALSE,
                   publishInFlight |-> run.inFlight]
  <2>1. Route(d).route = "no_change_evidence"
    BY <1>1 DEF RouteOf
  <2>2. PlanRoute(d) = "no_change_evidence" /\ ~d.publishInFlight
    <3> HIDE DEF d
    <3> QED BY <2>1 DEF Route, HeldForPublish
  <2>3. d.action = "no_change" /\ ~DeferredByRecovery(d)
    <3> HIDE DEF d
    <3> QED BY <2>2 DEF PlanRoute
  <2>4. ~d.recoveryMerged
    <3> HIDE DEF d
    <3> QED BY <2>3 DEF DeferredByRecovery
  <2> QED BY <2>2, <2>3, <2>4
<1>3. FindsNothing(run, main)
  BY <1>1, <1>2 DEF QuietInv, WaitsQuietly
<1> HIDE DEF run
<1>4. run.captures = Captures
  BY DEF run
<1>5. run.base.policy.branches = main.policy.branches
  BY <1>3, <1>4, EqualCapturesEqualBranches DEF FindsNothing, Captures
<1>6. main.policy = run.base.policy
  BY <1>3, <1>5 DEF FindsNothing, PolicyIsOlder, BranchesMoved
<1>7. Incomplete(main.events) = {} => main.events = run.base.events
  BY <1>3 DEF FindsNothing
<1>8. Incomplete(main.events) = {} => SettledReading(Captures, main) = SettledReading(run.captures, run.base)
  BY <1>4, <1>6, <1>7 DEF SettledReading
<1> QED BY <1>3, <1>7, <1>8 DEF FindsNothing, NothingIsDue

\* What is quiet stays quiet, and becomes quiet only by recorded evidence.
LEMMA QuietStays ==
  ASSUME IInv, CycleInv, QuietInv, [Next]_vars, quiet'
  PROVE  NothingIsDue(Captures', main')
<1>1. \/ quiet /\ main' = main /\ Captures' = Captures
      \/ RecordEvidence /\ watcher.captures = Captures /\ main' = main /\ Captures' = Captures
  <2>1. CASE RecordEvidence
    <3>1. main' = main /\ watcher.captures = Captures
      BY <2>1 DEF RecordEvidence, RecordsWhatIsTrue
    <3>2. Captures' = Captures
      BY <2>1, CapturesStay DEF RecordEvidence, php
    <3> QED BY <2>1, <3>1, <3>2
  <2>2. CASE World
    <3>1. StillQuiet /\ main' = main
      BY <2>2 DEF World, FeedMoves, AggregateMoves, PageMoves, MiseSynchronizes, MiseIsMadeReady
    <3> QED BY <3>1 DEF StillQuiet
  <2>3. CASE PublishRelease
    <3>1. quiet /\ released' = released /\ main' = main /\ UNCHANGED <<php, mise>>
      BY <2>3 DEF PublishRelease
    <3>2. Captures' = Captures
      BY <3>1, CapturesStay DEF php
    <3> QED BY <3>1, <3>2
  <2>4. CASE (System /\ ~RecordEvidence /\ ~PublishRelease) \/ Faults \/ UNCHANGED vars
    <3>1. quiet /\ main' = main /\ UNCHANGED <<php, mise, released>>
      BY <2>4 DEF System, Faults, Investigate, Repair, RepairFails, Dispatch, RouteNothing,
         DispatchImplementation, DispatchPublish, CompleteRetirement, VerifyEdit, MergeEdit,
         RecordReadiness, CheckRelease, RecordRelease, WatcherStops, PublishStops,
         ImplementationStops, vars, php
    <3>2. Captures' = Captures
      BY <3>1, CapturesStay DEF php
    <3> QED BY <3>1, <3>2
  <2> QED BY <2>1, <2>2, <2>3, <2>4 DEF Next
<1> QED BY <1>1, RecordedEvidenceIsQuiet DEF QuietInv

LEMMA WatcherStaysQuiet ==
  ASSUME IInv, CycleInv, EditsAreSealed, QuietInv, [Next]_vars, watcher' # None
  PROVE  WaitsQuietly(watcher', main', publish')
<1>1. CASE Investigate
  <2>1. PICK plan : /\ watcher' = [plan |-> plan, record |-> Decision.record, captures |-> Seen.captures,
                                   base |-> main, fresh |-> TRUE, inFlight |-> (publish # None),
                                   repaired |-> FALSE, merged |-> FALSE]
                    /\ plan = None \/ plan = ClassifyEvidence(Seen)
    BY <1>1 DEF Investigate
  <2>2. main' = main /\ publish' = publish
    BY <1>1 DEF Investigate
  <2>3. Seen.captures = Captures
    BY DEF Seen
  <2>4. /\ watcher'.plan = plan /\ watcher'.captures = Captures /\ watcher'.base = main
        /\ watcher'.inFlight = (publish # None)
    BY <2>1, <2>3
  <2>5. plan # None /\ plan.action = "no_change" => NothingIsDue(Captures, main)
    BY <2>1, SeenIsSettled DEF NothingIsDue
  <2>6. DOMAIN Captures = EvidenceSources(main.policy.branches)
    BY DEF Captures
  <2>7. plan # None /\ plan.action = "no_change" => FindsNothing(watcher', main)
    BY <2>4, <2>5, <2>6 DEF FindsNothing, PolicyIsOlder
  <2> QED BY <2>2, <2>4, <2>7 DEF WaitsQuietly
<1>2. CASE ~Investigate
  <2>1. watcher # None /\ WaitsQuietly(watcher, main, publish)
    <3>1. watcher # None
      BY <1>2, PlansAreKept DEF WatcherKeepsItsPlan
    <3> QED BY <3>1 DEF QuietInv
  <2>2. DOMAIN watcher = {"plan", "record", "captures", "base", "fresh", "inFlight", "repaired", "merged"}
    BY <2>1 DEF IInv, RunsAreTyped, IsWatcherRun
  <2>3. CASE Repair \/ RepairFails
    <3>1. \/ watcher' = [watcher EXCEPT !.repaired = TRUE] /\ main' = main
          \/ watcher' = [watcher EXCEPT !.repaired = TRUE, !.merged = TRUE, !.fresh = FALSE]
      BY <2>3 DEF Repair, RepairFails
    <3>2. /\ watcher'.plan = watcher.plan /\ watcher'.captures = watcher.captures
          /\ watcher'.base = watcher.base /\ watcher'.inFlight = watcher.inFlight
          /\ watcher'.merged \/ (watcher'.merged = watcher.merged /\ main' = main)
      BY <2>2, <3>1
    <3>3. publish' = publish
      BY <2>3 DEF Repair, RepairFails
    <3>4. CASE watcher'.merged
      BY <2>1, <3>2, <3>3, <3>4 DEF WaitsQuietly
    <3>5. CASE watcher'.merged = watcher.merged /\ main' = main
      BY <2>1, <3>2, <3>3, <3>5 DEF WaitsQuietly, FindsNothing
    <3> QED BY <3>2, <3>4, <3>5
  <2>4. ASSUME NEW s \in Slots, MergeEdit(s)
        PROVE  WaitsQuietly(watcher', main', publish')
    <3>1. \A older : PolicyIsOlder(older, main.policy) => PolicyIsOlder(older, main'.policy)
      BY <2>4, PoliciesMoveOn
    <3>2. main'.events = main.events /\ watcher' = Stale(watcher) /\ publish' = publish
      BY <2>4 DEF MergeEdit, IInv, IsCommit
    <3> QED BY <2>1, <3>1, <3>2, StaleWatcherKeeps, QuietRunStays
  <2>5. ASSUME NEW s \in Slots, RecordReadiness(s)
        PROVE  WaitsQuietly(watcher', main', publish')
    <3> DEFINE record == ReadinessRecord(implement[s].plan.key, main.policy)
    <3>1. main' = Recorded(main, record) /\ watcher' = Stale(watcher) /\ publish' = publish
      BY <2>5 DEF RecordReadiness
    <3>2. record.state = "php_bin_ready"
      BY DEF ReadinessRecord, NewRecord, Transition
    <3> HIDE DEF record
    <3>3. DOMAIN main = {"policy", "lists", "events"}
      BY DEF IInv, IsCommit
    <3>4. main'.policy = main.policy
      BY <3>1, <3>3 DEF Recorded
    <3>5. record.key \in DOMAIN main'.events /\ main'.events[record.key] = record
      BY <3>1, <3>3 DEF Recorded
    <3>6. Incomplete(main'.events) # {}
      BY <3>2, <3>5 DEF Incomplete
    <3> QED BY <2>1, <3>1, <3>4, <3>6, StaleWatcherKeeps, QuietRunStays
  <2>6. CASE CheckRelease \/ PublishRelease \/ RecordRelease \/ PublishStops
    <3>1. publish # None /\ watcher.inFlight
      BY <2>1, <2>6 DEF CheckRelease, PublishRelease, RecordRelease, PublishStops, WaitsQuietly
    <3>2. watcher' = watcher \/ watcher' = Stale(watcher)
      BY <2>6 DEF CheckRelease, PublishRelease, RecordRelease, PublishStops
    <3>3. watcher'.inFlight = watcher.inFlight
      BY <2>1, <3>2, StaleWatcherKeeps
    <3> QED BY <3>1, <3>3 DEF WaitsQuietly
  <2>7. CASE UNCHANGED <<watcher, main, publish>>
    BY <2>1, <2>7
  <2>8. \/ Repair \/ RepairFails \/ (\E s \in Slots : MergeEdit(s) \/ RecordReadiness(s))
        \/ CheckRelease \/ PublishRelease \/ RecordRelease \/ PublishStops
        \/ UNCHANGED <<watcher, main, publish>>
    BY <1>2 DEF Next, System, Faults, World, Dispatch, Routes, RouteNothing, RecordEvidence,
       DispatchImplementation, DispatchPublish, CompleteRetirement, VerifyEdit, WatcherStops,
       ImplementationStops, FeedMoves, AggregateMoves, PageMoves, MiseSynchronizes,
       MiseIsMadeReady, vars
  <2> QED BY <2>3, <2>4, <2>5, <2>6, <2>7, <2>8
<1> QED BY <1>1, <1>2

\* A day the watcher skips as quiet is one on which a classification would find
\* nothing to do, for any branches, pages, patches, runs and failures: the evidence
\* recorded on main never hides work from the runs after it.
THEOREM QuietDaysOweNothing == Spec => []QuietMeansNothingDue
<1>1. Init => QuietInv
  BY DEF Init, QuietInv
<1>2. IInv /\ CycleInv /\ ReadingInv /\ QuietInv /\ [Next]_vars => QuietInv'
  <2> SUFFICES ASSUME IInv, CycleInv, ReadingInv, QuietInv, [Next]_vars PROVE QuietInv'
    OBVIOUS
  <2>1. quiet' => NothingIsDue(Captures', main')
    BY QuietStays
  <2>2. watcher' # None => WaitsQuietly(watcher', main', publish')
    BY WatcherStaysQuiet DEF ReadingInv
  <2> QED BY <2>1, <2>2 DEF QuietInv
<1>3. IInv /\ CycleInv /\ QuietInv => QuietMeansNothingDue
  <2> SUFFICES ASSUME IInv, CycleInv, QuietInv, ~Decision.classify
               PROVE  ClassifyEvidence(Seen).action = "no_change"
    BY DEF QuietMeansNothingDue
  <2>1. quiet /\ Incomplete(main.events) = {}
    BY DEF Decision, WatchDecision, Wake, EvidenceTrigger, SnapshotIsTrusted, Quiet, IInv, WorldIsTyped
  <2> QED BY <2>1, SeenIsSettled DEF QuietInv, NothingIsDue
<1> QED BY <1>1, <1>2, <1>3, ReadingHolds, PTL DEF Spec
=============================================================================
