------------------------------ MODULE WatchDay ------------------------------
(***************************************************************************)
(* One watcher run from its capture to its mail, over every input the      *)
(* other models leave out: sources that answer with an error or in a shape *)
(* nobody reviewed, support pages that contradict the policy, records a    *)
(* person stopped, a paused operator gate.  Two programs judge the same    *)
(* capture (classifier and admission), a third describes it to the public  *)
(* (the status document) with readers that ask more of it, and the mail    *)
(* says what the run did.                                                  *)
(*                                                                         *)
(* world is what the run finds: captures, the reviewed snapshot, events,   *)
(* policy and lists, the recipe identity of each branch, and the flags     *)
(* self (HEAD only recorded evidence), inFlight (a publish run has not     *)
(* recorded its release) and enabled (unattended mutation).  It does not   *)
(* change during the run; the interleavings are those of BranchLifecycle   *)
(* and WatchLoop.                                                          *)
(***************************************************************************)
EXTENDS Digest, Admission

CONSTANT Worlds

VARIABLES world, run

vars == <<world, run>>

(***************************************************************************)
(* What the investigation of a world w reads.                              *)
(***************************************************************************)
Incomplete(events) == {k \in DOMAIN events : events[k].state # "complete"}

HealthyReleases(w) == IF w.captures[Releases].status = 200 THEN w.captures[Releases].body ELSE {}

Recorded(w) == {r.v : r \in {s \in HealthyReleases(w) : ReleaseKey(s.v) \in DOMAIN w.events}}

DayDecision(w) ==
  LET d == WatchDecision(
        [healthy |-> TRUE,
         sourcesHealthy |-> Unhealthy(w.captures) = {},
         incomplete |-> Incomplete(w.events) # {},
         changed |-> {id[1] : id \in ChangedCaptures(w.captures, w.snapshot)},
         selfEvidence |-> w.self,
         releases |-> HealthyReleases(w),
         identity |-> w.identity,
         recorded |-> Recorded(w)])
  IN [trigger |-> d.trigger, classify |-> d.classify, rebuild |-> d.rebuild,
      record |-> d.record, incomplete |-> Incomplete(w.events)]

Seen(w) ==
  [captures |-> w.captures, decision |-> DayDecision(w), events |-> w.events,
   maintained |-> w.policy.branches, policyKey |-> w.policy.key]

\* due_recipe_rebuild, selected again by admission.
DueRebuild(w) ==
  IF Unhealthy(w.captures) = {} THEN PendingRebuild(HealthyReleases(w), w.identity) ELSE None

CommitOf(w) == [policy |-> w.policy, lists |-> w.lists, recorded |-> DOMAIN w.events]

Admitted(w, plan) ==
  ValidatePlan(plan, w.captures, DOMAIN w.events \ Incomplete(w.events), DueRebuild(w), CommitOf(w))

(***************************************************************************)
(* What may be found.                                                      *)
(***************************************************************************)
\* Branches are numbered, one of them is the newest, and the recipe is known of each.
CommitIsWhole(w) ==
  LET branches == w.policy.branches IN
  /\ branches \subseteq Nat \cap w.lists /\ ValidPolicy(w.policy)
  /\ \E newest \in branches : \A b \in branches : b <= newest
  /\ DOMAIN w.identity = branches

\* One capture per source.  Feeds that can be read name versions, and the list of
\* releases, where drafts are projected away, has a newest one on each branch.  Only
\* what has no reviewed shape is empty; a date may be missing from any of them.
CapturesAreWhole(w) ==
  LET body == [id \in DOMAIN w.captures |-> w.captures[id].body]
      IsShaped(id) == w.captures[id].shaped
  IN /\ DOMAIN w.captures = EvidenceSources(w.policy.branches)
     /\ \A id \in DOMAIN w.captures : IsShaped(id) => ~w.captures[id].empty
     /\ \A b \in w.policy.branches : IsShaped(Feed(b)) => body[Feed(b)] \in Nat
     /\ IsShaped(Aggregate) =>
          \A m \in DOMAIN body[Aggregate] :
            body[Aggregate][m] \in [branch : Nat, patch : Nat, rev : {0}]
     /\ PageReads(w.captures[Page]) => DOMAIN SupportRows(w.captures[Page]) \subseteq Nat
     /\ IsShaped(Releases) =>
          \A r \in body[Releases] :
            /\ r.v \in [branch : Nat, patch : Nat, rev : Nat] /\ ~r.draft
            /\ \E newest \in {s \in body[Releases] : s.v.branch = r.v.branch} :
                 \A s \in body[Releases] : s.v.branch = r.v.branch => ~Above(s.v, newest.v)

\* The keys of the four families.
RecordKeys ==
  ({"new_branch"} \X Nat) \cup ({"branch_eol", "new_patch"} \X Nat \X Nat)
    \cup ({"recipe_rebuild"} \X Nat \X Nat \X Nat)

\* A complete record says what happened: its release is published, its branch left, or
\* came and stayed for as long as php.net supports it.  An open one of a patch is of a
\* branch that shipped before.
RecordsAreTrue(w) ==
  LET complete == DOMAIN w.events \ Incomplete(w.events)
      rows == SupportRows(w.captures[Page])
  IN /\ DOMAIN w.events \subseteq RecordKeys
     /\ Unhealthy(w.captures) = {} =>
          \A k \in DOMAIN w.events :
            /\ k[1] = "new_patch" => BranchHasShipped(w.captures, k[2], complete)
            /\ k \in complete =>
                 /\ k[1] = "branch_eol" => k[2] \notin w.policy.branches
                 /\ k[1] = "new_branch" =>
                      \/ k[2] \in w.policy.branches
                      \/ k[2] \in DOMAIN rows => rows[k[2]].state \notin SupportedStates
                 /\ k[1] \in {"new_patch", "recipe_rebuild"} =>
                      \E r \in w.captures[Releases].body : ReleaseKey(r.v) = k

\* The records a watcher run finds open are of branches that come or go: a release is
\* recorded when it is complete.
OpenRecordsAreOfBranches ==
  \A w \in Worlds : \A k \in Incomplete(w.events) : k[1] \in LifecycleActions

ASSUME WorldsAssumption ==
  \A w \in Worlds : CommitIsWhole(w) /\ CapturesAreWhole(w) /\ RecordsAreTrue(w)

\* None stands for a decision or a plan that was not made, so it is none of those that are.
ASSUME NoneIsNotMade ==
  \A w \in Worlds :
    /\ \A plan \in {ClassifyEvidence(Seen(w))} :
         None \notin {DayDecision(w), plan, plan.action, plan.key}
    /\ Unhealthy(w.captures) = {} =>
         \A b \in w.policy.branches : PatchOn(Seen(w), b) # None

(***************************************************************************)
(* The run: investigate, then coordinate, then the mail.                   *)
(***************************************************************************)
StartOfRun ==
  [stage |-> "captured", decision |-> None, plan |-> None, status |-> {},
   failed |-> FALSE, merged |-> FALSE, did |-> {}, mail |-> None]

Init == world \in Worlds /\ run = StartOfRun

\* A release list that is no list at all fails the decision.
Decide ==
  /\ run.stage = "captured"
  /\ run' = IF Trusted(world.captures, Releases) \/ world.captures[Releases].status # 200
            THEN [run EXCEPT !.stage = "decided", !.decision = DayDecision(world)]
            ELSE [run EXCEPT !.stage = "planned", !.failed = TRUE]
  /\ UNCHANGED world

\* The preconditions name the head of mise-php, which only a healthy capture does.
PreconditionsHold == world.captures[MiseState].status = 200

\* A plan that admission refuses fails the job, and is not kept.
ClassifyCapture ==
  /\ run.stage = "decided"
  /\ IF run.decision.classify /\ PreconditionsHold
     THEN \E plan \in {ClassifyEvidence(Seen(world))} :
            run' = IF Admitted(world, plan)
                   THEN [run EXCEPT !.stage = "planned", !.plan = plan]
                   ELSE [run EXCEPT !.stage = "planned", !.failed = TRUE]
     ELSE run' = [run EXCEPT !.stage = "planned", !.failed = run.decision.classify]
  /\ UNCHANGED world

\* Also after a failed classification; a document that breaks its rules is dropped.
DeriveStatus ==
  /\ run.stage = "planned"
  /\ LET document == StatusDocument(world.captures, run.decision, run.plan, world.snapshot,
                                    world.identity)
     IN run' = [run EXCEPT !.stage = "reported",
                           !.status = {d \in {document} : ValidStatusDocument(d)}]
  /\ UNCHANGED world

RecordKey == IF run.decision.record = None THEN None ELSE ReleaseKey(run.decision.record)

HasWork == ~run.failed /\ (run.plan # None \/ run.decision.record # None)

\* The second job runs after a successful first one that found something.
NothingToCoordinate ==
  /\ run.stage = "reported"
  /\ ~HasWork
  /\ run' = [run EXCEPT !.stage = "ended"]
  /\ UNCHANGED world

MayRecover ==
  /\ Route(RecoveryCall(RecordKey, world.inFlight)).recoveryRoute = "recover_record"
  /\ world.enabled

\* The repair of a missing record; its failure is raised at the end of the job.
Recover ==
  /\ run.stage = "reported" /\ HasWork
  /\ \/ ~MayRecover /\ run' = [run EXCEPT !.stage = "recovered"]
     \/ MayRecover /\ run' = [run EXCEPT !.stage = "recovered", !.merged = TRUE,
                                         !.did = @ \cup {"record"}]
     \/ MayRecover /\ run' = [run EXCEPT !.stage = "recovered", !.failed = TRUE]
  /\ UNCHANGED world

\* Everything recorded is already on main when the snapshot is this capture.
EvidenceRecorded == world.enabled /\ ChangedCaptures(world.captures, world.snapshot) = {}

RouteTaken ==
  IF ~world.enabled THEN "none"
  ELSE Route([action |-> IF run.plan = None THEN "none" ELSE run.plan.action,
              key |-> IF run.plan = None THEN None ELSE run.plan.key,
              recordKey |-> RecordKey,
              edits |-> run.plan # None /\ run.plan.edits,
              recoveryMerged |-> run.merged,
              evidenceRecorded |-> EvidenceRecorded,
              publishInFlight |-> world.inFlight]).route

\* A first release waits for its readiness file, and so does a retirement; answers
\* is what mise-php says now.
Effect(route, answers) ==
  CASE route = "dispatch_implementation" -> {"implement"}
    [] route = "dispatch_publish" ->
         IF run.plan.action = "new_branch" /\ ~answers THEN {} ELSE {"publish"}
    [] route = "complete_branch_eol" -> IF answers THEN {"retire"} ELSE {}
    [] route = "no_change_evidence"  -> {"evidence"}
    [] route = "notify_blocked"      -> {"notify"}
    [] OTHER                         -> {}

TakeRoute ==
  /\ run.stage = "recovered"
  /\ \E answers \in BOOLEAN :
       run' = [run EXCEPT !.stage = "ended", !.did = @ \cup Effect(RouteTaken, answers)]
  /\ UNCHANGED world

\* A step of the job fails before its effect.
RouteFails ==
  /\ run.stage = "recovered" /\ Effect(RouteTaken, TRUE) # {}
  /\ run' = [run EXCEPT !.stage = "ended", !.failed = TRUE]
  /\ UNCHANGED world

SendMail ==
  /\ run.stage = "ended"
  /\ run' = [run EXCEPT !.stage = "mailed",
       !.mail = WatcherDigest([conclusion |-> IF run.failed THEN "failure" ELSE "success",
                               decision |-> run.decision, plan |-> run.plan,
                               inFlight |-> world.inFlight])]
  /\ UNCHANGED world

Next ==
  \/ Decide \/ ClassifyCapture \/ DeriveStatus \/ NothingToCoordinate
  \/ Recover \/ TakeRoute \/ RouteFails \/ SendMail

Spec == Init /\ [][Next]_vars

(***************************************************************************)
(* Properties.                                                             *)
(***************************************************************************)
Planned == run.stage = "planned" /\ run.plan # None
IsWork(plan) == plan.action \notin NoWorkActions

\* Whatever is unhealthy, unreadable, contradictory or stopped, the plan of the
\* classifier is one admission accepts, so that it reaches the owner as a stop and
\* not as a failed run: the run fails only where the list of releases or the head
\* of mise-php cannot be read.
OnlyUnreadableSourcesFail ==
  run.stage = "planned" /\ run.failed =>
    ~Trusted(world.captures, Releases) \/ ~PreconditionsHold

\* Work is never planned from a source that failed or that its reader could not
\* parse, through whichever of the six rules it came.
WorkRestsOnReadableEvidence ==
  Planned /\ IsWork(run.plan) =>
    /\ Unhealthy(world.captures) = {}
    /\ \A id \in Cited(run.plan) :
         world.captures[id].shaped /\ (id = Page => PageReads(world.captures[id]))

\* On its domain (healthy readable feeds that agree, every branch shipped, no open
\* record, a page the policy agrees with) the selection of WatchRules is the one
\* the classifier makes: what WatchLoop shows of the loop is about this classifier.
InTheLoopsDomain ==
  /\ \A id \in DOMAIN world.captures : Trusted(world.captures, id)
  /\ Incomplete(world.events) = {}
  /\ world.policy.branches \subseteq ShippedBranches(Seen(world))
  /\ Lifecycle(Seen(world)) = None
  /\ \A b \in world.policy.branches : SupersededBy(world.captures, OfferedVersion(Seen(world), b)) = {}

LoopSelectsAsTheClassifier ==
  Planned /\ InTheLoopsDomain =>
    LET feed == [b \in world.policy.branches |-> OfferedVersion(Seen(world), b).patch]
        mine == Classify(run.decision, feed, HealthyReleases(world), {})
    IN run.plan.action = mine.action /\ run.plan.version = mine.v

\* The page compares a branch only where the feed and the list both give their dates.
DatesAreGiven(captures, branch) == captures[Feed(branch)].dated /\ captures[Releases].dated

\* The public page and the plan are derived twice from the same capture, by readers of
\* their own.  Where the dates are given they agree: on a day without work no branch is
\* shown behind, except one whose patch waits for its own feed, and none is shown due
\* for a rebuild; a branch with a new patch is shown behind once its record is closed.
\* Where a date is missing, which stops no plan, the page claims nothing about the
\* branch and names the source it could not read.
StatusAgreesWithPlan ==
  run.stage = "reported" /\ run.plan # None =>
    /\ run.plan.action = "no_change" =>
         \A document \in run.status : \A row \in document.rows :
           /\ row.rebuildDue = IF world.captures[Releases].dated THEN FALSE ELSE None
           /\ IF DatesAreGiven(world.captures, row.branch)
              THEN \/ row.status = "current"
                   \/ row.status = "behind" /\ SupersededBy(world.captures, row.upstream) # {}
              ELSE /\ row.status = "unknown"
                   /\ document.health.unreadable \cap {Feed(row.branch), Releases} # {}
    /\ run.plan.action = "new_patch" =>
         BranchStatus(world.captures, run.plan.version.branch, {}) =
           IF DatesAreGiven(world.captures, run.plan.version.branch) THEN "behind" ELSE "unknown"

\* Every run has something to show: its document keeps the rules of its readers, and
\* its mail is a template made for it, whatever the sources answered.
EveryRunIsDescribed ==
  /\ run.stage = "reported" => run.status # {}
  /\ run.stage = "mailed" => run.mail # "unexpected_state"

\* The routes a publish run in flight holds and the mails it holds are two tables.
\* While one is in flight no mail announces work or a commit, and a run whose mail
\* says it was held changed nothing.
HeldRunsSayTheyAreHeld ==
  run.stage = "mailed" =>
    /\ world.inFlight =>
         run.mail \in {"held_for_publish", "watcher_failed", "quiet_day", "watcher_attention"}
    /\ run.mail = "held_for_publish" => run.did = {}
=============================================================================
