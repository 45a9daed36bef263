--------------------------- MODULE WatchDayProofs ---------------------------
(***************************************************************************)
(* Proofs about WatchDay, for any worlds.                                  *)
(*                                                                         *)
(* A run keeps what it derived of a world that stays as it was captured:   *)
(* its decision, the plan the classifier makes of that decision, and that  *)
(* it failed only where something could not be read.  So what              *)
(* ClassifierProofs shows of one classification holds of every run, and    *)
(* the page, the loop and the mail are compared with one plan.             *)
(***************************************************************************)
EXTENDS WatchDay, ClassifierProofs

-----------------------------------------------------------------------------
(* A world gives the classifier a reading admission agrees with. *)

LEMMA RecordFamilies ==
  ASSUME NEW k \in RecordKeys
  PROVE  /\ k[1] \in Families /\ k[2] \in Nat /\ k # None
         /\ k[1] = "new_patch" => k[3] \in Nat
<1>1. CASE k \in {"new_branch"} \X Nat
  BY <1>1, NoneIsNoValue DEF Families
<1>2. CASE k \in {"branch_eol", "new_patch"} \X Nat \X Nat
  BY <1>2, NoneIsNoValue DEF Families
<1>3. CASE k \in {"recipe_rebuild"} \X Nat \X Nat \X Nat
  BY <1>3, NoneIsNoValue DEF Families
<1> QED BY <1>1, <1>2, <1>3 DEF RecordKeys

LEMMA SeenFields ==
  ASSUME NEW w
  PROVE  /\ Seen(w).captures = w.captures /\ Seen(w).events = w.events
         /\ Seen(w).maintained = w.policy.branches /\ Seen(w).policyKey = w.policy.key
         /\ Seen(w).decision = DayDecision(w)
         /\ DayDecision(w).incomplete = Incomplete(w.events)
         /\ CompletedKeys(Seen(w)) = DOMAIN w.events \ Incomplete(w.events)
BY DEF Seen, DayDecision, CompletedKeys, Incomplete

LEMMA SeenIsInput ==
  ASSUME NEW w \in Worlds
  PROVE  IsInput(Seen(w))
<1>1. \A k \in Incomplete(w.events) : k[1] \in Families /\ k[2] \in Nat
  BY WorldsAssumption, RecordFamilies DEF RecordsAreTrue, Incomplete
<1>2. /\ w.policy.branches \subseteq Nat
      /\ PageReads(w.captures[Page]) => DOMAIN SupportRows(w.captures[Page]) \subseteq Nat
  BY WorldsAssumption DEF CommitIsWhole, CapturesAreWhole
<1> QED BY <1>1, <1>2, SeenFields DEF IsInput

\* From healthy sources the decision selects what admission will.
LEMMA DecisionFields ==
  ASSUME NEW w
  PROVE  /\ DayDecision(w).rebuild = DueRebuild(w)
         /\ DayDecision(w).trigger # "health_failed"
         /\ Unhealthy(w.captures) = {} => DayDecision(w).trigger # "source_unhealthy"
BY DEF DayDecision, WatchDecision, SnapshotIsTrusted, DueRebuild, Wake, EvidenceTrigger, Quiet

ListCanBeRead(w) == Unhealthy(w.captures) = {} => w.captures[Releases].shaped

\* The list of releases of a healthy capture.
LEMMA HealthyList ==
  ASSUME NEW w \in Worlds, Unhealthy(w.captures) = {}, ListCanBeRead(w)
  PROVE  /\ HealthyReleases(w) = w.captures[Releases].body
         /\ \A r \in HealthyReleases(w) : IsVersion(r.v) /\ ~r.draft
         /\ Published(HealthyReleases(w)) = HealthyReleases(w)
<1>1. Releases \in DOMAIN w.captures
  BY WorldsAssumption DEF CapturesAreWhole, EvidenceSources, FixedCaptures
<1>2. HealthyReleases(w) = w.captures[Releases].body
  BY <1>1 DEF HealthyReleases, Unhealthy
<1>3. \A r \in w.captures[Releases].body : IsVersion(r.v) /\ ~r.draft
  BY <1>1, WorldsAssumption DEF CapturesAreWhole, ListCanBeRead, IsVersion
<1> QED BY <1>2, <1>3 DEF Published

\* What is selected for a rebuild supersedes the newest release of its branch.
LEMMA SelectedRebuild ==
  ASSUME NEW w \in Worlds, Unhealthy(w.captures) = {}, ListCanBeRead(w), DueRebuild(w) # None
  PROVE  LET v == DueRebuild(w) IN
         /\ v \in [branch : Nat, patch : Nat, rev : Nat \ {0}]
         /\ \E r \in HealthyReleases(w) : r.v = [v EXCEPT !.rev = @ - 1]
         /\ \A r \in HealthyReleases(w) : r.v # v
<1> DEFINE v == DueRebuild(w)
           releases == HealthyReleases(w)
<1>1. v = PendingRebuild(releases, w.identity) /\ v # None
  BY DEF DueRebuild
<1>2. PICK last \in Nat : \A b \in DOMAIN w.identity : b <= last
  BY WorldsAssumption DEF CommitIsWhole
<1>3. \A r \in releases : IsVersion(r.v) /\ ~r.draft
  BY HealthyList
<1> HIDE DEF v, releases
<1>4. PICK r \in DueForRebuild(releases, w.identity) : v = [r.v EXCEPT !.rev = @ + 1]
  <2>1. \E r \in DueForRebuild(releases, w.identity) :
          PendingRebuild(releases, w.identity) = [r.v EXCEPT !.rev = @ + 1]
    BY <1>1, <1>2, <1>3, RebuildIsDue
  <2> QED BY <1>1, <2>1
<1>5. /\ r \in releases
      /\ \A s \in releases : s.v.branch = r.v.branch => ~Above(s.v, r.v)
  BY <1>3, <1>4 DEF DueForRebuild, BranchHeads, Published
<1>6. IsVersion(r.v)
  BY <1>3, <1>5
<1>7. /\ v \in [branch : Nat, patch : Nat, rev : Nat \ {0}]
      /\ r.v = [v EXCEPT !.rev = @ - 1]
      /\ v.branch = r.v.branch /\ v.patch = r.v.patch /\ v.rev = r.v.rev + 1
  <2> DEFINE u == r.v
  <2>1. v = [u EXCEPT !.rev = u.rev + 1] /\ u \in [branch : Nat, patch : Nat, rev : Nat]
    BY <1>4, <1>6 DEF IsVersion
  <2> HIDE DEF u
  <2>2. v = [branch |-> u.branch, patch |-> u.patch, rev |-> u.rev + 1]
    BY <2>1
  <2>3. /\ v \in [branch : Nat, patch : Nat, rev : Nat \ {0}]
        /\ v.branch = u.branch /\ v.patch = u.patch /\ v.rev = u.rev + 1
    BY <2>1, <2>2
  <2>4. u = [branch |-> v.branch, patch |-> v.patch, rev |-> v.rev - 1]
    BY <2>1, <2>3
  <2>5. u = [v EXCEPT !.rev = v.rev - 1]
    BY <2>2, <2>3, <2>4
  <2> QED BY <2>3, <2>5 DEF u
<1>8. ASSUME NEW s \in releases
      PROVE  s.v # v
  <2>1. IsVersion(s.v)
    BY <1>3
  <2> QED BY <1>5, <1>6, <1>7, <2>1 DEF Above, IsVersion
<1>9. \E s \in releases : s.v = [v EXCEPT !.rev = @ - 1]
  BY <1>5, <1>7
<1> QED BY <1>7, <1>8, <1>9 DEF v, releases

\* A key names one version, so a rebuild that is due has no complete record.
LEMMA RebuildIsUnrecorded ==
  ASSUME NEW w \in Worlds, Unhealthy(w.captures) = {}, ListCanBeRead(w), DueRebuild(w) # None
  PROVE  ReleaseKey(DueRebuild(w)) \notin CompletedKeys(Seen(w))
<1> DEFINE v == DueRebuild(w)
<1>1. /\ v \in [branch : Nat, patch : Nat, rev : Nat \ {0}]
      /\ \A r \in HealthyReleases(w) : r.v # v
  BY SelectedRebuild
<1>2. HealthyReleases(w) = w.captures[Releases].body /\ \A r \in HealthyReleases(w) : IsVersion(r.v)
  BY HealthyList
<1> HIDE DEF v
<1>3. ReleaseKey(v) = <<"recipe_rebuild", v.branch, v.patch, v.rev>>
  BY <1>1 DEF ReleaseKey
<1>4. SUFFICES ASSUME ReleaseKey(v) \in CompletedKeys(Seen(w)) PROVE FALSE
  BY DEF v
<1>5. /\ ReleaseKey(v) \in DOMAIN w.events \ Incomplete(w.events)
      /\ ReleaseKey(v)[1] = "recipe_rebuild"
  BY <1>3, <1>4, SeenFields
<1>6. PICK r \in w.captures[Releases].body : ReleaseKey(r.v) = ReleaseKey(v)
  BY <1>5, WorldsAssumption DEF RecordsAreTrue
<1>7. r.v \in [branch : Nat, patch : Nat, rev : Nat] /\ r.v # v
  BY <1>1, <1>2, <1>6 DEF IsVersion
<1>8. r.v.rev # 0
  BY <1>3, <1>6 DEF ReleaseKey
<1>9. <<"recipe_rebuild", r.v.branch, r.v.patch, r.v.rev>> = <<"recipe_rebuild", v.branch, v.patch, v.rev>>
  BY <1>3, <1>6, <1>8 DEF ReleaseKey
<1>10. r.v.branch = v.branch /\ r.v.patch = v.patch /\ r.v.rev = v.rev
  BY <1>9
<1> QED BY <1>1, <1>7, <1>10

LEMMA HealthyIsReading ==
  ASSUME NEW w \in Worlds, Unhealthy(w.captures) = {}, ListCanBeRead(w)
  PROVE  IsReading(Seen(w), CommitOf(w))
<1> DEFINE seen == Seen(w)
           base == CommitOf(w)
<1>1. /\ seen.captures = w.captures /\ seen.events = w.events
      /\ seen.maintained = w.policy.branches /\ seen.policyKey = w.policy.key
      /\ seen.decision.incomplete = Incomplete(w.events)
      /\ seen.decision.rebuild = DueRebuild(w)
      /\ CompletedKeys(seen) = DOMAIN w.events \ Incomplete(w.events)
  BY SeenFields, DecisionFields
<1>2. base.policy = w.policy /\ base.lists = w.lists /\ base.recorded = DOMAIN w.events
  BY DEF CommitOf
<1>3. IsInput(seen)
  BY SeenIsInput
<1> HIDE DEF seen, base
<1>4. FeedsAreTyped(seen)
  <2> DEFINE c == w.captures
             branches == w.policy.branches
  <2>1. DOMAIN c = EvidenceSources(branches)
    BY WorldsAssumption DEF CapturesAreWhole
  <2>2. Aggregate \in DOMAIN c /\ \A b \in branches : Feed(b) \in DOMAIN c
    BY <2>1, FixedIds DEF EvidenceSources
  <2>3. /\ \A b \in branches : c[Feed(b)].shaped => c[Feed(b)].body \in Nat
        /\ c[Aggregate].shaped =>
             \A m \in DOMAIN c[Aggregate].body :
               c[Aggregate].body[m] \in [branch : Nat, patch : Nat, rev : {0}]
    BY <2>2, WorldsAssumption DEF CapturesAreWhole
  <2> QED BY <1>1, <2>1, <2>3 DEF FeedsAreTyped
<1>5. CommitIsSound(seen, base)
  BY <1>1, <1>2, WorldsAssumption DEF CommitIsSound, CommitIsWhole
<1>6. RecordsAreSound(seen)
  <2>1. seen.decision.incomplete = DOMAIN seen.events \ CompletedKeys(seen)
    BY <1>1 DEF Incomplete
  <2>2. \A k \in DOMAIN w.events : k \in RecordKeys
    BY WorldsAssumption DEF RecordsAreTrue
  <2>3. \A k \in DOMAIN w.events :
          /\ k[1] \in Families /\ k # None
          /\ k[1] = "new_patch" => k[3] \in Nat
    BY <2>2, RecordFamilies
  <2>4. \A k \in DOMAIN w.events :
          /\ k[1] = "new_patch" => BranchHasShipped(w.captures, k[2], CompletedKeys(seen))
          /\ k \in CompletedKeys(seen) =>
               /\ k[1] = "branch_eol" => k[2] \notin w.policy.branches
               /\ k[1] = "new_branch" =>
                    \/ k[2] \in w.policy.branches
                    \/ k[2] \in DOMAIN SupportRows(w.captures[Page]) =>
                         SupportRows(w.captures[Page])[k[2]].state \notin SupportedStates
    BY <1>1, WorldsAssumption DEF RecordsAreTrue
  <2>5. Incomplete(w.events) \subseteq DOMAIN w.events /\ CompletedKeys(seen) \subseteq DOMAIN w.events
    BY <1>1 DEF Incomplete
  <2> QED BY <1>1, <2>1, <2>3, <2>4, <2>5 DEF RecordsAreSound
<1>7. SelectionIsSound(seen)
  <2> SUFFICES ASSUME DueRebuild(w) # None
               PROVE  LET v == DueRebuild(w) IN
                      /\ v \in [branch : Nat, patch : Nat, rev : Nat \ {0}]
                      /\ \E r \in w.captures[Releases].body : r.v = [v EXCEPT !.rev = @ - 1]
                      /\ ReleaseKey(v) \notin CompletedKeys(seen)
    BY <1>1 DEF SelectionIsSound, RebuildIsSelected
  <2>1. HealthyReleases(w) = w.captures[Releases].body
    BY HealthyList
  <2> QED BY <2>1, SelectedRebuild, RebuildIsUnrecorded DEF seen
<1> QED BY <1>3, <1>4, <1>5, <1>6, <1>7 DEF IsReading, seen, base

LEMMA PlanIsAdmitted ==
  ASSUME NEW w \in Worlds, ListCanBeRead(w)
  PROVE  Admitted(w, ClassifyEvidence(Seen(w)))
<1> DEFINE plan == ClassifyEvidence(Seen(w))
<1>1. Accepted(Seen(w), CommitOf(w), plan)
  <2>1. CASE Unhealthy(w.captures) = {}
    BY <2>1, HealthyIsReading, PlansAreAccepted
  <2>2. CASE Unhealthy(w.captures) # {}
    <3>1. SourcesFail(Seen(w))
      BY <2>2, SeenFields DEF SourcesFail
    <3>2. \A k \in DOMAIN w.events : k[1] \in Families
      BY WorldsAssumption, RecordFamilies DEF RecordsAreTrue
    <3>3. w.policy.branches \subseteq Nat /\ DOMAIN w.captures = EvidenceSources(w.policy.branches)
      BY WorldsAssumption DEF CommitIsWhole, CapturesAreWhole
    <3>4. Accepted(Seen(w), CommitOf(w), Health(Seen(w)))
      BY <3>1, <3>2, <3>3, SeenFields, HealthIsAccepted
    <3> QED BY <3>1, <3>4 DEF ClassifyEvidence
  <2> QED BY <2>1, <2>2
<1> HIDE DEF plan
<1>2. /\ Seen(w).captures = w.captures
      /\ CompletedKeys(Seen(w)) = DOMAIN w.events \ Incomplete(w.events)
      /\ Seen(w).decision.rebuild = DueRebuild(w)
  BY SeenFields, DecisionFields
<1>3. Admitted(w, plan)
  BY <1>1, <1>2 DEF Accepted, Admitted
<1> QED BY <1>3 DEF plan

-----------------------------------------------------------------------------
(***************************************************************************)
(* What a run has derived, by how far it got.  r is the run and w its      *)
(* world: predicates of both, so that a step is a change of r alone.       *)
(***************************************************************************)
RunFields == {"stage", "decision", "plan", "status", "failed", "merged", "did", "mail"}
Stages == {"captured", "decided", "planned", "reported", "recovered", "ended", "mailed"}
BeforeItsWork == {"captured", "decided", "planned", "reported"}

\* The decision and the plan are those of the world, and the plan was admitted.
Derived(w, r) ==
  /\ r.decision # None => r.decision = DayDecision(w) /\ ListCanBeRead(w)
  /\ r.plan # None => r.decision # None /\ r.plan = ClassifyEvidence(Seen(w)) /\ Admitted(w, r.plan)

\* A run that has not failed decided, and classified what the decision asked for.
Complete(w, r) ==
  ~r.failed => r.decision # None /\ (r.decision.classify => r.plan # None)

\* What a release in flight leaves untouched.
HeldPlan(plan) == plan = None \/ plan.action \in MailHeldActions

Progress(w, r) ==
  /\ r.stage \in {"captured", "decided"} => r.plan = None /\ r.failed = FALSE
  /\ r.stage = "decided" => r.decision # None
  /\ r.stage = "planned" =>
       (r.failed => ~Trusted(w.captures, Releases) \/ w.captures[MiseState].status # 200)
  /\ r.stage \notin {"captured", "decided"} => Complete(w, r)
  /\ r.stage = "reported" =>
       r.status = {d \in {StatusDocument(w.captures, r.decision, r.plan, w.snapshot, w.identity)} :
                     ValidStatusDocument(d)}
  /\ r.stage \in BeforeItsWork => r.did = {} /\ r.merged = FALSE
  /\ w.inFlight /\ r.stage = "recovered" => r.did = {}
  /\ w.inFlight /\ HeldPlan(r.plan) => r.did = {}
  /\ r.stage = "mailed" =>
       r.mail = WatcherDigest([conclusion |-> IF r.failed THEN "failure" ELSE "success",
                               decision |-> r.decision, plan |-> r.plan, inFlight |-> w.inFlight])

RunInv(w, r) ==
  /\ w \in Worlds /\ DOMAIN r = RunFields /\ r.stage \in Stages
  /\ Derived(w, r) /\ Progress(w, r)

IInv == RunInv(world, run)

LEMMA InitKeeps == Init => IInv
BY DEF Init, StartOfRun, IInv, RunInv, RunFields, Stages, BeforeItsWork, Derived, Progress

\* The plans and decisions of a world are none that was not made.
LEMMA Made ==
  ASSUME NEW w \in Worlds
  PROVE  LET plan == ClassifyEvidence(Seen(w)) IN
         DayDecision(w) # None /\ plan # None /\ plan.action # None /\ plan.key # None
<1> DEFINE plan == ClassifyEvidence(Seen(w))
<1>1. None \notin {DayDecision(w), plan, plan.action, plan.key}
  BY NoneIsNotMade
<1> HIDE DEF plan
<1>2. DayDecision(w) # None /\ plan # None /\ plan.action # None /\ plan.key # None
  BY <1>1
<1> QED BY <1>2 DEF plan

LEMMA DecideKeeps ==
  ASSUME IInv, Decide
  PROVE  IInv'
<1> USE DEF RunFields
<1>1. /\ DOMAIN run = RunFields /\ world \in Worlds /\ UNCHANGED world
      /\ run.stage = "captured" /\ run.plan = None /\ run.failed = FALSE
      /\ run.did = {} /\ run.merged = FALSE /\ Derived(world, run)
  BY DEF Decide, IInv, RunInv, Progress, BeforeItsWork
<1>2. CASE Trusted(world.captures, Releases) \/ world.captures[Releases].status # 200
  <2>1. run' = [run EXCEPT !.stage = "decided", !.decision = DayDecision(world)]
    BY <1>2 DEF Decide
  <2>2. /\ DOMAIN run' = RunFields /\ run'.stage = "decided" /\ run'.decision = DayDecision(world)
        /\ run'.plan = None /\ run'.failed = FALSE /\ run'.did = {} /\ run'.merged = FALSE
    BY <1>1, <2>1
  <2>3. ListCanBeRead(world)
    <3>1. Releases \in DOMAIN world.captures
      BY <1>1, WorldsAssumption DEF CapturesAreWhole, EvidenceSources, FixedCaptures
    <3> QED BY <1>2, <3>1 DEF ListCanBeRead, Trusted, Unhealthy
  <2>4. DayDecision(world) # None
    BY <1>1, Made
  <2>5. RunInv(world, run')
    BY <1>1, <2>2, <2>3, <2>4 DEF RunInv, Derived, Progress, Stages, BeforeItsWork
  <2> QED BY <1>1, <2>5 DEF IInv
<1>3. CASE ~(Trusted(world.captures, Releases) \/ world.captures[Releases].status # 200)
  <2>1. run' = [run EXCEPT !.stage = "planned", !.failed = TRUE]
    BY <1>3 DEF Decide
  <2>2. /\ DOMAIN run' = RunFields /\ run'.stage = "planned" /\ run'.failed = TRUE
        /\ run'.plan = None /\ run'.decision = run.decision /\ run'.did = {} /\ run'.merged = FALSE
    BY <1>1, <2>1
  <2>3. RunInv(world, run')
    BY <1>1, <1>3, <2>2 DEF RunInv, Derived, Progress, Complete, Stages, BeforeItsWork
  <2> QED BY <1>1, <2>3 DEF IInv
<1> QED BY <1>2, <1>3

LEMMA ClassifyKeeps ==
  ASSUME IInv, ClassifyCapture
  PROVE  IInv'
<1> USE DEF RunFields
<1>1. /\ DOMAIN run = RunFields /\ world \in Worlds /\ UNCHANGED world
      /\ run.stage = "decided" /\ run.plan = None /\ run.failed = FALSE
      /\ run.did = {} /\ run.merged = FALSE
      /\ run.decision # None /\ run.decision = DayDecision(world) /\ ListCanBeRead(world)
  BY DEF ClassifyCapture, IInv, RunInv, Derived, Progress, BeforeItsWork
<1> DEFINE plan == ClassifyEvidence(Seen(world))
<1>2. Admitted(world, plan) /\ plan # None
  BY <1>1, PlanIsAdmitted, Made
<1>3. CASE run.decision.classify /\ PreconditionsHold
  <2>1. run' = [run EXCEPT !.stage = "planned", !.plan = plan]
    BY <1>2, <1>3 DEF ClassifyCapture
  <2> HIDE DEF plan
  <2>2. /\ DOMAIN run' = RunFields /\ run'.stage = "planned" /\ run'.failed = FALSE
        /\ run'.plan = plan /\ run'.decision = run.decision /\ run'.did = {} /\ run'.merged = FALSE
    BY <1>1, <2>1
  <2>3. Derived(world, run')
    BY <1>1, <1>2, <2>2 DEF Derived, plan
  <2>4. RunInv(world, run')
    BY <1>1, <1>2, <2>2, <2>3 DEF RunInv, Progress, Complete, Stages, BeforeItsWork
  <2> QED BY <1>1, <2>4 DEF IInv
<1>4. CASE ~(run.decision.classify /\ PreconditionsHold)
  <2> HIDE DEF plan
  <2>1. run' = [run EXCEPT !.stage = "planned", !.failed = run.decision.classify]
    BY <1>4 DEF ClassifyCapture
  <2>2. /\ DOMAIN run' = RunFields /\ run'.stage = "planned" /\ run'.failed = run.decision.classify
        /\ run'.plan = None /\ run'.decision = run.decision /\ run'.did = {} /\ run'.merged = FALSE
    BY <1>1, <2>1
  <2>3. Derived(world, run') /\ Complete(world, run')
    BY <1>1, <2>2 DEF Derived, Complete
  <2>4. run'.failed => world.captures[MiseState].status # 200
    BY <1>4, <2>2 DEF PreconditionsHold
  <2>5. RunInv(world, run')
    BY <1>1, <2>2, <2>3, <2>4 DEF RunInv, Progress, Stages, BeforeItsWork
  <2> QED BY <1>1, <2>5 DEF IInv
<1> QED BY <1>3, <1>4

LEMMA DeriveKeeps ==
  ASSUME IInv, DeriveStatus
  PROVE  IInv'
<1> USE DEF RunFields
<1> DEFINE document == StatusDocument(world.captures, run.decision, run.plan, world.snapshot,
                                      world.identity)
           kept == {d \in {document} : ValidStatusDocument(d)}
<1>1. /\ DOMAIN run = RunFields /\ world \in Worlds /\ UNCHANGED world
      /\ run.stage = "planned" /\ run.did = {} /\ run.merged = FALSE
      /\ Derived(world, run) /\ Complete(world, run)
  BY DEF DeriveStatus, IInv, RunInv, Progress, BeforeItsWork
<1>2. run' = [run EXCEPT !.stage = "reported", !.status = kept]
  BY DEF DeriveStatus
<1>3. kept = {d \in {StatusDocument(world.captures, run.decision, run.plan, world.snapshot,
                                    world.identity)} : ValidStatusDocument(d)}
  OBVIOUS
<1> HIDE DEF document, kept
<1>4. /\ DOMAIN run' = RunFields /\ run'.stage = "reported" /\ run'.failed = run.failed
      /\ run'.plan = run.plan /\ run'.decision = run.decision /\ run'.did = {}
      /\ run'.merged = FALSE /\ run'.status = kept
  BY <1>1, <1>2
<1>5. Derived(world, run') /\ Complete(world, run')
  BY <1>1, <1>4 DEF Derived, Complete
<1>6. RunInv(world, run')
  BY <1>1, <1>3, <1>4, <1>5 DEF RunInv, Progress, Stages, BeforeItsWork
<1> QED BY <1>1, <1>6 DEF IInv

\* A step that touches neither the derived state nor what the run did.
LEMMA QuietStep ==
  ASSUME NEW w, NEW r, NEW s, RunInv(w, r), DOMAIN s = RunFields,
         r.stage \notin {"captured", "decided"}, s.stage \in {"recovered", "ended"},
         s.decision = r.decision, s.plan = r.plan, s.did = r.did, s.failed = r.failed \/ s.failed = TRUE,
         r.stage \in BeforeItsWork \cup {"recovered"}
  PROVE  RunInv(w, s)
<1>1. Derived(w, s) /\ Complete(w, s)
  BY DEF RunInv, Derived, Progress, Complete
<1> QED BY <1>1 DEF RunInv, Progress, Stages, BeforeItsWork

LEMMA RecoverKeeps ==
  ASSUME IInv, Recover
  PROVE  IInv'
<1> USE DEF RunFields
<1>1. /\ DOMAIN run = RunFields /\ world \in Worlds /\ UNCHANGED world /\ RunInv(world, run)
      /\ run.stage = "reported" /\ run.did = {}
  BY DEF Recover, IInv, RunInv, Progress, BeforeItsWork
<1>2. CASE run' = [run EXCEPT !.stage = "recovered"]
  <2>1. /\ DOMAIN run' = RunFields /\ run'.stage = "recovered" /\ run'.failed = run.failed
        /\ run'.plan = run.plan /\ run'.decision = run.decision /\ run'.did = run.did
    BY <1>1, <1>2
  <2> QED BY <1>1, <2>1, QuietStep DEF IInv, BeforeItsWork
<1>3. CASE run' = [run EXCEPT !.stage = "recovered", !.failed = TRUE]
  <2>1. /\ DOMAIN run' = RunFields /\ run'.stage = "recovered" /\ run'.failed = TRUE
        /\ run'.plan = run.plan /\ run'.decision = run.decision /\ run'.did = run.did
    BY <1>1, <1>3
  <2> QED BY <1>1, <2>1, QuietStep DEF IInv, BeforeItsWork
<1>4. CASE /\ MayRecover
           /\ run' = [run EXCEPT !.stage = "recovered", !.merged = TRUE, !.did = @ \cup {"record"}]
  <2>1. /\ DOMAIN run' = RunFields /\ run'.stage = "recovered" /\ run'.failed = run.failed
        /\ run'.plan = run.plan /\ run'.decision = run.decision
    BY <1>1, <1>4
  <2>2. ~world.inFlight
    BY <1>4 DEF MayRecover, Route, RecoveryRoute, RecoveryCall
  <2>3. Derived(world, run') /\ Complete(world, run')
    BY <1>1, <2>1 DEF RunInv, Derived, Progress, Complete
  <2>4. RunInv(world, run')
    BY <1>1, <2>1, <2>2, <2>3 DEF RunInv, Progress, Stages, BeforeItsWork
  <2> QED BY <1>1, <2>4 DEF IInv
<1> QED BY <1>2, <1>3, <1>4 DEF Recover

\* While a publish run is in flight, what is routed at all is the notice of a stop.
LEMMA HeldEffects ==
  ASSUME world.inFlight, HeldPlan(run.plan), NEW answers
  PROVE  Effect(RouteTaken, answers) = {}
<1> DEFINE d == [action |-> IF run.plan = None THEN "none" ELSE run.plan.action,
                 key |-> IF run.plan = None THEN None ELSE run.plan.key,
                 recordKey |-> RecordKey,
                 edits |-> run.plan # None /\ run.plan.edits,
                 recoveryMerged |-> run.merged,
                 evidenceRecorded |-> EvidenceRecorded,
                 publishInFlight |-> world.inFlight]
<1>1. RouteTaken = IF ~world.enabled THEN "none" ELSE Route(d).route
  BY DEF RouteTaken
<1>2. d.publishInFlight /\ d.action = IF run.plan = None THEN "none" ELSE run.plan.action
  OBVIOUS
<1>3. d.action \notin {"blocked", "needs_human"}
  BY <1>2 DEF HeldPlan, MailHeldActions
<1> HIDE DEF d
<1>4. Route(d).route \notin HeldForPublish
  BY <1>2, HeldRoutes
<1>5. Route(d).route # "notify_blocked"
  BY <1>3 DEF Route, PlanRoute
<1>6. RouteTaken \notin HeldForPublish \cup {"notify_blocked"}
  BY <1>1, <1>4, <1>5 DEF HeldForPublish
<1> QED BY <1>6 DEF Effect, HeldForPublish

LEMMA RouteKeeps ==
  ASSUME IInv, TakeRoute \/ RouteFails
  PROVE  IInv'
<1> USE DEF RunFields
<1>1. /\ DOMAIN run = RunFields /\ world \in Worlds /\ UNCHANGED world /\ RunInv(world, run)
      /\ run.stage = "recovered"
  BY DEF TakeRoute, RouteFails, IInv, RunInv
<1>2. CASE RouteFails
  <2>1. run' = [run EXCEPT !.stage = "ended", !.failed = TRUE]
    BY <1>2 DEF RouteFails
  <2>2. /\ DOMAIN run' = RunFields /\ run'.stage = "ended" /\ run'.failed = TRUE
        /\ run'.plan = run.plan /\ run'.decision = run.decision /\ run'.did = run.did
    BY <1>1, <2>1
  <2> QED BY <1>1, <2>2, QuietStep DEF IInv
<1>3. CASE TakeRoute
  <2>1. PICK answers \in BOOLEAN :
          run' = [run EXCEPT !.stage = "ended", !.did = @ \cup Effect(RouteTaken, answers)]
    BY <1>3 DEF TakeRoute
  <2>2. /\ DOMAIN run' = RunFields /\ run'.stage = "ended" /\ run'.failed = run.failed
        /\ run'.plan = run.plan /\ run'.decision = run.decision
        /\ run'.did = run.did \cup Effect(RouteTaken, answers)
    BY <1>1, <2>1
  <2>3. Derived(world, run') /\ Complete(world, run')
    BY <1>1, <2>2 DEF RunInv, Derived, Progress, Complete
  <2>4. world.inFlight /\ HeldPlan(run'.plan) => run'.did = {}
    <3> SUFFICES ASSUME world.inFlight, HeldPlan(run.plan) PROVE run'.did = {}
      BY <2>2
    <3>1. Effect(RouteTaken, answers) = {}
      BY HeldEffects
    <3>2. run.did = {}
      BY <1>1 DEF RunInv, Progress
    <3> QED BY <2>2, <3>1, <3>2
  <2>5. RunInv(world, run')
    BY <1>1, <2>2, <2>3, <2>4 DEF RunInv, Progress, Stages, BeforeItsWork
  <2> QED BY <1>1, <2>5 DEF IInv
<1> QED BY <1>2, <1>3

LEMMA MailKeeps ==
  ASSUME IInv, SendMail
  PROVE  IInv'
<1> USE DEF RunFields
<1> DEFINE mail == WatcherDigest([conclusion |-> IF run.failed THEN "failure" ELSE "success",
                                  decision |-> run.decision, plan |-> run.plan,
                                  inFlight |-> world.inFlight])
<1>1. /\ DOMAIN run = RunFields /\ world \in Worlds /\ UNCHANGED world /\ RunInv(world, run)
      /\ run.stage = "ended" /\ run' = [run EXCEPT !.stage = "mailed", !.mail = mail]
  BY DEF SendMail, IInv, RunInv
<1>2. mail = WatcherDigest([conclusion |-> IF run.failed THEN "failure" ELSE "success",
                            decision |-> run.decision, plan |-> run.plan,
                            inFlight |-> world.inFlight])
  OBVIOUS
<1> HIDE DEF mail
<1>3. /\ DOMAIN run' = RunFields /\ run'.stage = "mailed" /\ run'.failed = run.failed
      /\ run'.plan = run.plan /\ run'.decision = run.decision /\ run'.did = run.did
      /\ run'.mail = mail
  BY <1>1
<1>4. Derived(world, run') /\ Complete(world, run')
  BY <1>1, <1>3 DEF RunInv, Derived, Progress, Complete
<1>5. world.inFlight /\ HeldPlan(run'.plan) => run'.did = {}
  BY <1>1, <1>3 DEF RunInv, Progress
<1>6. RunInv(world, run')
  BY <1>1, <1>2, <1>3, <1>4, <1>5 DEF RunInv, Progress, Stages, BeforeItsWork
<1> QED BY <1>1, <1>6 DEF IInv

LEMMA StepKeeps ==
  ASSUME IInv, [Next]_vars
  PROVE  IInv'
<1>1. CASE NothingToCoordinate
  <2>1. /\ DOMAIN run = RunFields /\ world \in Worlds /\ UNCHANGED world /\ RunInv(world, run)
        /\ run.stage = "reported" /\ run' = [run EXCEPT !.stage = "ended"]
    BY <1>1 DEF NothingToCoordinate, IInv, RunInv
  <2>2. /\ DOMAIN run' = RunFields /\ run'.stage = "ended" /\ run'.failed = run.failed
        /\ run'.plan = run.plan /\ run'.decision = run.decision /\ run'.did = run.did
    BY <2>1 DEF RunFields
  <2> QED BY <2>1, <2>2, QuietStep DEF IInv, BeforeItsWork
<1>2. CASE UNCHANGED vars
  BY <1>2 DEF vars, IInv
<1> QED BY <1>1, <1>2, DecideKeeps, ClassifyKeeps, DeriveKeeps, RecoverKeeps, RouteKeeps, MailKeeps
        DEF Next

THEOREM Invariance == Spec => []IInv
<1>1. Init => IInv
  BY InitKeeps
<1>2. IInv /\ [Next]_vars => IInv'
  BY StepKeeps
<1> QED BY <1>1, <1>2, PTL DEF Spec

-----------------------------------------------------------------------------
(* What follows for the run. *)

\* A kept plan is one the job can route, under a key of its own family.
LEMMA KeptPlan ==
  ASSUME NEW w, NEW r, RunInv(w, r), r.plan # None
  PROVE  /\ r.plan = ClassifyEvidence(Seen(w)) /\ r.plan.action \in RoutableActions
         /\ KeyFitsAction(r.plan.action, r.plan.key)
         /\ r.plan.action # None /\ r.plan.key # None
<1>1. /\ w \in Worlds /\ r.plan = ClassifyEvidence(Seen(w)) /\ Admitted(w, r.plan)
  BY DEF RunInv, Derived
<1>2. r.plan.action \in RoutableActions
  BY <1>1, SeenIsInput, PlansAreSound DEF IsSound, IsRoutable
<1>3. KeyFitsAction(r.plan.action, r.plan.key)
  BY <1>1, <1>2 DEF Admitted, ValidatePlan, PlanShape, RebuildOf, KeyFitsAction, RoutableActions,
                    LifecycleActions, PublishActions, NoWorkActions
<1> QED BY <1>1, <1>2, <1>3, Made

\* A run fails before its work only where the list of releases or the head of mise-php
\* cannot be read: every other fault of a source reaches the owner as a plan.
THEOREM FailuresAreUnreadable == Spec => []OnlyUnreadableSourcesFail
<1>1. IInv => OnlyUnreadableSourcesFail
  BY DEF IInv, RunInv, Progress, OnlyUnreadableSourcesFail, PreconditionsHold
<1> QED BY <1>1, Invariance, PTL

\* Whatever the sources answer, no run holds work that rests on a source that failed
\* or that its reader could not parse.
THEOREM WorkIsReadable == Spec => []WorkRestsOnReadableEvidence
<1>1. IInv => WorkRestsOnReadableEvidence
  <2> SUFFICES ASSUME IInv, Planned, IsWork(run.plan)
               PROVE  /\ Unhealthy(world.captures) = {}
                      /\ \A id \in Cited(run.plan) : CanBeRead(Seen(world), id)
    BY SeenFields DEF WorkRestsOnReadableEvidence, CanBeRead
  <2>1. run.plan = ClassifyEvidence(Seen(world)) /\ world \in Worlds
    BY KeptPlan DEF IInv, Planned, RunInv
  <2>2. IsInput(Seen(world)) /\ Seen(world).captures = world.captures
    BY <2>1, SeenIsInput, SeenFields
  <2> QED BY <2>1, <2>2, PlansAreSound DEF IsWork, IsSound, IsReadable
<1> QED BY <1>1, Invariance, PTL

\* The mail of a run and its routes agree about a publish run in flight: it announces
\* no work, and what it calls held was left alone.
THEOREM HoldsAreAnnounced == Spec => []HeldRunsSayTheyAreHeld
<1>1. ASSUME IInv, run.stage = "mailed"
      PROVE  /\ world.inFlight =>
                  run.mail \in {"held_for_publish", "watcher_failed", "quiet_day", "watcher_attention"}
             /\ run.mail = "held_for_publish" => run.did = {}
  <2>1. RunInv(world, run) /\ Complete(world, run)
    BY <1>1 DEF IInv, RunInv, Progress
  <2> DEFINE report == [conclusion |-> IF run.failed THEN "failure" ELSE "success",
                        decision |-> run.decision, plan |-> run.plan, inFlight |-> world.inFlight]
  <2>2. /\ report.conclusion = "success" => ~run.failed
        /\ report.decision = run.decision /\ report.plan = run.plan
        /\ report.inFlight = world.inFlight
    OBVIOUS
  <2>3. run.mail = WatcherDigest(report)
    BY <1>1, <2>1 DEF RunInv, Progress
  <2> HIDE DEF report
  <2>4. CASE report.conclusion # "success" \/ ~run.decision.classify
    BY <2>1, <2>2, <2>3, <2>4 DEF WatcherDigest, Complete
  <2>5. CASE report.conclusion = "success" /\ run.decision.classify
    <3>1. run.decision # None /\ run.plan # None
      BY <2>1, <2>2, <2>5 DEF Complete
    <3>2. KeyFitsAction(run.plan.action, run.plan.key) /\ run.plan.action \in RoutableActions
      BY <2>1, <3>1, KeptPlan
    <3>3. run.mail = IF world.inFlight /\ run.plan.action \in MailHeldActions
                     THEN "held_for_publish" ELSE StartedMail[run.plan.action]
      BY <2>2, <2>3, <2>5, <3>1, <3>2 DEF WatcherDigest, HeldMail
    <3>4. /\ StartedMail["blocked"] = "watcher_attention"
          /\ StartedMail["needs_human"] = "watcher_attention"
          /\ \A action \in RoutableActions : StartedMail[action] # "held_for_publish"
      BY DEF StartedMail, RoutableActions, LifecycleActions, PublishActions, NoWorkActions
    <3>5. world.inFlight /\ run.plan.action \in MailHeldActions => run.did = {}
      BY <2>1 DEF RunInv, Progress, HeldPlan
    <3>6. run.plan.action \in MailHeldActions \/ run.plan.action \in {"blocked", "needs_human"}
      BY <3>2 DEF RoutableActions, LifecycleActions, PublishActions, NoWorkActions, MailHeldActions
    <3> QED BY <3>2, <3>3, <3>4, <3>5, <3>6
  <2> QED BY <2>4, <2>5
<1>2. IInv => HeldRunsSayTheyAreHeld
  BY <1>1 DEF HeldRunsSayTheyAreHeld
<1> QED BY <1>2, Invariance, PTL

-----------------------------------------------------------------------------
(* The page. *)

ReleasesOn(captures, branch) == {r.v : r \in {s \in captures[Releases].body : s.v.branch = branch}}

\* The newest release of a branch is one of its releases and none is above it.
LEMMA NewestIsTheNewest ==
  ASSUME NEW w \in Worlds, w.captures[Releases].shaped, NEW b
  PROVE  LET on == ReleasesOn(w.captures, b)
             v == NewestRelease(w.captures, b)
         IN /\ on = {} => v = None
            /\ on # {} =>
                 /\ v \in on /\ IsVersion(v) /\ v # None /\ v.branch = b
                 /\ \A u \in on : IsVersion(u) /\ u.branch = b /\ u.patch <= v.patch
<1> DEFINE body == w.captures[Releases].body
           on == ReleasesOn(w.captures, b)
           v == NewestRelease(w.captures, b)
<1>1. \A r \in body :
        /\ IsVersion(r.v)
        /\ \E newest \in {s \in body : s.v.branch = r.v.branch} :
             \A s \in body : s.v.branch = r.v.branch => ~Above(s.v, newest.v)
  <2>1. Releases \in DOMAIN w.captures
    BY WorldsAssumption DEF CapturesAreWhole, EvidenceSources, FixedCaptures
  <2> QED BY <2>1, WorldsAssumption DEF CapturesAreWhole, IsVersion
<1>2. on = {r.v : r \in {s \in body : s.v.branch = b}}
  BY DEF ReleasesOn
<1>3. v = IF on = {} THEN None ELSE CHOOSE x \in on : \A u \in on : ~Above(u, x)
  BY DEF NewestRelease, ReleasesOn
<1> HIDE DEF body, on, v
<1>4. \A u \in on : IsVersion(u) /\ u.branch = b
  BY <1>1, <1>2
<1>5. ASSUME on # {}
      PROVE  v \in on /\ \A u \in on : ~Above(u, v)
  <2>1. PICK r \in body : r.v.branch = b
    BY <1>2, <1>5
  <2>2. PICK newest \in body : newest.v.branch = b /\ \A s \in body : s.v.branch = b => ~Above(s.v, newest.v)
    BY <1>1, <2>1
  <2>3. newest.v \in on /\ \A u \in on : ~Above(u, newest.v)
    BY <1>2, <2>2
  <2> QED BY <1>3, <1>5, <2>3
<1>6. ASSUME on # {}
      PROVE  \A u \in on : u.patch <= v.patch
  <2> SUFFICES ASSUME NEW u \in on PROVE u.patch <= v.patch
    OBVIOUS
  <2>1. IsVersion(u) /\ IsVersion(v) /\ u.branch = v.branch /\ ~Above(u, v)
    BY <1>4, <1>5, <1>6
  <2> QED BY <2>1 DEF Above, IsVersion
<1>7. on # {} => v # None
  BY <1>4, <1>5, NoneIsNoValue DEF IsVersion
<1> QED BY <1>3, <1>4, <1>5, <1>6, <1>7 DEF on, v

\* What the page can say of one branch.
LEMMA RowFacts ==
  ASSUME NEW w \in Worlds, NEW b \in w.policy.branches, NEW inProgress
  PROVE  LET upstream == Upstream(w.captures, b)
             phpBin == PhpBin(w.captures, b)
         IN /\ upstream # None => upstream.branch = b /\ upstream.patch \in Nat
            /\ phpBin # None => IsVersion(phpBin) /\ phpBin.branch = b
            /\ BranchStatus(w.captures, b, inProgress) = "current" =>
                 upstream # None /\ phpBin # None /\ phpBin.patch >= upstream.patch
            /\ BranchStatus(w.captures, b, inProgress) = "behind" =>
                 upstream # None /\ (phpBin = None \/ phpBin.patch < upstream.patch)
            /\ BranchStatus(w.captures, b, inProgress) \in BranchStates
<1> DEFINE upstream == Upstream(w.captures, b)
           phpBin == PhpBin(w.captures, b)
<1>1. upstream # None => upstream.branch = b /\ upstream.patch \in Nat
  <2>1. Feed(b) \in DOMAIN w.captures
    BY WorldsAssumption DEF CapturesAreWhole, EvidenceSources
  <2>2. w.captures[Feed(b)].shaped => w.captures[Feed(b)].body \in Nat
    BY <2>1, WorldsAssumption DEF CapturesAreWhole
  <2> QED BY <2>1, <2>2 DEF Upstream, BranchFeedVersion, Version, PageTrusts, Trusted
<1>2. phpBin # None => IsVersion(phpBin) /\ phpBin.branch = b
  <2> SUFFICES ASSUME phpBin # None PROVE IsVersion(phpBin) /\ phpBin.branch = b
    OBVIOUS
  <2>1. w.captures[Releases].shaped /\ phpBin = NewestRelease(w.captures, b)
    BY DEF PhpBin, PageTrusts, Trusted
  <2>2. ReleasesOn(w.captures, b) # {}
    BY <2>1, NewestIsTheNewest
  <2>3. IsVersion(NewestRelease(w.captures, b)) /\ NewestRelease(w.captures, b).branch = b
    BY <2>1, <2>2, NewestIsTheNewest
  <2> QED BY <2>1, <2>3
<1>3. /\ BranchStatus(w.captures, b, inProgress) = "current" => upstream # None /\ Ships(phpBin, upstream)
      /\ BranchStatus(w.captures, b, inProgress) = "behind" => upstream # None /\ ~Ships(phpBin, upstream)
      /\ BranchStatus(w.captures, b, inProgress) \in BranchStates
  BY DEF BranchStatus, BranchStates
<1> HIDE DEF upstream, phpBin
<1>4. upstream # None /\ ~Ships(phpBin, upstream) => phpBin = None \/ phpBin.patch < upstream.patch
  BY <1>1, <1>2 DEF Ships, IsVersion
<1>5. Ships(phpBin, upstream) => phpBin # None /\ phpBin.patch >= upstream.patch
  BY DEF Ships
<1> QED BY <1>1, <1>2, <1>3, <1>4, <1>5 DEF upstream, phpBin

LEMMA RowIsValid ==
  ASSUME NEW w \in Worlds, NEW b \in w.policy.branches, NEW inProgress, NEW identity
  PROVE  ValidStatusRow(BranchRow(w.captures, b, inProgress, identity))
<1> DEFINE row == BranchRow(w.captures, b, inProgress, identity)
<1>1. /\ row.branch = b /\ row.status = BranchStatus(w.captures, b, inProgress)
      /\ row.upstream = Upstream(w.captures, b) /\ row.phpBin = PhpBin(w.captures, b)
      /\ row.supportState = Support(w.captures, b)
  BY DEF BranchRow
<1>2. Support(w.captures, b) \in SupportStates \cup {None}
  <2>1. CASE PageReads(w.captures[Page]) /\ b \in DOMAIN SupportRows(w.captures[Page])
    <3> DEFINE rows == w.captures[Page].body
    <3>1. \E i \in DOMAIN rows : rows[i].branch = b
      BY <2>1 DEF SupportRows
    <3>2. SupportRows(w.captures[Page])[b] = rows[CHOOSE i \in DOMAIN rows : rows[i].branch = b]
      BY <2>1 DEF SupportRows
    <3>3. (CHOOSE i \in DOMAIN rows : rows[i].branch = b) \in DOMAIN rows
      BY <3>1
    <3>4. \A i \in DOMAIN rows : rows[i].state \in SupportStates
      BY <2>1 DEF PageReads
    <3> QED BY <3>2, <3>3, <3>4 DEF Support
  <2> QED BY <2>1 DEF Support
<1> HIDE DEF row
<1>3. ValidStatusRow(row)
  BY <1>1, <1>2, RowFacts DEF ValidStatusRow
<1> QED BY <1>3 DEF row

\* One row for each branch of the policy.
LEMMA DocumentRows ==
  ASSUME NEW w \in Worlds, NEW decision, NEW plan
  PROVE  LET rows == StatusDocument(w.captures, decision, plan, w.snapshot, w.identity).rows
             RowOf(b) == BranchRow(w.captures, b, InProgress(decision, plan), w.identity)
         IN /\ \A row \in rows : \E b \in w.policy.branches : row = RowOf(b)
            /\ \A b \in w.policy.branches : RowOf(b) \in rows
<1> DEFINE inProgress == InProgress(decision, plan)
           rows == StatusDocument(w.captures, decision, plan, w.snapshot, w.identity).rows
<1>1. rows = {BranchRow(w.captures, id[2], inProgress, w.identity) :
                id \in {i \in DOMAIN w.captures : IsBranchFeed(i)}}
  BY DEF StatusDocument
<1>2. {i \in DOMAIN w.captures : IsBranchFeed(i)} = {Feed(b) : b \in w.policy.branches}
  <2>1. DOMAIN w.captures = FixedCaptures \cup {Feed(b) : b \in w.policy.branches}
    BY WorldsAssumption DEF CapturesAreWhole, EvidenceSources
  <2>2. \A i \in FixedCaptures : ~IsBranchFeed(i)
    <3>1. \A i \in FixedCaptures : Len(i) = 1
      BY DEF FixedCaptures, Page, Aggregate, Tags, Releases, State, MiseReleases, MiseState
    <3> QED BY <3>1 DEF IsBranchFeed
  <2> QED BY <2>1, <2>2, FeedIds
<1>3. \A b : Feed(b)[2] = b
  BY FeedIds
<1> HIDE DEF inProgress, rows
<1>4. rows = {BranchRow(w.captures, b, inProgress, w.identity) : b \in w.policy.branches}
  BY <1>1, <1>2, <1>3
<1>5. /\ \A row \in rows : \E b \in w.policy.branches : row = BranchRow(w.captures, b, inProgress, w.identity)
      /\ \A b \in w.policy.branches : BranchRow(w.captures, b, inProgress, w.identity) \in rows
  BY <1>4
<1> QED BY <1>5 DEF rows, inProgress

LEMMA DocumentIsValid ==
  ASSUME NEW w, NEW r, RunInv(w, r)
  PROVE  ValidStatusDocument(StatusDocument(w.captures, r.decision, r.plan, w.snapshot, w.identity))
<1> DEFINE document == StatusDocument(w.captures, r.decision, r.plan, w.snapshot, w.identity)
           inProgress == InProgress(r.decision, r.plan)
<1>1. w \in Worlds /\ Derived(w, r)
  BY DEF RunInv
<1>2. /\ document.action = IF r.plan = None THEN None ELSE r.plan.action
      /\ document.key = IF r.plan = None THEN None ELSE r.plan.key
      /\ document.rebuild = IF r.decision = None \/ (r.decision # None /\ r.decision.rebuild = None)
                            THEN None ELSE ReleaseKey(r.decision.rebuild)
      /\ document.summary = Summary(document.rows)
      /\ document.badges = Badges(document.rows, document.health)
  BY DEF StatusDocument
<1> HIDE DEF document
<1>3. /\ document.action = None <=> document.key = None
      /\ document.action # None => KeyFitsAction(document.action, document.key)
  BY <1>2, KeptPlan
<1>4. document.rebuild # None => document.rebuild[1] = "recipe_rebuild"
  <2> SUFFICES ASSUME r.decision # None, r.decision.rebuild # None
               PROVE  ReleaseKey(r.decision.rebuild)[1] = "recipe_rebuild"
    BY <1>2
  <2>1. r.decision.rebuild = DueRebuild(w) /\ ListCanBeRead(w)
    BY <1>1, DecisionFields DEF Derived
  <2>2. Unhealthy(w.captures) = {}
    BY <2>1 DEF DueRebuild
  <2>3. DueRebuild(w) \in [branch : Nat, patch : Nat, rev : Nat \ {0}]
    BY <1>1, <2>1, <2>2, SelectedRebuild
  <2> QED BY <2>1, <2>3 DEF ReleaseKey
<1>5. document.rows # {} /\ \A row \in document.rows : ValidStatusRow(row)
  <2>1. /\ \A row \in document.rows :
             \E b \in w.policy.branches : row = BranchRow(w.captures, b, inProgress, w.identity)
        /\ \A b \in w.policy.branches : BranchRow(w.captures, b, inProgress, w.identity) \in document.rows
    BY <1>1, DocumentRows DEF document
  <2>2. w.policy.branches # {}
    BY <1>1, WorldsAssumption DEF CommitIsWhole
  <2> QED BY <1>1, <2>1, <2>2, RowIsValid
<1>6. ValidStatusDocument(document)
  BY <1>2, <1>3, <1>4, <1>5 DEF ValidStatusDocument
<1> QED BY <1>6 DEF document

\* Every run, failed or not, uploads a document that its readers accept, and its mail
\* is one written for what it did.
THEOREM RunsAreDescribed == Spec => []EveryRunIsDescribed
<1>1. ASSUME IInv, run.stage = "reported"
      PROVE  run.status # {}
  BY <1>1, DocumentIsValid DEF IInv, RunInv, Progress
<1>2. ASSUME IInv, run.stage = "mailed"
      PROVE  run.mail # "unexpected_state"
  <2>1. RunInv(world, run) /\ Complete(world, run)
    BY <1>2 DEF IInv, RunInv, Progress
  <2>2. \A action \in RoutableActions : StartedMail[action] # "unexpected_state"
    BY DEF StartedMail, RoutableActions, LifecycleActions, PublishActions, NoWorkActions
  <2>3. ~run.failed /\ run.decision.classify =>
          KeyFitsAction(run.plan.action, run.plan.key) /\ run.plan.action \in RoutableActions
    BY <2>1, KeptPlan DEF Complete
  <2> QED BY <1>2, <2>1, <2>2, <2>3 DEF RunInv, Progress, WatcherDigest, Complete
<1>3. IInv => EveryRunIsDescribed
  BY <1>1, <1>2 DEF EveryRunIsDescribed
<1> QED BY <1>3, Invariance, PTL

-----------------------------------------------------------------------------
(* Which rule a plan came from. *)

\* A day without work is one on which no rule found any.
LEMMA WithoutWork ==
  ASSUME NEW w, IsInput(w), ClassifyEvidence(w).action = "no_change"
  PROVE  /\ ~SourcesFail(w) /\ w.decision.incomplete = {}
         /\ NewPatch(w) = None /\ ~RebuildIsSelected(w)
<1> DEFINE plan == ClassifyEvidence(w)
           IsOther(p) == p.action # "no_change"
<1>1. \A id : SourceFormatStop(w, id).action = "blocked"
  BY DEF SourceFormatStop, Stop, PlanOf
<1>2. /\ \A action, key, c, v : PlanOf(action, key, c, v).action = action
      /\ \A action, key, c : Stop(action, key, c).action = action
      /\ \A action, key, c, v : LifecycleResume(action, key, c, v).action = action
  BY DEF Stop, PlanOf, LifecycleResume
<1>3. Health(w).action = "blocked"
  BY <1>2 DEF Health
<1>4. RecipeRebuild(w).action \in {"recipe_rebuild", "blocked"}
  BY <1>1, <1>2 DEF RecipeRebuild
<1>5. NewPatch(w) # None => IsOther(NewPatch(w))
  <2>1. \A b : IsOther(PatchOn(w, b))
    BY <1>1, <1>2 DEF PatchOn
  <2> HIDE DEF IsOther
  <2>2. \A id : IsOther(SourceFormatStop(w, id))
    BY <1>1 DEF IsOther
  <2> QED BY <2>1, <2>2 DEF NewPatch
<1>6. w.decision.incomplete # {} => IsOther(IncompleteEvent(w))
  <2> SUFFICES ASSUME w.decision.incomplete # {} PROVE IsOther(IncompleteEvent(w))
    OBVIOUS
  <2> DEFINE key == FirstIncomplete(w)
  <2>1. key[1] \in Families
    BY FirstIsIncomplete DEF IsInput
  <2>2. IsOther(ResumedRelease(w, key))
    BY <1>1, <1>2, <2>1 DEF ResumedRelease, Families
  <2> HIDE DEF key
  <2> QED BY <1>2, <1>4, <2>2 DEF IncompleteEvent, key
<1>7. Lifecycle(w) # None => IsOther(Lifecycle(w))
  <2>1. \A rows, b : /\ ContradictionStop(w, rows).action = "needs_human"
                     /\ ResumedRetirement(w, rows).action = "branch_eol"
                     /\ NewBranchPlan(w, b).action = "new_branch"
                     /\ RetirementPlan(w, b).action = "branch_eol"
    BY DEF ContradictionStop, ResumedRetirement, NewBranchPlan, RetirementPlan, LifecycleResume, Stop, PlanOf
  <2>2. \A rows : LifecycleOf(w, rows) # None => IsOther(LifecycleOf(w, rows))
    BY <1>1, <2>1 DEF LifecycleOf
  <2> QED BY <1>1, <2>2 DEF Lifecycle
<1> HIDE DEF IsOther
<1>8. /\ IsOther(Health(w)) /\ IsOther(RecipeRebuild(w)) /\ ~IsOther(plan)
  BY <1>3, <1>4 DEF IsOther
<1> QED BY <1>5, <1>6, <1>7, <1>8 DEF ClassifyEvidence, ResumeIncomplete

\* While only lifecycle work is open, a patch is planned for its news alone.
LEMMA PatchIsNews ==
  ASSUME NEW w, IsInput(w), ClassifyEvidence(w).action = "new_patch",
         \A k \in w.decision.incomplete : k[1] \in LifecycleActions
  PROVE  /\ ~SourcesFail(w) /\ w.captures[Releases].shaped
         /\ \E b \in w.maintained :
              /\ ~NoNews(w, b) /\ FeedsRead(w, b) /\ b \in ShippedBranches(w)
              /\ ClassifyEvidence(w).version = OfferedVersion(w, b)
<1> DEFINE plan == ClassifyEvidence(w)
           IsOther(p) == p.action # "new_patch"
           news == {b \in w.maintained : ~NoNews(w, b)}
<1>1. \A id : SourceFormatStop(w, id).action = "blocked"
  BY DEF SourceFormatStop, Stop, PlanOf
<1>2. /\ \A action, key, c, v : PlanOf(action, key, c, v).action = action
      /\ \A action, key, c, v : PlanOf(action, key, c, v).version = v
      /\ \A action, key, c : Stop(action, key, c).action = action
      /\ \A action, key, c, v : LifecycleResume(action, key, c, v).action = action
  BY DEF Stop, PlanOf, LifecycleResume
<1>3. IsOther(Health(w)) /\ IsOther(NoChange(w))
  BY <1>2 DEF Health, NoChange
<1>4. IsOther(RecipeRebuild(w))
  BY <1>1, <1>2 DEF RecipeRebuild
<1>5. w.decision.incomplete # {} => IsOther(IncompleteEvent(w))
  <2> SUFFICES ASSUME w.decision.incomplete # {} PROVE IsOther(IncompleteEvent(w))
    OBVIOUS
  <2> DEFINE key == FirstIncomplete(w)
  <2>1. key[1] \in LifecycleActions
    BY FirstIsIncomplete
  <2>2. IsOther(ResumedRelease(w, key))
    BY <1>1, <1>2, <2>1 DEF ResumedRelease, LifecycleActions
  <2> HIDE DEF key
  <2> QED BY <1>2, <1>4, <2>2 DEF IncompleteEvent, key
<1>6. Lifecycle(w) # None => IsOther(Lifecycle(w))
  <2>1. \A rows, b : /\ ContradictionStop(w, rows).action = "needs_human"
                     /\ ResumedRetirement(w, rows).action = "branch_eol"
                     /\ NewBranchPlan(w, b).action = "new_branch"
                     /\ RetirementPlan(w, b).action = "branch_eol"
    BY DEF ContradictionStop, ResumedRetirement, NewBranchPlan, RetirementPlan, LifecycleResume, Stop, PlanOf
  <2>2. \A rows : LifecycleOf(w, rows) # None => IsOther(LifecycleOf(w, rows))
    BY <1>1, <2>1 DEF LifecycleOf
  <2> QED BY <1>1, <2>2 DEF Lifecycle
<1> HIDE DEF IsOther
<1>7. ~IsOther(plan)
  BY DEF IsOther
<1>8. ~SourcesFail(w) /\ plan = NewPatch(w) /\ NewPatch(w) # None
  BY <1>3, <1>4, <1>5, <1>6, <1>7 DEF ClassifyEvidence, ResumeIncomplete
<1>9. news # {} /\ w.captures[Releases].shaped /\ plan = PatchOn(w, Oldest(news))
  <2>1. IsOther(SourceFormatStop(w, Releases))
    BY <1>1 DEF IsOther
  <2> QED BY <1>7, <1>8, <2>1 DEF NewPatch
<1>10. Oldest(news) \in news
  <2>1. news \subseteq Nat
    BY DEF IsInput
  <2> HIDE DEF news
  <2> QED BY <1>9, <2>1, OldestIsOne
<1>11. ASSUME NEW b, ~IsOther(PatchOn(w, b))
       PROVE  FeedsRead(w, b) /\ b \in ShippedBranches(w) /\ PatchOn(w, b).version = OfferedVersion(w, b)
  <2>1. PatchOn(w, b).action = "new_patch"
    BY <1>11 DEF IsOther
  <2> DEFINE v == OfferedVersion(w, b)
  <2>2. \/ PatchOn(w, b) = SourceFormatStop(w, UnreadableFeed(w, b))
        \/ /\ b \in ShippedBranches(w) /\ FeedsRead(w, b)
           /\ PatchOn(w, b) = PlanOf("new_patch", ReleaseKey(v), {FeedProof(w, v)}, v)
        \/ PatchOn(w, b) = LifecycleResume("new_branch", NewBranchKey(b), {FeedProof(w, v)}, v)
        \/ PatchOn(w, b) = Stop("needs_human", NewBranchKey(b), {FeedProof(w, v)})
    BY DEF PatchOn
  <2> HIDE DEF v
  <2>3. /\ PatchOn(w, b) # SourceFormatStop(w, UnreadableFeed(w, b))
        /\ PatchOn(w, b) # LifecycleResume("new_branch", NewBranchKey(b), {FeedProof(w, v)}, v)
        /\ PatchOn(w, b) # Stop("needs_human", NewBranchKey(b), {FeedProof(w, v)})
    BY <1>1, <1>2, <2>1
  <2> QED BY <1>2, <2>2, <2>3 DEF v
<1>12. FeedsRead(w, Oldest(news)) /\ Oldest(news) \in ShippedBranches(w)
        /\ plan.version = OfferedVersion(w, Oldest(news))
  BY <1>7, <1>9, <1>11
<1> QED BY <1>8, <1>9, <1>10, <1>12

-----------------------------------------------------------------------------
(* The page and the plan. *)

\* What has shipped is what the list of releases says: a complete record of a release
\* names one that is on it.
LEMMA PublishedIsListed ==
  ASSUME NEW w \in Worlds, Unhealthy(w.captures) = {}
  PROVE  LET body == w.captures[Releases].body IN
         /\ \A r \in body : Version(r.v.branch, r.v.patch) \in PublishedVersions(Seen(w))
         /\ \A p \in PublishedVersions(Seen(w)) :
              \E r \in body : r.v.branch = p.branch /\ r.v.patch = p.patch
<1> DEFINE body == w.captures[Releases].body
           seen == Seen(w)
<1>1. seen.captures = w.captures /\ CompletedKeys(seen) = DOMAIN w.events \ Incomplete(w.events)
  BY SeenFields
<1> HIDE DEF seen
<1>2. \A r \in body : Version(r.v.branch, r.v.patch) \in PublishedVersions(seen)
  BY <1>1 DEF PublishedVersions
<1>3. ASSUME NEW k \in CompletedKeys(seen), k[1] \in {"new_patch", "recipe_rebuild"}
      PROVE  \E r \in body : r.v.branch = k[2] /\ r.v.patch = k[3]
  <2>1. PICK r \in body : ReleaseKey(r.v) = k
    BY <1>1, <1>3, WorldsAssumption DEF RecordsAreTrue
  <2>2. ReleaseKey(r.v)[2] = r.v.branch /\ ReleaseKey(r.v)[3] = r.v.patch
    BY DEF ReleaseKey
  <2> QED BY <2>1, <2>2
<1>4. \A x, y : Version(x, y).branch = x /\ Version(x, y).patch = y
  BY DEF Version
<1>5. \A p \in PublishedVersions(seen) : \E r \in body : r.v.branch = p.branch /\ r.v.patch = p.patch
  BY <1>1, <1>3, <1>4 DEF PublishedVersions
<1> QED BY <1>2, <1>5 DEF seen

\* A branch whose feed names a version, on a healthy day: the page reads it if it also
\* gives its date.
LEMMA OfferOnPage ==
  ASSUME NEW w \in Worlds, Unhealthy(w.captures) = {}, NEW b \in w.policy.branches,
         w.captures[Feed(b)].shaped
  PROVE  LET v == OfferedVersion(Seen(w), b) IN
         /\ Upstream(w.captures, b) = IF w.captures[Feed(b)].dated THEN v ELSE None
         /\ v # None /\ v = Version(b, w.captures[Feed(b)].body) /\ v.branch = b /\ v.patch \in Nat
<1>1. Feed(b) \in DOMAIN w.captures
  BY WorldsAssumption DEF CapturesAreWhole, EvidenceSources
<1>2. w.captures[Feed(b)].status = 200
  BY <1>1 DEF Unhealthy
<1>3. Upstream(w.captures, b) =
        IF w.captures[Feed(b)].dated THEN BranchFeedVersion(w.captures, b) ELSE None
  BY <1>2 DEF Upstream, PageTrusts, Trusted
<1>4. OfferedVersion(Seen(w), b) = BranchFeedVersion(w.captures, b)
  BY <1>1, SeenFields DEF OfferedVersion
<1>5. BranchFeedVersion(w.captures, b) = Version(b, w.captures[Feed(b)].body)
  BY <1>1 DEF BranchFeedVersion
<1>6. w.captures[Feed(b)].body \in Nat /\ b \in Nat
  BY <1>1, WorldsAssumption DEF CapturesAreWhole, CommitIsWhole
<1>7. Version(b, w.captures[Feed(b)].body) \in PlainVersions
  BY <1>6, VersionsAreValues
<1> QED BY <1>3, <1>4, <1>5, <1>7, VersionsAreValues DEF Version, PlainVersions

\* The list of releases on a healthy day.
LEMMA ListOnPage ==
  ASSUME NEW w \in Worlds, Unhealthy(w.captures) = {}, w.captures[Releases].shaped
  PROVE  /\ Releases \in DOMAIN w.captures /\ w.captures[Releases].status = 200
         /\ PageTrusts(w.captures, Releases) <=> w.captures[Releases].dated
         /\ w.captures[Releases].dated =>
              \A b : PhpBin(w.captures, b) = NewestRelease(w.captures, b)
<1>1. Releases \in DOMAIN w.captures
  BY WorldsAssumption DEF CapturesAreWhole, EvidenceSources, FixedCaptures
<1> QED BY <1>1 DEF Unhealthy, PageTrusts, Trusted, PhpBin

\* Where a date is missing the page claims nothing of the branch, and says why.
LEMMA UndatedOnPage ==
  ASSUME NEW w \in Worlds, Unhealthy(w.captures) = {}, w.captures[Releases].shaped,
         NEW b \in w.policy.branches, w.captures[Feed(b)].shaped, ~DatesAreGiven(w.captures, b)
  PROVE  /\ BranchStatus(w.captures, b, {}) = "unknown"
         /\ Unreadable(w.captures) \cap {Feed(b), Releases} # {}
<1>1. Feed(b) \in DOMAIN w.captures /\ IsBranchFeed(Feed(b))
  BY WorldsAssumption, FeedIds DEF CapturesAreWhole, EvidenceSources
<1>2. /\ w.captures[Feed(b)].status = 200 /\ w.captures[Releases].status = 200
      /\ ~w.captures[Feed(b)].empty /\ ~w.captures[Releases].empty
  BY <1>1, ListOnPage, WorldsAssumption DEF Unhealthy, CapturesAreWhole
<1>3. Feed(b) # Page /\ Releases # Page
  BY <1>1 DEF IsBranchFeed, Page, Releases
<1>4. {Feed(b), Releases} \subseteq ReadCaptures(w.captures)
  BY <1>1 DEF ReadCaptures
<1>5. ~PageTrusts(w.captures, Feed(b)) \/ ~PageTrusts(w.captures, Releases)
  BY DEF DatesAreGiven, PageTrusts
<1>6. \E id \in {Feed(b), Releases} : id \in Unreadable(w.captures)
  BY <1>2, <1>3, <1>4, <1>5 DEF Unreadable
<1>7. ReleasingBranches({}) = {}
  BY DEF ReleasingBranches
<1>8. BranchStatus(w.captures, b, {}) = "unknown"
  BY <1>5, <1>7 DEF BranchStatus, Upstream
<1> QED BY <1>6, <1>8

\* A branch without news is current on the page, or behind while its patch waits for
\* its own feed.
LEMMA NoNewsOnPage ==
  ASSUME NEW w \in Worlds, Unhealthy(w.captures) = {}, w.captures[Releases].shaped,
         NEW b \in w.policy.branches, NoNews(Seen(w), b), DatesAreGiven(w.captures, b)
  PROVE  \/ BranchStatus(w.captures, b, {}) = "current"
         \/ /\ BranchStatus(w.captures, b, {}) = "behind"
            /\ SupersededBy(w.captures, Upstream(w.captures, b)) # {}
<1> DEFINE v == OfferedVersion(Seen(w), b)
           phpBin == PhpBin(w.captures, b)
<1>1. w.captures[Feed(b)].shaped
  <2>1. Feed(b) \in DOMAIN w.captures
    BY WorldsAssumption DEF CapturesAreWhole, EvidenceSources
  <2> QED BY <2>1, SeenFields DEF NoNews
<1>2. Upstream(w.captures, b) = v /\ v # None /\ v.branch = b /\ v.patch \in Nat
  BY <1>1, OfferOnPage DEF DatesAreGiven
<1>3. BehindWhatShipped(Seen(w), v) \/ WaitsForItsFeed(Seen(w), v)
  BY <1>2 DEF NoNews
<1> HIDE DEF v
<1>4. CASE WaitsForItsFeed(Seen(w), v)
  <2>1. SupersededBy(w.captures, v) # {}
    BY <1>4, SeenFields DEF WaitsForItsFeed
  <2>2. BranchStatus(w.captures, b, {}) \in {"current", "behind"}
    BY <1>2, ListOnPage DEF BranchStatus, ReleasingBranches, DatesAreGiven
  <2> QED BY <1>2, <2>1, <2>2
<1>5. CASE BehindWhatShipped(Seen(w), v)
  <2>1. PICK p \in PublishedVersions(Seen(w)) : p.branch = b /\ v.patch <= p.patch
    BY <1>2, <1>5 DEF BehindWhatShipped
  <2>2. PICK r \in w.captures[Releases].body : r.v.branch = b /\ r.v.patch = p.patch
    BY <2>1, PublishedIsListed
  <2>3. r.v \in ReleasesOn(w.captures, b)
    BY <2>2 DEF ReleasesOn
  <2>4. /\ IsVersion(r.v) /\ IsVersion(NewestRelease(w.captures, b))
        /\ NewestRelease(w.captures, b) # None /\ r.v.patch <= NewestRelease(w.captures, b).patch
    BY <2>3, NewestIsTheNewest
  <2>5. PageTrusts(w.captures, Releases) /\ phpBin = NewestRelease(w.captures, b)
    BY ListOnPage DEF DatesAreGiven
  <2> HIDE DEF phpBin
  <2>7. phpBin # None /\ phpBin.patch >= v.patch
    BY <1>2, <2>1, <2>2, <2>4, <2>5 DEF IsVersion
  <2>8. Ships(PhpBin(w.captures, b), Upstream(w.captures, b))
    BY <1>2, <2>7 DEF Ships, phpBin
  <2>9. ReleasingBranches({}) = {}
    BY DEF ReleasingBranches
  <2> QED BY <1>2, <2>5, <2>8, <2>9 DEF BranchStatus
<1> QED BY <1>3, <1>4, <1>5

\* One with news that could be read is behind.
LEMMA NewsOnPage ==
  ASSUME NEW w \in Worlds, Unhealthy(w.captures) = {}, w.captures[Releases].shaped,
         NEW b \in w.policy.branches, ~NoNews(Seen(w), b), FeedsRead(Seen(w), b),
         DatesAreGiven(w.captures, b)
  PROVE  BranchStatus(w.captures, b, {}) = "behind"
<1> DEFINE v == OfferedVersion(Seen(w), b)
<1>1. Feed(b) \in DOMAIN w.captures /\ w.captures[Feed(b)].shaped
  <2>1. Feed(b) \in DOMAIN w.captures
    BY WorldsAssumption DEF CapturesAreWhole, EvidenceSources
  <2> QED BY <2>1, SeenFields DEF FeedsRead, OwnFeedIsMisshapen
<1>2. Upstream(w.captures, b) = v /\ v # None /\ v.branch = b /\ v.patch \in Nat
  BY <1>1, OfferOnPage DEF DatesAreGiven
<1>3. ~BehindWhatShipped(Seen(w), v)
  BY <1>1, SeenFields DEF NoNews
<1> HIDE DEF v
<1>4. PageTrusts(w.captures, Releases) /\ PhpBin(w.captures, b) = NewestRelease(w.captures, b)
  BY ListOnPage DEF DatesAreGiven
<1>5. \A u \in ReleasesOn(w.captures, b) : ~(v.patch <= u.patch)
  <2> SUFFICES ASSUME NEW u \in ReleasesOn(w.captures, b) PROVE ~(v.patch <= u.patch)
    OBVIOUS
  <2>1. PICK r \in w.captures[Releases].body : r.v = u /\ r.v.branch = b
    BY DEF ReleasesOn
  <2>2. Version(b, u.patch) \in PublishedVersions(Seen(w))
    BY <2>1, PublishedIsListed
  <2>3. Version(b, u.patch).branch = v.branch /\ Version(b, u.patch).patch = u.patch
    BY <1>2 DEF Version
  <2> QED BY <1>3, <2>2, <2>3 DEF BehindWhatShipped
<1>6. ~Ships(PhpBin(w.captures, b), v)
  <2> SUFFICES ASSUME PhpBin(w.captures, b) # None, PhpBin(w.captures, b).patch >= v.patch PROVE FALSE
    BY DEF Ships
  <2>1. PhpBin(w.captures, b) = NewestRelease(w.captures, b)
    BY <1>4
  <2>2. ReleasesOn(w.captures, b) # {}
    BY <2>1, NewestIsTheNewest
  <2>3. NewestRelease(w.captures, b) \in ReleasesOn(w.captures, b) /\ IsVersion(NewestRelease(w.captures, b))
    BY <2>2, NewestIsTheNewest
  <2>4. ~(v.patch <= NewestRelease(w.captures, b).patch)
    BY <1>5, <2>3
  <2> QED BY <1>2, <2>1, <2>3, <2>4 DEF IsVersion
<1>7. ReleasingBranches({}) = {}
  BY DEF ReleasingBranches
<1> QED BY <1>2, <1>4, <1>6, <1>7 DEF BranchStatus

\* When no rebuild is selected of all branches, none is shown due of any, and none is
\* said not to be from a list the page does not read.
LEMMA NoRebuildOnPage ==
  ASSUME NEW w \in Worlds, Unhealthy(w.captures) = {}, w.captures[Releases].shaped,
         NEW b \in w.policy.branches, DueRebuild(w) = None
  PROVE  RebuildDue(w.captures, b, w.identity) =
           IF w.captures[Releases].dated THEN FALSE ELSE None
<1> DEFINE body == w.captures[Releases].body
           alone == [c \in {b} |-> w.identity[c]]
<1>1. /\ b \in DOMAIN w.identity /\ b \in Nat
      /\ \E last \in Nat : \A c \in DOMAIN w.identity : c <= last
  BY WorldsAssumption DEF CommitIsWhole
<1>2. HealthyReleases(w) = body /\ \A r \in body : IsVersion(r.v)
  BY HealthyList DEF ListCanBeRead
<1> HIDE DEF body
<1>3. DOMAIN alone = {b} /\ alone[b] = w.identity[b]
  OBVIOUS
<1>4. RebuildDue(w.captures, b, w.identity) =
        IF w.captures[Releases].dated THEN PendingRebuild(body, alone) # None ELSE None
  BY <1>1, ListOnPage DEF RebuildDue, body
<1> HIDE DEF alone
<1>5. DueForRebuild(body, w.identity) = {}
  <2> SUFFICES ASSUME DueForRebuild(body, w.identity) # {} PROVE FALSE
    OBVIOUS
  <2>1. PICK r \in DueForRebuild(body, w.identity) :
          PendingRebuild(body, w.identity) = [r.v EXCEPT !.rev = @ + 1]
    BY <1>1, <1>2, DueIsSelected
  <2>2. IsVersion(r.v)
    BY <1>2, <2>1 DEF DueForRebuild, BranchHeads, Published
  <2>3. [r.v EXCEPT !.rev = @ + 1] \in [branch : Nat, patch : Nat, rev : Nat]
    BY <2>2 DEF IsVersion
  <2>4. PendingRebuild(body, w.identity) = None
    BY <1>2 DEF DueRebuild
  <2> QED BY <2>1, <2>3, <2>4, NoneIsNoValue
<1>6. DueForRebuild(body, alone) = {}
  BY <1>1, <1>3, <1>5 DEF DueForRebuild
<1>7. PendingRebuild(body, alone) = None
  BY <1>6 DEF PendingRebuild
<1> QED BY <1>4, <1>7

\* Every maintained branch on which a day finds no patch is one without news.
LEMMA NoPatchNoNews ==
  ASSUME NEW w \in Worlds, Unhealthy(w.captures) = {}, w.captures[Releases].shaped
  PROVE  LET news == {b \in w.policy.branches : ~NoNews(Seen(w), b)} IN
         /\ news = {} => NewPatch(Seen(w)) = None
         /\ news # {} =>
              /\ NewPatch(Seen(w)) = PatchOn(Seen(w), Oldest(news)) /\ NewPatch(Seen(w)) # None
              /\ Oldest(news) \in news /\ \A b \in news : Oldest(news) <= b
<1> DEFINE news == {b \in w.policy.branches : ~NoNews(Seen(w), b)}
<1>1. NewPatch(Seen(w)) = IF news = {} THEN None ELSE PatchOn(Seen(w), Oldest(news))
  BY SeenFields DEF NewPatch
<1>2. news \subseteq Nat /\ news \subseteq w.policy.branches
  BY WorldsAssumption DEF CommitIsWhole
<1>3. \A b \in w.policy.branches : PatchOn(Seen(w), b) # None
  BY NoneIsNotMade
<1> HIDE DEF news
<1>4. news # {} => Oldest(news) \in news /\ \A b \in news : Oldest(news) <= b
  BY <1>2, OldestIsOne
<1>5. news # {} => PatchOn(Seen(w), Oldest(news)) # None
  BY <1>2, <1>3, <1>4
<1> QED BY <1>1, <1>4, <1>5 DEF news

\* The page and the plan of a day agree wherever the dates are given: what the page
\* shows behind or due for a rebuild is planned, and what is planned as a patch the page
\* shows behind.  Of a branch whose date is missing the page claims nothing, and says so.
THEOREM PageAgrees ==
  ASSUME OpenRecordsAreOfBranches
  PROVE  Spec => []StatusAgreesWithPlan
<1>1. ASSUME IInv, run.stage = "reported", run.plan # None
      PROVE  /\ world \in Worlds /\ run.plan = ClassifyEvidence(Seen(world)) /\ IsInput(Seen(world))
             /\ run.decision # None /\ run.decision = DayDecision(world) /\ ListCanBeRead(world)
             /\ \A d \in run.status :
                  d = StatusDocument(world.captures, run.decision, run.plan, world.snapshot, world.identity)
  BY <1>1, SeenIsInput DEF IInv, RunInv, Derived, Progress
<1>2. ASSUME IInv, run.stage = "reported", run.plan # None, run.plan.action = "no_change",
             NEW document \in run.status, NEW row \in document.rows
      PROVE  /\ row.rebuildDue = IF world.captures[Releases].dated THEN FALSE ELSE None
             /\ IF DatesAreGiven(world.captures, row.branch)
                THEN \/ row.status = "current"
                     \/ row.status = "behind" /\ SupersededBy(world.captures, row.upstream) # {}
                ELSE /\ row.status = "unknown"
                     /\ document.health.unreadable \cap {Feed(row.branch), Releases} # {}
  <2> DEFINE w == world
             seen == Seen(w)
  <2>1. /\ w \in Worlds /\ run.plan = ClassifyEvidence(seen) /\ IsInput(seen)
        /\ run.decision # None /\ run.decision = DayDecision(w) /\ ListCanBeRead(w)
        /\ document = StatusDocument(w.captures, run.decision, run.plan, w.snapshot, w.identity)
    BY <1>1, <1>2
  <2>2. /\ ~SourcesFail(seen) /\ seen.decision.incomplete = {}
        /\ NewPatch(seen) = None /\ ~RebuildIsSelected(seen)
    BY <1>2, <2>1, WithoutWork
  <2>3. Unhealthy(w.captures) = {} /\ DueRebuild(w) = None /\ Incomplete(w.events) = {}
    BY <2>2, SeenFields, DecisionFields DEF SourcesFail, RebuildIsSelected
  <2>4. w.captures[Releases].shaped
    BY <2>1, <2>3 DEF ListCanBeRead
  <2>5. InProgress(run.decision, run.plan) = {}
    BY <1>2, <2>1, <2>3, SeenFields DEF InProgress, StatusWorkActions
  <2>6. PICK b \in w.policy.branches : row = BranchRow(w.captures, b, {}, w.identity)
    BY <1>2, <2>1, <2>5, DocumentRows
  <2>7. /\ row.branch = b /\ row.status = BranchStatus(w.captures, b, {}) /\ row.upstream = Upstream(w.captures, b)
        /\ row.rebuildDue = RebuildDue(w.captures, b, w.identity)
    BY <2>6 DEF BranchRow
  <2>8. NoNews(seen, b)
    BY <2>1, <2>2, <2>3, <2>4, NoPatchNoNews
  <2>9. document.health.unreadable = Unreadable(w.captures)
    BY <2>1 DEF StatusDocument
  <2>10. w.captures[Feed(b)].shaped
    <3>1. Feed(b) \in DOMAIN w.captures
      BY <2>1, WorldsAssumption DEF CapturesAreWhole, EvidenceSources
    <3> QED BY <2>8, <3>1, SeenFields DEF NoNews
  <2> HIDE DEF w
  <2>11. row.rebuildDue = IF w.captures[Releases].dated THEN FALSE ELSE None
    BY <2>1, <2>3, <2>4, <2>7, NoRebuildOnPage
  <2>12. CASE DatesAreGiven(w.captures, b)
    <3>1. \/ row.status = "current"
          \/ row.status = "behind" /\ SupersededBy(w.captures, row.upstream) # {}
      BY <2>1, <2>3, <2>4, <2>7, <2>8, <2>12, NoNewsOnPage
    <3> QED BY <2>7, <2>11, <2>12, <3>1 DEF w
  <2>13. CASE ~DatesAreGiven(w.captures, b)
    <3>1. row.status = "unknown" /\ document.health.unreadable \cap {Feed(b), Releases} # {}
      BY <2>1, <2>3, <2>4, <2>7, <2>9, <2>10, <2>13, UndatedOnPage
    <3> QED BY <2>7, <2>11, <2>13, <3>1 DEF w
  <2> QED BY <2>12, <2>13
<1>3. ASSUME IInv, run.stage = "reported", run.plan # None, run.plan.action = "new_patch"
      PROVE  BranchStatus(world.captures, run.plan.version.branch, {}) =
               IF DatesAreGiven(world.captures, run.plan.version.branch) THEN "behind" ELSE "unknown"
  <2> DEFINE seen == Seen(world)
  <2>1. /\ world \in Worlds /\ run.plan = ClassifyEvidence(seen) /\ IsInput(seen)
    BY <1>1, <1>3
  <2>2. \A k \in seen.decision.incomplete : k[1] \in LifecycleActions
    BY <2>1, SeenFields DEF OpenRecordsAreOfBranches
  <2>3. /\ ~SourcesFail(seen) /\ seen.captures[Releases].shaped
        /\ \E b \in seen.maintained :
             ~NoNews(seen, b) /\ FeedsRead(seen, b) /\ run.plan.version = OfferedVersion(seen, b)
    BY <1>3, <2>1, <2>2, PatchIsNews
  <2>4. Unhealthy(world.captures) = {} /\ world.captures[Releases].shaped
    BY <2>3, SeenFields DEF SourcesFail
  <2>5. PICK b \in world.policy.branches :
          ~NoNews(seen, b) /\ FeedsRead(seen, b) /\ run.plan.version = OfferedVersion(seen, b)
    BY <2>3, SeenFields
  <2>6. Feed(b) \in DOMAIN world.captures
    BY <2>1, WorldsAssumption DEF CapturesAreWhole, EvidenceSources
  <2>7. world.captures[Feed(b)].shaped
    BY <2>5, <2>6, SeenFields DEF FeedsRead, OwnFeedIsMisshapen
  <2>8. run.plan.version.branch = b
    BY <2>1, <2>4, <2>5, <2>7, OfferOnPage
  <2>9. BranchStatus(world.captures, b, {}) =
          IF DatesAreGiven(world.captures, b) THEN "behind" ELSE "unknown"
    BY <2>1, <2>4, <2>5, <2>7, NewsOnPage, UndatedOnPage
  <2> QED BY <2>8, <2>9
<1>4. IInv => StatusAgreesWithPlan
  BY <1>2, <1>3 DEF StatusAgreesWithPlan
<1> QED BY <1>4, Invariance, PTL

-----------------------------------------------------------------------------
(* The loop and the classifier. *)

\* On the domain of the loop the classifier selects a patch or the due rebuild.
LEMMA SelectionInTheLoop ==
  ASSUME NEW w \in Worlds, \A id \in DOMAIN w.captures : Trusted(w.captures, id),
         Incomplete(w.events) = {}, w.policy.branches \subseteq ShippedBranches(Seen(w)),
         Lifecycle(Seen(w)) = None,
         \A b \in w.policy.branches : SupersededBy(w.captures, OfferedVersion(Seen(w), b)) = {},
         NEW feed, feed = [b \in w.policy.branches |-> OfferedVersion(Seen(w), b).patch]
  PROVE  LET plan == ClassifyEvidence(Seen(w))
             mine == Classify(DayDecision(w), feed, HealthyReleases(w), {})
         IN plan.action = mine.action /\ plan.version = mine.v
<1> DEFINE seen == Seen(w)
           plan == ClassifyEvidence(seen)
           mine == Classify(DayDecision(w), feed, HealthyReleases(w), {})
           body == w.captures[Releases].body
           news == {b \in w.policy.branches : ~NoNews(seen, b)}
           due == PatchDue(feed, HealthyReleases(w), {})
<1>1. /\ Unhealthy(w.captures) = {} /\ \A id \in DOMAIN w.captures : w.captures[id].shaped
      /\ {Releases, Aggregate} \subseteq DOMAIN w.captures
      /\ \A b \in w.policy.branches : Feed(b) \in DOMAIN w.captures
  BY WorldsAssumption DEF CapturesAreWhole, EvidenceSources, FixedCaptures, Unhealthy, Trusted
<1>2. /\ HealthyReleases(w) = body /\ Published(body) = body /\ \A r \in body : IsVersion(r.v)
  BY <1>1, HealthyList DEF ListCanBeRead
<1>3. /\ seen.captures = w.captures /\ seen.maintained = w.policy.branches
      /\ seen.decision = DayDecision(w) /\ seen.decision.incomplete = {}
      /\ seen.decision.trigger \notin {"health_failed", "source_unhealthy"}
  BY <1>1, SeenFields, DecisionFields
<1>4. ASSUME NEW b \in w.policy.branches
      PROVE  LET v == OfferedVersion(seen, b) IN
             /\ v = [branch |-> b, patch |-> feed[b], rev |-> 0] /\ v # None
             /\ v.branch = b /\ v.patch = feed[b] /\ feed[b] \in Nat
             /\ FeedsRead(seen, b) /\ (NoNews(seen, b) <=> BehindWhatShipped(seen, v))
  <2> DEFINE v == OfferedVersion(seen, b)
  <2>1. v = Version(b, w.captures[Feed(b)].body) /\ v # None /\ v.branch = b /\ v.patch \in Nat
    BY <1>1, OfferOnPage
  <2>2. feed[b] = v.patch
    OBVIOUS
  <2>3. ~WaitsForItsFeed(seen, v)
    BY <1>3 DEF WaitsForItsFeed
  <2> HIDE DEF v
  <2>4. v = [branch |-> b, patch |-> feed[b], rev |-> 0]
    BY <2>1, <2>2 DEF Version
  <2>5. FeedsRead(seen, b)
    BY <1>1, <1>3 DEF FeedsRead, OwnFeedIsMisshapen
  <2>6. NoNews(seen, b) <=> BehindWhatShipped(seen, v)
    BY <1>1, <1>3, <2>1, <2>3 DEF NoNews, v
  <2> QED BY <2>1, <2>2, <2>4, <2>5, <2>6 DEF v
<1>5. DOMAIN feed = w.policy.branches
  OBVIOUS
<1> HIDE DEF seen
<1>6. ASSUME NEW b \in w.policy.branches
      PROVE  BehindWhatShipped(seen, OfferedVersion(seen, b)) <=>
               \E r \in body : r.v.branch = b /\ ~(r.v.patch < feed[b])
  <2> DEFINE v == OfferedVersion(seen, b)
  <2>1. v.branch = b /\ v.patch = feed[b] /\ feed[b] \in Nat
    BY <1>4
  <2> HIDE DEF v
  <2>2. \A r \in body : r.v.patch \in Nat
    BY <1>2 DEF IsVersion
  <2>3. ASSUME NEW r \in body, r.v.branch = b, ~(r.v.patch < feed[b])
        PROVE  BehindWhatShipped(seen, v)
    <3>1. Version(b, r.v.patch) \in PublishedVersions(seen)
      BY <1>1, <2>3, PublishedIsListed DEF seen
    <3>2. Version(b, r.v.patch).branch = b /\ Version(b, r.v.patch).patch = r.v.patch
      BY DEF Version
    <3> QED BY <2>1, <2>2, <2>3, <3>1, <3>2 DEF BehindWhatShipped
  <2>4. ASSUME BehindWhatShipped(seen, v)
        PROVE  \E r \in body : r.v.branch = b /\ ~(r.v.patch < feed[b])
    <3>1. PICK p \in PublishedVersions(seen) : p.branch = b /\ v.patch <= p.patch
      BY <2>1, <2>4 DEF BehindWhatShipped
    <3>2. PICK r \in body : r.v.branch = b /\ r.v.patch = p.patch
      BY <1>1, <3>1, PublishedIsListed DEF seen
    <3> QED BY <2>1, <2>2, <3>1, <3>2
  <2> QED BY <2>3, <2>4 DEF v
<1>7. due = {b \in w.policy.branches : \A r \in body : r.v.branch = b => r.v.patch < feed[b]}
  BY <1>2, <1>5 DEF PatchDue, Completed
<1>8. due = news
  BY <1>4, <1>6, <1>7
<1>9. plan = IF NewPatch(seen) # None THEN NewPatch(seen)
             ELSE IF DayDecision(w).rebuild # None THEN RecipeRebuild(seen) ELSE NoChange(seen)
  <2>1. ~SourcesFail(seen) /\ Lifecycle(seen) = None
    BY <1>1, <1>3 DEF SourcesFail, seen
  <2> QED BY <1>3, <2>1 DEF ClassifyEvidence, RebuildIsSelected
<1>10. /\ mine = IF due # {}
                 THEN [action |-> "new_patch",
                       v |-> [branch |-> Oldest(due), patch |-> feed[Oldest(due)], rev |-> 0]]
                 ELSE IF DayDecision(w).rebuild # None
                 THEN [action |-> "recipe_rebuild", v |-> DayDecision(w).rebuild]
                 ELSE [action |-> "no_change", v |-> None]
  <2>1. DayDecision(w).trigger \notin {"health_failed", "source_unhealthy"}
    BY <1>3
  <2> HIDE DEF due
  <2>2. Classify(DayDecision(w), feed, HealthyReleases(w), {}) =
          IF due # {}
          THEN [action |-> "new_patch",
                v |-> [branch |-> Oldest(due), patch |-> feed[Oldest(due)], rev |-> 0]]
          ELSE IF DayDecision(w).rebuild # None
          THEN [action |-> "recipe_rebuild", v |-> DayDecision(w).rebuild]
          ELSE [action |-> "no_change", v |-> None]
    BY <2>1 DEF Classify, Plan, Oldest, due
  <2> QED BY <2>2
<1>11. /\ news = {} => NewPatch(seen) = None
       /\ news # {} => /\ NewPatch(seen) = PatchOn(seen, Oldest(news)) /\ NewPatch(seen) # None
                       /\ Oldest(news) \in w.policy.branches
  BY <1>1, NoPatchNoNews DEF seen
<1> HIDE DEF plan, mine, news, due, body
<1>12. CASE news # {}
  <2> DEFINE b == Oldest(news)
             v == OfferedVersion(seen, b)
  <2>1. b \in w.policy.branches /\ plan = PatchOn(seen, b)
    BY <1>9, <1>11, <1>12
  <2>2. FeedsRead(seen, b) /\ b \in ShippedBranches(seen)
    BY <1>4, <2>1 DEF seen
  <2>3. plan = PlanOf("new_patch", ReleaseKey(v), {FeedProof(seen, v)}, v)
    BY <2>1, <2>2 DEF PatchOn
  <2>4. plan.action = "new_patch" /\ plan.version = v
    BY <2>3 DEF PlanOf
  <2>5. v = [branch |-> b, patch |-> feed[b], rev |-> 0]
    BY <1>4, <2>1
  <2>6. mine.action = "new_patch" /\ mine.v = [branch |-> b, patch |-> feed[b], rev |-> 0]
    BY <1>8, <1>10, <1>12
  <2> QED BY <2>4, <2>5, <2>6 DEF plan, mine, seen
<1>13. CASE news = {}
  <2>1. RecipeRebuild(seen).action = "recipe_rebuild" /\ RecipeRebuild(seen).version = DayDecision(w).rebuild
    BY <1>1, <1>3 DEF RecipeRebuild, PlanOf
  <2>2. NoChange(seen).action = "no_change" /\ NoChange(seen).version = None
    BY DEF NoChange, PlanOf
  <2>3. plan.action = mine.action /\ plan.version = mine.v
    BY <1>8, <1>9, <1>10, <1>11, <1>13, <2>1, <2>2
  <2> QED BY <2>3 DEF plan, mine, seen
<1> QED BY <1>12, <1>13

\* What WatchLoop shows of the loop over releases is about this classifier: on its
\* domain the short selection of WatchRules picks what the six rules pick.
THEOREM LoopAgrees == Spec => []LoopSelectsAsTheClassifier
<1>1. ASSUME IInv, Planned, InTheLoopsDomain
      PROVE  LET feed == [b \in world.policy.branches |-> OfferedVersion(Seen(world), b).patch]
                 mine == Classify(run.decision, feed, HealthyReleases(world), {})
             IN run.plan.action = mine.action /\ run.plan.version = mine.v
  <2>1. /\ world \in Worlds /\ run.plan = ClassifyEvidence(Seen(world))
        /\ run.decision = DayDecision(world)
    BY <1>1 DEF IInv, RunInv, Derived, Planned
  <2> QED BY <1>1, <2>1, SelectionInTheLoop DEF InTheLoopsDomain
<1>2. IInv => LoopSelectsAsTheClassifier
  BY <1>1 DEF LoopSelectsAsTheClassifier
<1> QED BY <1>2, Invariance, PTL
=============================================================================
