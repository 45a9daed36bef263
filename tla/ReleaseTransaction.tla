------------------------- MODULE ReleaseTransaction -------------------------
(***************************************************************************)
(* The publish workflow of one release version: every run dispatched for   *)
(* it, each run's jobs and their reruns, the tag, draft and public release *)
(* on GitHub, and the event record on main.                                *)
(*                                                                         *)
(* One step of the module is one workflow step (or one GitHub effect of    *)
(* scripts/publish-release).  A job may stop at any of its steps, also     *)
(* after an effect whose reply was lost, and "Re-run failed jobs" starts   *)
(* again at the first job that failed, with the artifacts of the jobs that *)
(* passed.                                                                 *)
(***************************************************************************)
EXTENDS Naturals

CONSTANTS
  Runs,         \* publish runs that may be dispatched for the version
  BuildIds,     \* builds are not reproducible: one commit gives several bytes
  MaxHead,      \* bound: commits main can reach
  MaxFeed,      \* bound: changes of the evidence the plan cites
  MaxAttempts,  \* bound: attempts of one run
  Recipe,       \* the recipe identity of each commit (recipe_identity)
  RunnersDie,   \* a runner can be lost before its always() steps
  None

Commits == 0 .. MaxHead
Artifacts == [commit : Commits, build : BuildIds]

ASSUME BoundsAreNaturals ==
  MaxHead \in Nat /\ MaxFeed \in Nat /\ MaxAttempts \in Nat \ {0}
ASSUME RecipeOfEveryCommit == DOMAIN Recipe = Commits
ASSUME RunnersDieIsAFlag == RunnersDie \in BOOLEAN
ASSUME NoneIsNoValue ==
  None \notin Artifacts \cup Commits \cup Runs \cup {Recipe[c] : c \in Commits}

VARIABLES
  head,      \* the commit main is at
  feed,      \* the version of the cited release feed; feeds only move on
  enabled,   \* unattendedMutation in .github/autorelease-operator.json
  tag,       \* the commit the version's tag points to
  status,    \* the GitHub release: "none", "draft" or "public"
  assets,    \* its bytes; None while an upload is incomplete
  notes,     \* the recipe identity in its notes
  publisher, \* history: the run whose request made it public
  tested,    \* history: bytes whose draft install passed
  record,    \* the bytes the completed event record on main names
  step,      \* where each run is
  entry,     \* where its next attempt starts
  attempt,
  commit,    \* the exact commit it was admitted with
  admitted,  \* the feed its plan was admitted on
  build,     \* the isolated build's artifact, None when the build failed
  handoff,   \* the verified draft bytes handed to the later jobs
  disk,      \* what the running job keeps on its runner, see Disks
  kept,      \* the newest retained transaction-state.json
  wasLive    \* some attempt retained released = true

github == <<tag, status, assets, notes, publisher>>
main == <<head, feed, enabled, record>>
plan == <<commit, admitted>>
job == <<build, handoff, disk>>
report == <<kept, wasLive>>
flow == <<step, entry, attempt>>
vars == <<github, main, plan, job, report, flow, tested>>

Waiting == {"idle", "pending", "stopped", "done"}
ReleaseJob == {"gates", "reconcile", "tag", "draft", "redraft"}
PublishJob == {"resume", "publishing", "published", "confirm"}
FinalizeJob == {"finalize", "merge", "merging"}
Steps == Waiting \cup {"build"} \cup ReleaseJob \cup {"install"} \cup PublishJob
           \cup {"retain", "verify"} \cup FinalizeJob \cup {"chain"}
Entries == {"build", "gates", "install", "resume", "verify", "finalize", "chain"}
TxnStates == {"draft_verified", "publishing", "published", "complete"}

\* bytes: .artifacts/ of the release job; txn: transaction.json of the publish job;
\* began: history, the feed when the publish job began; base: the commit the record
\* pull request is cut from.
Disks == [bytes : Artifacts \cup {None}, txn : TxnStates, began : 0 .. MaxFeed, base : Commits]
Clean == [bytes |-> None, txn |-> "draft_verified", began |-> 0, base |-> 0]

TypeOK ==
  /\ head \in Commits /\ feed \in 0 .. MaxFeed /\ enabled \in BOOLEAN
  /\ tag \in Commits \cup {None}
  /\ status \in {"none", "draft", "public"}
  /\ assets \in Artifacts \cup {None}
  /\ notes \in {Recipe[c] : c \in Commits} \cup {None}
  /\ publisher \in Runs \cup {None}
  /\ tested \subseteq Artifacts
  /\ record \in Artifacts \cup {None}
  /\ step \in [Runs -> Steps]
  /\ entry \in [Runs -> Entries]
  /\ attempt \in [Runs -> 0 .. MaxAttempts]
  /\ commit \in [Runs -> Commits]
  /\ admitted \in [Runs -> 0 .. MaxFeed]
  /\ build \in [Runs -> Artifacts \cup {None}]
  /\ handoff \in [Runs -> Artifacts \cup {None}]
  /\ disk \in [Runs -> Disks]
  /\ kept \in [Runs -> {"none", "notlive", "live", "recorded"}]
  /\ wasLive \in [Runs -> BOOLEAN]

Init ==
  /\ head = 0 /\ feed = 0 /\ enabled = TRUE
  /\ tag = None /\ status = "none" /\ assets = None /\ notes = None
  /\ publisher = None /\ tested = {} /\ record = None
  /\ step = [r \in Runs |-> "idle"]
  /\ entry = [r \in Runs |-> "build"]
  /\ attempt = [r \in Runs |-> 0]
  /\ commit = [r \in Runs |-> 0]
  /\ admitted = [r \in Runs |-> 0]
  /\ build = [r \in Runs |-> None]
  /\ handoff = [r \in Runs |-> None]
  /\ disk = [r \in Runs |-> Clean]
  /\ kept = [r \in Runs |-> "none"]
  /\ wasLive = [r \in Runs |-> FALSE]

Active(r) == step[r] \notin Waiting
Goto(r, s) == step' = [step EXCEPT ![r] = s]
EndJob(r) == disk' = [disk EXCEPT ![r] = Clean]

\* "Re-run failed jobs" repeats a failed build and, with it, every later job.
RerunFrom(r, j) == entry' = [entry EXCEPT ![r] = IF build[r] = None THEN "build" ELSE j]

-----------------------------------------------------------------------------
(* Around the runs: main, upstream, the operator and the watcher.          *)

\* Any other pull request merges.
MoveMain ==
  /\ head < MaxHead
  /\ head' = head + 1
  /\ UNCHANGED <<feed, enabled, record, github, plan, job, report, flow, tested>>

\* php.net changes the feed the plan cites.
MoveFeed ==
  /\ feed < MaxFeed
  /\ feed' = feed + 1
  /\ UNCHANGED <<head, enabled, record, github, plan, job, report, flow, tested>>

\* A reviewed pull request pauses or resumes unattended mutation.
SetOperator ==
  /\ head < MaxHead
  /\ head' = head + 1
  /\ enabled' = ~enabled
  /\ UNCHANGED <<feed, record, github, plan, job, report, flow, tested>>

\* An owner clears a draft no run is working on, with or without its tag.
DiscardDraft(keepTag) ==
  /\ status = "draft"
  /\ \A r \in Runs : ~Active(r)
  /\ status' = "none" /\ assets' = None /\ notes' = None
  /\ tag' = IF keepTag THEN tag ELSE None
  /\ UNCHANGED <<publisher, main, plan, job, report, flow, tested>>

\* Mutant: drafts are not left out of the captured releases.
RecoverRecordOfDraft ==
  /\ status # "none" /\ assets # None /\ record = None /\ enabled
  /\ head < MaxHead
  /\ record' = assets
  /\ head' = head + 1
  /\ UNCHANGED <<feed, enabled, github, plan, job, report, flow, tested>>

\* The watcher files the record of a public release that has none.
RecoverRecord ==
  /\ status = "public" /\ record = None /\ enabled
  /\ head < MaxHead
  /\ record' = assets
  /\ head' = head + 1
  /\ UNCHANGED <<feed, enabled, github, plan, job, report, flow, tested>>

\* One run of a concurrency group waits; a newer one replaces it.
Queue(r) ==
  step' = [q \in Runs |-> CASE q = r -> "pending"
                            [] q # r /\ step[q] = "pending" -> "stopped"
                            [] OTHER -> step[q]]

\* The watcher dispatches the plan it admitted on main and the captured feed.
\* Its other conditions are left out: it may dispatch whenever the gate is open.
Dispatch(r) ==
  /\ step[r] = "idle"
  /\ enabled
  /\ Queue(r)
  /\ commit' = [commit EXCEPT ![r] = head]
  /\ admitted' = [admitted EXCEPT ![r] = feed]
  /\ UNCHANGED <<entry, attempt, github, main, job, report, tested>>

\* A person reruns the failed jobs of a run, however much later.
RerunFailedJobs(r) ==
  /\ step[r] = "stopped" /\ attempt[r] < MaxAttempts
  /\ Queue(r)
  /\ UNCHANGED <<entry, attempt, github, main, plan, job, report, tested>>

\* A person reruns all its jobs.
RerunAllJobs(r) ==
  /\ step[r] \in {"stopped", "done"} /\ attempt[r] < MaxAttempts
  /\ Queue(r)
  /\ entry' = [entry EXCEPT ![r] = "build"]
  /\ UNCHANGED <<attempt, github, main, plan, job, report, tested>>

\* Mutant: a stopped run still holds the concurrency group.
StartAfterSuccess(r) ==
  /\ step[r] = "pending" /\ attempt[r] < MaxAttempts
  /\ \A q \in Runs : ~Active(q) /\ step[q] # "stopped"
  /\ Goto(r, entry[r])
  /\ attempt' = [attempt EXCEPT ![r] = @ + 1]
  /\ disk' = [disk EXCEPT ![r].began = IF entry[r] = "resume" THEN feed ELSE 0]
  /\ UNCHANGED <<entry, github, main, plan, build, handoff, report, tested>>

\* Mutant: the runs of a version share no concurrency group.
StartAtOnce(r) ==
  /\ step[r] = "pending" /\ attempt[r] < MaxAttempts
  /\ Goto(r, entry[r])
  /\ attempt' = [attempt EXCEPT ![r] = @ + 1]
  /\ disk' = [disk EXCEPT ![r].began = IF entry[r] = "resume" THEN feed ELSE 0]
  /\ UNCHANGED <<entry, github, main, plan, build, handoff, report, tested>>

Start(r) ==
  /\ step[r] = "pending" /\ attempt[r] < MaxAttempts
  /\ \A q \in Runs : ~Active(q)
  /\ Goto(r, entry[r])
  /\ attempt' = [attempt EXCEPT ![r] = @ + 1]
  /\ disk' = [disk EXCEPT ![r].began = IF entry[r] = "resume" THEN feed ELSE 0]
  /\ UNCHANGED <<entry, github, main, plan, build, handoff, report, tested>>

-----------------------------------------------------------------------------
(* The build job, and the release job that stages the draft.               *)

Build(r) ==
  /\ step[r] = "build"
  /\ \E i \in BuildIds :
       build' = [build EXCEPT ![r] = [commit |-> commit[r], build |-> i]]
  /\ Goto(r, "gates")
  /\ entry' = [entry EXCEPT ![r] = "gates"]
  /\ UNCHANGED <<attempt, github, main, plan, handoff, disk, report, tested>>

\* The release job runs also after a failed build.
BuildFails(r) ==
  /\ step[r] = "build"
  /\ build' = [build EXCEPT ![r] = None]
  /\ Goto(r, "gates")
  /\ UNCHANGED <<entry, attempt, github, main, plan, handoff, disk, report, tested>>

\* The operator gate on current main, then the recaptured evidence.
PassGates(r) ==
  /\ step[r] = "gates"
  /\ enabled /\ feed = admitted[r]
  /\ Goto(r, "reconcile")
  /\ UNCHANGED <<entry, attempt, github, main, plan, job, report, tested>>

\* An existing release is reconciled with its own complete assets, and the gate
\* is read again.
ReuseRelease(r) ==
  /\ step[r] = "reconcile" /\ enabled
  /\ status # "none" /\ assets # None
  /\ disk' = [disk EXCEPT ![r].bytes = assets]
  /\ Goto(r, "tag")
  /\ UNCHANGED <<entry, attempt, github, main, plan, build, handoff, report, tested>>

\* No release, or a failed "gh release view", which reads the same.
UseBuild(r) ==
  /\ step[r] = "reconcile" /\ enabled
  /\ build[r] # None
  /\ disk' = [disk EXCEPT ![r].bytes = build[r]]
  /\ Goto(r, "tag")
  /\ UNCHANGED <<entry, attempt, github, main, plan, build, handoff, report, tested>>

\* Mutant: an existing tag is kept without looking where it points.
CreateTagUnlessAny(r) ==
  /\ step[r] = "tag"
  /\ tag' = IF tag = None THEN commit[r] ELSE tag
  /\ Goto(r, "draft")
  /\ UNCHANGED <<entry, attempt, status, assets, notes, publisher, main, plan, job, report, tested>>

\* draft_created, first half: an existing tag must be on the admitted commit.
CreateTag(r) ==
  /\ step[r] = "tag"
  /\ tag \in {None, commit[r]}
  /\ tag' = commit[r]
  /\ Goto(r, "draft")
  /\ UNCHANGED <<entry, attempt, status, assets, notes, publisher, main, plan, job, report, tested>>

\* Mutant: "gh release create" also replaces what is there.
CreateDraftAnew(r) ==
  /\ step[r] = "draft"
  /\ status' = "draft"
  /\ assets' = disk[r].bytes
  /\ notes' = Recipe[commit[r]]
  /\ Goto(r, "redraft")
  /\ UNCHANGED <<entry, attempt, tag, publisher, main, plan, job, report, tested>>

\* draft_created, second half: a new draft gets the staged bytes.
CreateDraft(r) ==
  /\ step[r] = "draft"
  /\ status = "none"
  /\ status' = "draft"
  /\ assets' = disk[r].bytes
  /\ notes' = Recipe[commit[r]]
  /\ Goto(r, "redraft")
  /\ UNCHANGED <<entry, attempt, tag, publisher, main, plan, job, report, tested>>

\* The same, but the runner is lost before every asset is uploaded.
CreateDraftPartly(r) ==
  /\ step[r] = "draft"
  /\ status = "none"
  /\ status' = "draft"
  /\ assets' = None
  /\ notes' = Recipe[commit[r]]
  /\ Goto(r, "stopped")
  /\ RerunFrom(r, "gates")
  /\ EndJob(r)
  /\ UNCHANGED <<attempt, tag, publisher, main, plan, build, handoff, report, tested>>

\* A resumed draft gains the identity of this commit; a public release is left.
ResumeRelease(r) ==
  /\ step[r] = "draft"
  /\ status # "none"
  /\ notes' = IF status = "draft" THEN Recipe[commit[r]] ELSE notes
  /\ Goto(r, "redraft")
  /\ UNCHANGED <<entry, attempt, tag, status, assets, publisher, main, plan, job, report, tested>>

\* Mutant: the draft is handed over as downloaded, without the comparison.
VerifyDraftUncompared(r) ==
  /\ step[r] = "redraft"
  /\ handoff' = [handoff EXCEPT ![r] = assets]
  /\ Goto(r, "install")
  /\ RerunFrom(r, "install")
  /\ EndJob(r)
  /\ UNCHANGED <<attempt, github, main, plan, build, report, tested>>

\* draft_verified: the downloaded release holds the staged bytes.
VerifyDraft(r) ==
  /\ step[r] = "redraft"
  /\ assets = disk[r].bytes /\ assets # None
  /\ handoff' = [handoff EXCEPT ![r] = assets]
  /\ Goto(r, "install")
  /\ RerunFrom(r, "install")
  /\ EndJob(r)
  /\ UNCHANGED <<attempt, github, main, plan, build, report, tested>>

ReleaseJobFails(r) ==
  /\ step[r] \in ReleaseJob
  /\ Goto(r, "stopped")
  /\ RerunFrom(r, "gates")
  /\ EndJob(r)
  /\ UNCHANGED <<attempt, github, main, plan, build, handoff, report, tested>>

-----------------------------------------------------------------------------
(* The verify-draft job, and the publish job.                              *)

InstallDraft(r) ==
  /\ step[r] = "install"
  /\ tested' = tested \cup {handoff[r]}
  /\ disk' = [disk EXCEPT ![r].began = feed]
  /\ Goto(r, "resume")
  /\ RerunFrom(r, "resume")
  /\ UNCHANGED <<attempt, github, main, plan, build, handoff, report>>

\* Mutant: the handoff's own recapture is trusted.
ResumeHandoff(r) ==
  /\ step[r] = "resume"
  /\ status # "none"
  /\ Goto(r, "publishing")
  /\ UNCHANGED <<entry, attempt, github, main, plan, job, report, tested>>

\* The publish job resumes the handoff; a draft still needs its evidence to hold.
RecaptureEvidence(r) ==
  /\ step[r] = "resume"
  /\ status # "none"
  /\ status = "draft" => feed = admitted[r]
  /\ Goto(r, "publishing")
  /\ UNCHANGED <<entry, attempt, github, main, plan, job, report, tested>>

\* Mutant: the draft an earlier job verified is not read again.
RecordPublishingUnread(r) ==
  /\ step[r] = "publishing"
  /\ enabled
  /\ disk' = [disk EXCEPT ![r].txn = "publishing"]
  /\ Goto(r, "published")
  /\ UNCHANGED <<entry, attempt, github, main, plan, build, handoff, report, tested>>

\* The gate is read once, and the release re-read right before publication.
RecordPublishing(r) ==
  /\ step[r] = "publishing"
  /\ enabled
  /\ assets = handoff[r]
  /\ disk' = [disk EXCEPT ![r].txn = "publishing"]
  /\ Goto(r, "published")
  /\ UNCHANGED <<entry, attempt, github, main, plan, build, handoff, report, tested>>

MakePublic(r) ==
  /\ status # "none"
  /\ status' = "public"
  /\ publisher' = IF status = "draft" THEN r ELSE publisher
  /\ UNCHANGED <<tag, assets, notes>>

Publish(r) ==
  /\ step[r] = "published"
  /\ MakePublic(r)
  /\ disk' = [disk EXCEPT ![r].txn = "published"]
  /\ Goto(r, "confirm")
  /\ UNCHANGED <<entry, attempt, main, plan, build, handoff, report, tested>>

\* The release went public but the request's reply was lost.
PublishReplyLost(r) ==
  /\ step[r] = "published"
  /\ MakePublic(r)
  /\ Goto(r, "retain")
  /\ UNCHANGED <<entry, attempt, main, plan, job, report, tested>>

\* public_verified and complete: the public bytes are the handed-over ones.
ConfirmPublic(r) ==
  /\ step[r] = "confirm"
  /\ assets = handoff[r]
  /\ disk' = [disk EXCEPT ![r].txn = "complete"]
  /\ Goto(r, "retain")
  /\ UNCHANGED <<entry, attempt, github, main, plan, build, handoff, report, tested>>

PublishJobFails(r) ==
  /\ step[r] \in PublishJob
  /\ Goto(r, "retain")
  /\ UNCHANGED <<entry, attempt, github, main, plan, job, report, tested>>

\* "Record whether the immutable release is live".  GitHub may not answer, and
\* then the states earlier attempts retained are read.  The job may still fail
\* after "complete": the release is not attested, or a handoff is not uploaded.
Answers == {"unknown"} \cup (IF status = "none" THEN {} ELSE {status})
\* Mutant: only this attempt and GitHub are asked.
IsLiveNow(r, answer) ==
  \/ disk[r].txn \in {"published", "complete"}
  \/ disk[r].txn = "publishing" /\ answer # "draft"
  \/ answer = "public"

IsLive(r, answer) ==
  \/ disk[r].txn \in {"published", "complete"}
  \/ disk[r].txn = "publishing" /\ answer # "draft"
  \/ answer = "public"
  \/ answer = "unknown" /\ wasLive[r]

\* Mutant: the state is retained by a successful job only.
RetainStateOfSuccess(r) ==
  /\ step[r] = "retain"
  /\ \/ /\ disk[r].txn = "complete"
        /\ kept' = [kept EXCEPT ![r] = "live"]
        /\ wasLive' = [wasLive EXCEPT ![r] = TRUE]
        /\ Goto(r, "verify") /\ RerunFrom(r, "verify")
     \/ Goto(r, "stopped") /\ UNCHANGED <<entry, report>>
  /\ EndJob(r)
  /\ UNCHANGED <<attempt, github, main, plan, build, handoff, tested>>

RetainState(r) ==
  /\ step[r] = "retain"
  /\ \E answer \in Answers :
       /\ kept' = [kept EXCEPT ![r] = IF IsLive(r, answer) THEN "live" ELSE "notlive"]
       /\ wasLive' = [wasLive EXCEPT ![r] = @ \/ IsLive(r, answer)]
  /\ \/ disk[r].txn = "complete" /\ Goto(r, "verify") /\ RerunFrom(r, "verify")
     \/ Goto(r, "stopped") /\ UNCHANGED entry
  /\ EndJob(r)
  /\ UNCHANGED <<attempt, github, main, plan, build, handoff, tested>>

\* The publish job's runner is lost, and its always() steps with it.
LoseRunner(r) ==
  /\ RunnersDie
  /\ step[r] \in PublishJob \cup {"retain"}
  /\ Goto(r, "stopped")
  /\ EndJob(r)
  /\ UNCHANGED <<entry, attempt, github, main, plan, build, handoff, report, tested>>

-----------------------------------------------------------------------------
(* The read-only install of the public release, and the event record.      *)

InstallPublic(r) ==
  /\ step[r] = "verify"
  /\ status = "public"
  /\ Goto(r, "finalize")
  /\ RerunFrom(r, "finalize")
  /\ UNCHANGED <<attempt, github, main, plan, job, report, tested>>

InstallFails(r) ==
  /\ step[r] \in {"install", "verify"}
  /\ Goto(r, "stopped")
  /\ UNCHANGED <<entry, attempt, github, main, plan, job, report, tested>>

Recorded(r) ==
  /\ kept' = [kept EXCEPT ![r] = "recorded"]
  /\ wasLive' = [wasLive EXCEPT ![r] = TRUE]
  /\ Goto(r, "chain")
  /\ RerunFrom(r, "chain")
  /\ EndJob(r)

\* release_event_recorded: main already holds exactly this release.
FindRecord(r) ==
  /\ step[r] = "finalize"
  /\ record # None /\ record = handoff[r]
  /\ Recorded(r)
  /\ UNCHANGED <<attempt, github, main, plan, build, handoff, tested>>

OpenRecordPr(r) ==
  /\ step[r] = "finalize"
  /\ record = None
  /\ disk' = [disk EXCEPT ![r].base = head]
  /\ Goto(r, "merge")
  /\ UNCHANGED <<entry, attempt, github, main, plan, build, handoff, report, tested>>

\* merge-record-pr: the checks passed and main is still the record's base.
CheckRecordPr(r) ==
  /\ step[r] = "merge"
  /\ head = disk[r].base
  /\ Goto(r, "merging")
  /\ UNCHANGED <<entry, attempt, github, main, plan, job, report, tested>>

\* The squash merge; GitHub refuses a file that meanwhile exists on main.
FileRecord(r) ==
  /\ record = None /\ head < MaxHead
  /\ record' = handoff[r]
  /\ head' = head + 1

MergeRecord(r) ==
  /\ step[r] = "merging"
  /\ FileRecord(r)
  /\ Recorded(r)
  /\ UNCHANGED <<attempt, feed, enabled, github, plan, build, handoff, tested>>

\* Mutant: a failed step is taken for a record that was merged.
FinalizeStopsRecorded(r) ==
  /\ Goto(r, "stopped")
  /\ kept' = [kept EXCEPT ![r] = "recorded"]
  /\ wasLive' = [wasLive EXCEPT ![r] = TRUE]
  /\ EndJob(r)

\* The always() step reads main itself when this attempt did not merge.
FinalizeStops(r) ==
  /\ Goto(r, "stopped")
  /\ kept' \in {[kept EXCEPT ![r] = s] :
                  s \in {"live"} \cup (IF record' # None /\ record' = handoff[r]
                                         THEN {"recorded"} ELSE {})}
  /\ wasLive' = [wasLive EXCEPT ![r] = TRUE]
  /\ EndJob(r)

MergeReplyLost(r) ==
  /\ step[r] = "merging"
  /\ FileRecord(r)
  /\ FinalizeStops(r)
  /\ UNCHANGED <<entry, attempt, feed, enabled, github, plan, build, handoff, tested>>

FinalizeFails(r) ==
  /\ step[r] \in FinalizeJob
  /\ UNCHANGED main
  /\ FinalizeStops(r)
  /\ UNCHANGED <<entry, attempt, github, plan, build, handoff, tested>>

\* The next watcher run is started.
Chain(r) ==
  /\ step[r] = "chain"
  /\ Goto(r, "done")
  /\ UNCHANGED <<entry, attempt, github, main, plan, job, report, tested>>

ChainFails(r) ==
  /\ step[r] = "chain"
  /\ Goto(r, "stopped")
  /\ UNCHANGED <<entry, attempt, github, main, plan, job, report, tested>>

-----------------------------------------------------------------------------
Environment ==
  \/ MoveMain
  \/ MoveFeed
  \/ SetOperator
  \/ \E keepTag \in BOOLEAN : DiscardDraft(keepTag)
  \/ RecoverRecord
  \/ \E r \in Runs : Dispatch(r) \/ RerunFailedJobs(r) \/ RerunAllJobs(r)

StageStep(r) ==
  \/ Build(r) \/ BuildFails(r) \/ PassGates(r) \/ ReuseRelease(r) \/ UseBuild(r)
  \/ CreateTag(r) \/ CreateDraft(r) \/ CreateDraftPartly(r) \/ ResumeRelease(r)
  \/ VerifyDraft(r) \/ ReleaseJobFails(r)

PublishStep(r) ==
  \/ InstallDraft(r) \/ RecaptureEvidence(r) \/ RecordPublishing(r) \/ Publish(r)
  \/ PublishReplyLost(r) \/ ConfirmPublic(r) \/ PublishJobFails(r) \/ RetainState(r)
  \/ LoseRunner(r)

RecordStep(r) ==
  \/ InstallPublic(r) \/ InstallFails(r) \/ FindRecord(r) \/ OpenRecordPr(r)
  \/ CheckRecordPr(r) \/ MergeRecord(r) \/ MergeReplyLost(r) \/ FinalizeFails(r)
  \/ Chain(r) \/ ChainFails(r)

RunStep(r) == StageStep(r) \/ PublishStep(r) \/ RecordStep(r)

Next == Environment \/ \E r \in Runs : Start(r) \/ RunStep(r)

Spec == Init /\ [][Next]_vars

\* Every job has a timeout and GitHub starts a waiting run; people and php.net
\* owe nothing.
Fairness == \A r \in Runs : WF_vars(RunStep(r)) /\ WF_vars(Start(r))
FairSpec == Spec /\ Fairness

-----------------------------------------------------------------------------
(* What the transaction guarantees.                                        *)

\* A public release holds bytes that a draft install ran, although drafts are
\* discarded and replaced between the install and a rerun of the publish job.
PublishedBytesWereInstalled == status = "public" => assets \in tested

\* A public release was built from the commit its tag names, and its notes name
\* that commit's recipe: this is what the watcher rebuilds from later.
PublishedIsTheTaggedBuild ==
  status = "public" =>
    /\ assets # None
    /\ tag = assets.commit
    /\ notes = Recipe[tag]

\* The durable event record, filed by the run or recovered by the watcher,
\* names the release that is public and its exact bytes.
RecordNamesPublicBytes == record # None => status = "public" /\ record = assets

\* A run that made the release public never retains a state that calls it
\* unpublished, whatever its reruns see of GitHub (as long as its runners live).
LiveIsKnown ==
  \A r \in Runs :
    publisher = r /\ step[r] \notin {"confirm", "retain"} => kept[r] \in {"live", "recorded"}

\* A retained "recorded" is true: the record on main is this very release's.
RecordedClaimIsTrue ==
  \A r \in Runs : kept[r] = "recorded" => record # None /\ record = assets

\* At most one run of the version is at work.
OneRunAtATime == \A q, r \in Runs : Active(q) /\ Active(r) => q = r

\* A publication rests on evidence that still held when its publish job began,
\* also in a rerun that reuses a handoff from long before.
PublicationIsFresh ==
  [][\A r \in Runs : publisher # r /\ publisher' = r => disk[r].began = admitted[r]]_vars

\* The transaction implements the promise of ImmutableRelease.
Release == INSTANCE ImmutableRelease
ImplementsImmutableRelease == Release!Spec

\* A publication ends in its event record, or in a run that stopped and retained
\* that the release is live, which is what the owner is then told.
Accounted == record # None \/ \E r \in Runs : step[r] = "stopped" /\ kept[r] = "live"
PublicationIsAccounted == status = "public" ~> Accounted

\* A queued run starts or is replaced by a newer one: no stopped run blocks it.
QueueMoves == \A r \in Runs : step[r] = "pending" ~> step[r] # "pending"

-----------------------------------------------------------------------------
(* The inductive invariant the safety theorems rest on.                    *)

\* A handoff reaches the install only after VerifyDraft filled it.
HandoffIsSet ==
  \A r \in Runs : step[r] = "install" \/ entry[r] = "install" => handoff[r] # None

\* Tag, notes and complete assets name one commit, and a run that would create a
\* draft holds bytes of its own commit.
Provenance ==
  /\ status = "none" => assets = None
  /\ status # "none" =>
       /\ tag # None
       /\ notes = Recipe[tag]
       /\ assets # None => assets.commit = tag
  /\ \A r \in Runs :
       /\ step[r] = "idle" => build[r] = None
       /\ build[r] # None => build[r].commit = commit[r]
       /\ step[r] \in {"draft", "redraft"} => tag = commit[r]
       /\ step[r] \in {"tag", "draft"} /\ status = "none" =>
            disk[r].bytes # None /\ disk[r].bytes.commit = commit[r]

HasDraft(r) ==
  \/ step[r] \in PublishJob \cup {"retain", "verify"} \cup FinalizeJob
  \/ entry[r] \in {"resume", "verify", "finalize", "chain"}

HasPublished(r) ==
  \/ disk[r].txn = "complete"
  \/ step[r] \in {"verify"} \cup FinalizeJob
  \/ entry[r] \in {"verify", "finalize", "chain"}

\* What a run hands to publication was installed, and is the draft at the moment
\* of publication.
Installed ==
  /\ PublishedBytesWereInstalled
  /\ \A r \in Runs :
       /\ HasDraft(r) => handoff[r] \in tested
       /\ step[r] = "published" => assets = handoff[r]

\* From "complete" on, a run works on the public release it handed over.
Completed ==
  /\ \A r \in Runs :
       /\ step[r] = "confirm" => status = "public"
       /\ HasPublished(r) => status = "public" /\ assets = handoff[r]
  /\ RecordNamesPublicBytes
  /\ RecordedClaimIsTrue

\* The evidence only moves on, so a recapture that finds the admitted evidence
\* proves that it held when the job began.
Fresh ==
  \A r \in Runs :
    /\ admitted[r] <= feed
    /\ step[r] \in PublishJob => admitted[r] <= disk[r].began /\ disk[r].began <= feed
    /\ step[r] \in {"publishing", "published"} /\ status = "draft" => disk[r].began = admitted[r]

\* While a publish job holds the news of its publication, its transaction or an
\* earlier attempt knows it.
LiveIsTracked ==
  ~RunnersDie =>
    /\ publisher # None => status = "public"
    /\ \A r \in Runs :
         /\ kept[r] \in {"live", "recorded"} => wasLive[r]
         /\ step[r] = "published" => disk[r].txn = "publishing"
         /\ publisher = r /\ step[r] \in {"confirm", "retain"} =>
              wasLive[r] \/ disk[r].txn \in {"publishing", "published", "complete"}
    /\ LiveIsKnown

IInv ==
  /\ TypeOK
  /\ HandoffIsSet
  /\ OneRunAtATime
  /\ Provenance
  /\ Installed
  /\ Completed
  /\ Fresh
  /\ LiveIsTracked

-----------------------------------------------------------------------------
(* What the documentation says and the code does not do.                   *)

\* "the next admitted dispatch reuses that draft": a run that reconciled a draft
\* is not rejected for the tag the draft was staged under.
DraftIsReused ==
  \A r \in Runs : step[r] = "tag" /\ status = "draft" => tag \in {None, commit[r]}
=============================================================================
