---------------------- MODULE ReleaseTransactionProofs ----------------------
(***************************************************************************)
(* The safety of ReleaseTransaction, proved for every number of runs,      *)
(* builds, commits, feed changes and attempts.                             *)
(*                                                                         *)
(* IInv is inductive.  Its parts are preserved in layers, each lemma using *)
(* the ones before it: the types; one run at a time; where bytes come      *)
(* from; that they were installed; that a completed run works on the       *)
(* public release; how old its evidence is; and what it retained.          *)
(***************************************************************************)
EXTENDS ReleaseTransaction, TLAPS

TypeInv == TypeOK /\ HandoffIsSet

\* Every field of a runner's disk can be set to a value of its own kind.
LEMMA DiskUpdates ==
  ASSUME NEW d \in [Runs -> Disks], NEW r \in Runs
  PROVE  /\ Clean \in Disks
         /\ \A b \in Artifacts \cup {None} : [d EXCEPT ![r].bytes = b] \in [Runs -> Disks]
         /\ \A t \in TxnStates : [d EXCEPT ![r].txn = t] \in [Runs -> Disks]
         /\ \A f \in 0 .. MaxFeed : [d EXCEPT ![r].began = f] \in [Runs -> Disks]
         /\ \A c \in Commits : [d EXCEPT ![r].base = c] \in [Runs -> Disks]
BY BoundsAreNaturals DEF Disks, Clean, TxnStates, Commits

\* The types are preserved; an install needs a handoff to install.
LEMMA TypeStep ==
  ASSUME TypeInv, [Next]_vars
  PROVE  TypeInv'
<1> USE BoundsAreNaturals, NoneIsNoValue DEF TypeInv, TypeOK, HandoffIsSet, Steps,
    Entries, Waiting, ReleaseJob, PublishJob, FinalizeJob, Commits, github, main, plan,
    job, report, flow
<1>1. CASE MoveMain
  BY <1>1 DEF MoveMain
<1>2. CASE MoveFeed
  BY <1>2 DEF MoveFeed
<1>3. CASE SetOperator
  BY <1>3 DEF SetOperator
<1>4. CASE RecoverRecord
  BY <1>4 DEF RecoverRecord
<1>5. ASSUME NEW k \in BOOLEAN, DiscardDraft(k) PROVE TypeInv'
  BY <1>5 DEF DiscardDraft
<1>6. ASSUME NEW r \in Runs, Dispatch(r) PROVE TypeInv'
  BY <1>6 DEF Dispatch, Queue
<1>7. ASSUME NEW r \in Runs, RerunFailedJobs(r) PROVE TypeInv'
  BY <1>7 DEF RerunFailedJobs, Queue
<1>8. ASSUME NEW r \in Runs, RerunAllJobs(r) PROVE TypeInv'
  BY <1>8 DEF RerunAllJobs, Queue
<1>9. ASSUME NEW r \in Runs, Start(r) PROVE TypeInv'
  <2> DEFINE f == IF entry[r] = "resume" THEN feed ELSE 0
  <2>1. f \in 0 .. MaxFeed
    OBVIOUS
  <2>2. disk' \in [Runs -> Disks]
    BY <1>9, <2>1, DiskUpdates DEF Start
  <2> QED
    BY <1>9, <2>2 DEF Start, Goto
<1>10. ASSUME NEW r \in Runs, Build(r) PROVE TypeInv'
  <2>1. \A i \in BuildIds : [commit |-> commit[r], build |-> i] \in Artifacts
    BY DEF Artifacts
  <2>2. build' \in [Runs -> Artifacts \cup {None}]
    BY <1>10, <2>1 DEF Build
  <2> QED
    BY <1>10, <2>2 DEF Build, Goto
<1>11. ASSUME NEW r \in Runs, BuildFails(r) PROVE TypeInv'
  BY <1>11 DEF BuildFails, Goto
<1>12. ASSUME NEW r \in Runs, PassGates(r) PROVE TypeInv'
  BY <1>12 DEF PassGates, Goto
<1>13. ASSUME NEW r \in Runs, ReuseRelease(r) PROVE TypeInv'
  <2>1. disk' \in [Runs -> Disks]
    BY <1>13, DiskUpdates DEF ReuseRelease, TxnStates
  <2> QED
    BY <1>13, <2>1 DEF ReuseRelease, Goto
<1>14. ASSUME NEW r \in Runs, UseBuild(r) PROVE TypeInv'
  <2>1. disk' \in [Runs -> Disks]
    BY <1>14, DiskUpdates DEF UseBuild, TxnStates
  <2> QED
    BY <1>14, <2>1 DEF UseBuild, Goto
<1>15. ASSUME NEW r \in Runs, CreateTag(r) PROVE TypeInv'
  BY <1>15 DEF CreateTag, Goto
<1>16. ASSUME NEW r \in Runs, CreateDraft(r) PROVE TypeInv'
  <2>1. disk[r].bytes \in Artifacts \cup {None}
    BY DEF Disks
  <2> QED
    BY <1>16, <2>1 DEF CreateDraft, Goto
<1>17. ASSUME NEW r \in Runs, CreateDraftPartly(r) PROVE TypeInv'
  <2>1. disk' \in [Runs -> Disks]
    BY <1>17, DiskUpdates DEF CreateDraftPartly, EndJob
  <2> QED
    BY <1>17, <2>1 DEF CreateDraftPartly, Goto, RerunFrom
<1>18. ASSUME NEW r \in Runs, ResumeRelease(r) PROVE TypeInv'
  BY <1>18 DEF ResumeRelease, Goto
<1>19. ASSUME NEW r \in Runs, VerifyDraft(r) PROVE TypeInv'
  <2>1. disk' \in [Runs -> Disks]
    BY <1>19, DiskUpdates DEF VerifyDraft, EndJob
  <2> QED
    BY <1>19, <2>1 DEF VerifyDraft, Goto, RerunFrom
<1>20. ASSUME NEW r \in Runs, ReleaseJobFails(r) PROVE TypeInv'
  <2>1. disk' \in [Runs -> Disks]
    BY <1>20, DiskUpdates DEF ReleaseJobFails, EndJob
  <2>2. /\ entry' \in [Runs -> Entries]
        /\ \A q \in Runs : entry'[q] = "install" => entry[q] = "install"
    BY <1>20 DEF ReleaseJobFails, RerunFrom
  <2> QED
    BY <1>20, <2>1, <2>2 DEF ReleaseJobFails, Goto
<1>21. ASSUME NEW r \in Runs, InstallDraft(r) PROVE TypeInv'
  <2>1. disk' \in [Runs -> Disks]
    BY <1>21, DiskUpdates DEF InstallDraft, TxnStates
  <2> QED
    BY <1>21, <2>1 DEF InstallDraft, Goto, RerunFrom
<1>22. ASSUME NEW r \in Runs, RecaptureEvidence(r) PROVE TypeInv'
  BY <1>22 DEF RecaptureEvidence, Goto
<1>23. ASSUME NEW r \in Runs, RecordPublishing(r) PROVE TypeInv'
  <2>1. disk' \in [Runs -> Disks]
    BY <1>23, DiskUpdates DEF RecordPublishing, TxnStates
  <2> QED
    BY <1>23, <2>1 DEF RecordPublishing, Goto
<1>24. ASSUME NEW r \in Runs, Publish(r) PROVE TypeInv'
  <2>1. disk' \in [Runs -> Disks]
    BY <1>24, DiskUpdates DEF Publish, TxnStates
  <2> QED
    BY <1>24, <2>1 DEF Publish, Goto, MakePublic
<1>25. ASSUME NEW r \in Runs, PublishReplyLost(r) PROVE TypeInv'
  BY <1>25 DEF PublishReplyLost, Goto, MakePublic
<1>26. ASSUME NEW r \in Runs, ConfirmPublic(r) PROVE TypeInv'
  <2>1. disk' \in [Runs -> Disks]
    BY <1>26, DiskUpdates DEF ConfirmPublic, TxnStates
  <2> QED
    BY <1>26, <2>1 DEF ConfirmPublic, Goto
<1>27. ASSUME NEW r \in Runs, PublishJobFails(r) PROVE TypeInv'
  BY <1>27 DEF PublishJobFails, Goto
<1>28. ASSUME NEW r \in Runs, RetainState(r) PROVE TypeInv'
  <2>1. disk' \in [Runs -> Disks]
    BY <1>28, DiskUpdates DEF RetainState, EndJob
  <2>2. /\ kept' \in [Runs -> {"none", "notlive", "live", "recorded"}]
        /\ wasLive' \in [Runs -> BOOLEAN]
    BY <1>28 DEF RetainState
  <2> QED
    BY <1>28, <2>1, <2>2 DEF RetainState, Goto, RerunFrom
<1>29. ASSUME NEW r \in Runs, LoseRunner(r) PROVE TypeInv'
  <2>1. disk' \in [Runs -> Disks]
    BY <1>29, DiskUpdates DEF LoseRunner, EndJob
  <2> QED
    BY <1>29, <2>1 DEF LoseRunner, Goto
<1>30. ASSUME NEW r \in Runs, InstallPublic(r) PROVE TypeInv'
  BY <1>30 DEF InstallPublic, Goto, RerunFrom
<1>31. ASSUME NEW r \in Runs, InstallFails(r) PROVE TypeInv'
  BY <1>31 DEF InstallFails, Goto
<1>32. ASSUME NEW r \in Runs, FindRecord(r) PROVE TypeInv'
  <2>1. disk' \in [Runs -> Disks]
    BY <1>32, DiskUpdates DEF FindRecord, EndJob, Recorded
  <2> QED
    BY <1>32, <2>1 DEF FindRecord, Goto, Recorded, RerunFrom
<1>33. ASSUME NEW r \in Runs, OpenRecordPr(r) PROVE TypeInv'
  <2>1. disk' \in [Runs -> Disks]
    BY <1>33, DiskUpdates DEF OpenRecordPr, TxnStates
  <2> QED
    BY <1>33, <2>1 DEF OpenRecordPr, Goto
<1>34. ASSUME NEW r \in Runs, CheckRecordPr(r) PROVE TypeInv'
  BY <1>34 DEF CheckRecordPr, Goto
<1>35. ASSUME NEW r \in Runs, MergeRecord(r) PROVE TypeInv'
  <2>1. disk' \in [Runs -> Disks]
    BY <1>35, DiskUpdates DEF MergeRecord, EndJob, Recorded
  <2>2. /\ entry' \in [Runs -> Entries] /\ step' \in [Runs -> Steps]
        /\ \A q \in Runs : entry'[q] = "install" => entry[q] = "install"
        /\ \A q \in Runs : step'[q] = "install" => step[q] = "install"
    BY <1>35 DEF MergeRecord, Recorded, Goto, RerunFrom
  <2>3. head' \in Commits /\ record' \in Artifacts \cup {None}
    BY <1>35 DEF MergeRecord, FileRecord
  <2> QED
    BY <1>35, <2>1, <2>2, <2>3 DEF MergeRecord, Recorded
<1>36. ASSUME NEW r \in Runs, MergeReplyLost(r) PROVE TypeInv'
  <2>1. disk' \in [Runs -> Disks]
    BY <1>36, DiskUpdates DEF MergeReplyLost, FinalizeStops, EndJob
  <2>2. PICK s \in {"live", "recorded"} : kept' = [kept EXCEPT ![r] = s]
    BY <1>36 DEF MergeReplyLost, FinalizeStops
  <2>3. kept' \in [Runs -> {"none", "notlive", "live", "recorded"}]
    BY <2>2
  <2> QED
    BY <1>36, <2>1, <2>3 DEF MergeReplyLost, FinalizeStops, FileRecord, Goto
<1>37. ASSUME NEW r \in Runs, FinalizeFails(r) PROVE TypeInv'
  <2>1. disk' \in [Runs -> Disks]
    BY <1>37, DiskUpdates DEF FinalizeFails, FinalizeStops, EndJob
  <2>2. PICK s \in {"live", "recorded"} : kept' = [kept EXCEPT ![r] = s]
    BY <1>37 DEF FinalizeFails, FinalizeStops
  <2>3. kept' \in [Runs -> {"none", "notlive", "live", "recorded"}]
    BY <2>2
  <2> QED
    BY <1>37, <2>1, <2>3 DEF FinalizeFails, FinalizeStops, Goto
<1>38. ASSUME NEW r \in Runs, Chain(r) PROVE TypeInv'
  BY <1>38 DEF Chain, Goto
<1>39. ASSUME NEW r \in Runs, ChainFails(r) PROVE TypeInv'
  BY <1>39 DEF ChainFails, Goto
<1>40. CASE UNCHANGED vars
  BY <1>40 DEF vars
<1> HIDE DEF TypeInv, TypeOK, HandoffIsSet, Steps
<1> QED
  BY <1>1, <1>2, <1>3, <1>4, <1>5, <1>6, <1>7, <1>8, <1>9, <1>10, <1>11, <1>12, <1>13,
     <1>14, <1>15, <1>16, <1>17, <1>18, <1>19, <1>20, <1>21, <1>22, <1>23, <1>24,
     <1>25, <1>26, <1>27, <1>28, <1>29, <1>30, <1>31, <1>32, <1>33, <1>34, <1>35,
     <1>36, <1>37, <1>38, <1>39, <1>40 DEF Next, Environment, RunStep, StageStep,
     PublishStep, RecordStep

\* A run starts only when no other run is at work.
LEMMA MutexStep ==
  ASSUME TypeInv, OneRunAtATime, [Next]_vars
  PROVE  OneRunAtATime'
<1> USE DEF TypeInv, TypeOK, OneRunAtATime, Active, Steps, Entries, Waiting,
    ReleaseJob, PublishJob, FinalizeJob, github, main, plan, job, report, flow
<1>1. CASE MoveMain
  BY <1>1 DEF MoveMain
<1>2. CASE MoveFeed
  BY <1>2 DEF MoveFeed
<1>3. CASE SetOperator
  BY <1>3 DEF SetOperator
<1>4. CASE RecoverRecord
  BY <1>4 DEF RecoverRecord
<1>5. ASSUME NEW k \in BOOLEAN, DiscardDraft(k) PROVE OneRunAtATime'
  BY <1>5 DEF DiscardDraft
<1>6. ASSUME NEW r \in Runs, Dispatch(r) PROVE OneRunAtATime'
  BY <1>6 DEF Dispatch, Queue
<1>7. ASSUME NEW r \in Runs, RerunFailedJobs(r) PROVE OneRunAtATime'
  BY <1>7 DEF RerunFailedJobs, Queue
<1>8. ASSUME NEW r \in Runs, RerunAllJobs(r) PROVE OneRunAtATime'
  BY <1>8 DEF RerunAllJobs, Queue
<1>9. ASSUME NEW r \in Runs, Start(r) PROVE OneRunAtATime'
  BY <1>9 DEF Start, Goto, Active
<1>10. ASSUME NEW r \in Runs, Build(r) PROVE OneRunAtATime'
  BY <1>10 DEF Build, Goto
<1>11. ASSUME NEW r \in Runs, BuildFails(r) PROVE OneRunAtATime'
  BY <1>11 DEF BuildFails, Goto
<1>12. ASSUME NEW r \in Runs, PassGates(r) PROVE OneRunAtATime'
  BY <1>12 DEF PassGates, Goto
<1>13. ASSUME NEW r \in Runs, ReuseRelease(r) PROVE OneRunAtATime'
  BY <1>13 DEF ReuseRelease, Goto
<1>14. ASSUME NEW r \in Runs, UseBuild(r) PROVE OneRunAtATime'
  BY <1>14 DEF UseBuild, Goto
<1>15. ASSUME NEW r \in Runs, CreateTag(r) PROVE OneRunAtATime'
  BY <1>15 DEF CreateTag, Goto
<1>16. ASSUME NEW r \in Runs, CreateDraft(r) PROVE OneRunAtATime'
  BY <1>16 DEF CreateDraft, Goto
<1>17. ASSUME NEW r \in Runs, CreateDraftPartly(r) PROVE OneRunAtATime'
  BY <1>17 DEF CreateDraftPartly, Goto, RerunFrom, EndJob
<1>18. ASSUME NEW r \in Runs, ResumeRelease(r) PROVE OneRunAtATime'
  BY <1>18 DEF ResumeRelease, Goto
<1>19. ASSUME NEW r \in Runs, VerifyDraft(r) PROVE OneRunAtATime'
  BY <1>19 DEF VerifyDraft, Goto, RerunFrom, EndJob
<1>20. ASSUME NEW r \in Runs, ReleaseJobFails(r) PROVE OneRunAtATime'
  BY <1>20 DEF ReleaseJobFails, Goto, RerunFrom, EndJob
<1>21. ASSUME NEW r \in Runs, InstallDraft(r) PROVE OneRunAtATime'
  BY <1>21 DEF InstallDraft, Goto, RerunFrom
<1>22. ASSUME NEW r \in Runs, RecaptureEvidence(r) PROVE OneRunAtATime'
  BY <1>22 DEF RecaptureEvidence, Goto
<1>23. ASSUME NEW r \in Runs, RecordPublishing(r) PROVE OneRunAtATime'
  BY <1>23 DEF RecordPublishing, Goto
<1>24. ASSUME NEW r \in Runs, Publish(r) PROVE OneRunAtATime'
  BY <1>24 DEF Publish, Goto, MakePublic
<1>25. ASSUME NEW r \in Runs, PublishReplyLost(r) PROVE OneRunAtATime'
  BY <1>25 DEF PublishReplyLost, Goto, MakePublic
<1>26. ASSUME NEW r \in Runs, ConfirmPublic(r) PROVE OneRunAtATime'
  BY <1>26 DEF ConfirmPublic, Goto
<1>27. ASSUME NEW r \in Runs, PublishJobFails(r) PROVE OneRunAtATime'
  BY <1>27 DEF PublishJobFails, Goto
<1>28. ASSUME NEW r \in Runs, RetainState(r) PROVE OneRunAtATime'
  BY <1>28 DEF RetainState, Goto, RerunFrom, EndJob
<1>29. ASSUME NEW r \in Runs, LoseRunner(r) PROVE OneRunAtATime'
  BY <1>29 DEF LoseRunner, Goto, EndJob
<1>30. ASSUME NEW r \in Runs, InstallPublic(r) PROVE OneRunAtATime'
  BY <1>30 DEF InstallPublic, Goto, RerunFrom
<1>31. ASSUME NEW r \in Runs, InstallFails(r) PROVE OneRunAtATime'
  BY <1>31 DEF InstallFails, Goto
<1>32. ASSUME NEW r \in Runs, FindRecord(r) PROVE OneRunAtATime'
  BY <1>32 DEF FindRecord, Goto, Recorded, RerunFrom, EndJob
<1>33. ASSUME NEW r \in Runs, OpenRecordPr(r) PROVE OneRunAtATime'
  BY <1>33 DEF OpenRecordPr, Goto
<1>34. ASSUME NEW r \in Runs, CheckRecordPr(r) PROVE OneRunAtATime'
  BY <1>34 DEF CheckRecordPr, Goto
<1>35. ASSUME NEW r \in Runs, MergeRecord(r) PROVE OneRunAtATime'
  BY <1>35 DEF MergeRecord, Goto, Recorded, FileRecord, RerunFrom, EndJob
<1>36. ASSUME NEW r \in Runs, MergeReplyLost(r) PROVE OneRunAtATime'
  BY <1>36 DEF MergeReplyLost, Goto, FinalizeStops, FileRecord, EndJob
<1>37. ASSUME NEW r \in Runs, FinalizeFails(r) PROVE OneRunAtATime'
  BY <1>37 DEF FinalizeFails, Goto, FinalizeStops, EndJob
<1>38. ASSUME NEW r \in Runs, Chain(r) PROVE OneRunAtATime'
  BY <1>38 DEF Chain, Goto
<1>39. ASSUME NEW r \in Runs, ChainFails(r) PROVE OneRunAtATime'
  BY <1>39 DEF ChainFails, Goto
<1>40. CASE UNCHANGED vars
  BY <1>40 DEF vars
<1> HIDE DEF TypeInv, TypeOK, OneRunAtATime, Active, Steps
<1> QED
  BY <1>1, <1>2, <1>3, <1>4, <1>5, <1>6, <1>7, <1>8, <1>9, <1>10, <1>11, <1>12, <1>13,
     <1>14, <1>15, <1>16, <1>17, <1>18, <1>19, <1>20, <1>21, <1>22, <1>23, <1>24,
     <1>25, <1>26, <1>27, <1>28, <1>29, <1>30, <1>31, <1>32, <1>33, <1>34, <1>35,
     <1>36, <1>37, <1>38, <1>39, <1>40 DEF Next, Environment, RunStep, StageStep,
     PublishStep, RecordStep

\* Only a run that holds the tag creates a draft, with bytes of its own commit.
LEMMA ProvenanceStep ==
  ASSUME TypeInv, OneRunAtATime, Provenance, [Next]_vars
  PROVE  Provenance'
<1> USE NoneIsNoValue DEF TypeInv, TypeOK, OneRunAtATime, Active, Provenance, Disks,
    Steps, Entries, Waiting, ReleaseJob, PublishJob, FinalizeJob, github, main, plan,
    job, report, flow
<1>1. CASE MoveMain
  BY <1>1 DEF MoveMain
<1>2. CASE MoveFeed
  BY <1>2 DEF MoveFeed
<1>3. CASE SetOperator
  BY <1>3 DEF SetOperator
<1>4. CASE RecoverRecord
  BY <1>4 DEF RecoverRecord
<1>5. ASSUME NEW k \in BOOLEAN, DiscardDraft(k) PROVE Provenance'
  BY <1>5 DEF DiscardDraft
<1>6. ASSUME NEW r \in Runs, Dispatch(r) PROVE Provenance'
  BY <1>6 DEF Dispatch, Queue
<1>7. ASSUME NEW r \in Runs, RerunFailedJobs(r) PROVE Provenance'
  BY <1>7 DEF RerunFailedJobs, Queue
<1>8. ASSUME NEW r \in Runs, RerunAllJobs(r) PROVE Provenance'
  BY <1>8 DEF RerunAllJobs, Queue
<1>9. ASSUME NEW r \in Runs, Start(r) PROVE Provenance'
  <2>1. /\ step' = [step EXCEPT ![r] = entry[r]] /\ step \in [Runs -> Steps]
        /\ entry[r] \notin {"idle", "tag", "draft", "redraft"}
    BY <1>9 DEF Start, Goto
  <2>2. disk' = [disk EXCEPT ![r].began = IF entry[r] = "resume" THEN feed ELSE 0]
    BY <1>9 DEF Start
  <2>3. \A q \in Runs : disk'[q].bytes = disk[q].bytes
    BY <2>2
  <2>4. UNCHANGED <<github, commit, build>>
    BY <1>9 DEF Start
  <2>5. \A q \in Runs : step'[q] \in {"idle", "tag", "draft", "redraft"} => step'[q] = step[q]
    BY <2>1
  <2> QED
    BY <2>3, <2>4, <2>5
<1>10. ASSUME NEW r \in Runs, Build(r) PROVE Provenance'
  BY <1>10 DEF Build, Goto
<1>11. ASSUME NEW r \in Runs, BuildFails(r) PROVE Provenance'
  BY <1>11 DEF BuildFails, Goto
<1>12. ASSUME NEW r \in Runs, PassGates(r) PROVE Provenance'
  BY <1>12 DEF PassGates, Goto
<1>13. ASSUME NEW r \in Runs, ReuseRelease(r) PROVE Provenance'
  BY <1>13 DEF ReuseRelease, Goto
<1>14. ASSUME NEW r \in Runs, UseBuild(r) PROVE Provenance'
  BY <1>14 DEF UseBuild, Goto
<1>15. ASSUME NEW r \in Runs, CreateTag(r) PROVE Provenance'
  BY <1>15 DEF CreateTag, Goto
<1>16. ASSUME NEW r \in Runs, CreateDraft(r) PROVE Provenance'
  BY <1>16 DEF CreateDraft, Goto
<1>17. ASSUME NEW r \in Runs, CreateDraftPartly(r) PROVE Provenance'
  BY <1>17 DEF CreateDraftPartly, Goto, RerunFrom, EndJob
<1>18. ASSUME NEW r \in Runs, ResumeRelease(r) PROVE Provenance'
  BY <1>18 DEF ResumeRelease, Goto
<1>19. ASSUME NEW r \in Runs, VerifyDraft(r) PROVE Provenance'
  BY <1>19 DEF VerifyDraft, Goto, RerunFrom, EndJob
<1>20. ASSUME NEW r \in Runs, ReleaseJobFails(r) PROVE Provenance'
  BY <1>20 DEF ReleaseJobFails, Goto, RerunFrom, EndJob
<1>21. ASSUME NEW r \in Runs, InstallDraft(r) PROVE Provenance'
  BY <1>21 DEF InstallDraft, Goto, RerunFrom
<1>22. ASSUME NEW r \in Runs, RecaptureEvidence(r) PROVE Provenance'
  BY <1>22 DEF RecaptureEvidence, Goto
<1>23. ASSUME NEW r \in Runs, RecordPublishing(r) PROVE Provenance'
  BY <1>23 DEF RecordPublishing, Goto
<1>24. ASSUME NEW r \in Runs, Publish(r) PROVE Provenance'
  BY <1>24 DEF Publish, Goto, MakePublic
<1>25. ASSUME NEW r \in Runs, PublishReplyLost(r) PROVE Provenance'
  BY <1>25 DEF PublishReplyLost, Goto, MakePublic
<1>26. ASSUME NEW r \in Runs, ConfirmPublic(r) PROVE Provenance'
  BY <1>26 DEF ConfirmPublic, Goto
<1>27. ASSUME NEW r \in Runs, PublishJobFails(r) PROVE Provenance'
  BY <1>27 DEF PublishJobFails, Goto
<1>28. ASSUME NEW r \in Runs, RetainState(r) PROVE Provenance'
  BY <1>28 DEF RetainState, Goto, RerunFrom, EndJob
<1>29. ASSUME NEW r \in Runs, LoseRunner(r) PROVE Provenance'
  BY <1>29 DEF LoseRunner, Goto, EndJob
<1>30. ASSUME NEW r \in Runs, InstallPublic(r) PROVE Provenance'
  BY <1>30 DEF InstallPublic, Goto, RerunFrom
<1>31. ASSUME NEW r \in Runs, InstallFails(r) PROVE Provenance'
  BY <1>31 DEF InstallFails, Goto
<1>32. ASSUME NEW r \in Runs, FindRecord(r) PROVE Provenance'
  BY <1>32 DEF FindRecord, Goto, Recorded, RerunFrom, EndJob
<1>33. ASSUME NEW r \in Runs, OpenRecordPr(r) PROVE Provenance'
  BY <1>33 DEF OpenRecordPr, Goto
<1>34. ASSUME NEW r \in Runs, CheckRecordPr(r) PROVE Provenance'
  BY <1>34 DEF CheckRecordPr, Goto
<1>35. ASSUME NEW r \in Runs, MergeRecord(r) PROVE Provenance'
  BY <1>35 DEF MergeRecord, Goto, Recorded, FileRecord, RerunFrom, EndJob
<1>36. ASSUME NEW r \in Runs, MergeReplyLost(r) PROVE Provenance'
  BY <1>36 DEF MergeReplyLost, Goto, FinalizeStops, FileRecord, EndJob
<1>37. ASSUME NEW r \in Runs, FinalizeFails(r) PROVE Provenance'
  BY <1>37 DEF FinalizeFails, Goto, FinalizeStops, EndJob
<1>38. ASSUME NEW r \in Runs, Chain(r) PROVE Provenance'
  BY <1>38 DEF Chain, Goto
<1>39. ASSUME NEW r \in Runs, ChainFails(r) PROVE Provenance'
  BY <1>39 DEF ChainFails, Goto
<1>40. CASE UNCHANGED vars
  BY <1>40 DEF vars
<1> HIDE DEF TypeInv, TypeOK, OneRunAtATime, Active, Provenance, Disks, Steps
<1> QED
  BY <1>1, <1>2, <1>3, <1>4, <1>5, <1>6, <1>7, <1>8, <1>9, <1>10, <1>11, <1>12, <1>13,
     <1>14, <1>15, <1>16, <1>17, <1>18, <1>19, <1>20, <1>21, <1>22, <1>23, <1>24,
     <1>25, <1>26, <1>27, <1>28, <1>29, <1>30, <1>31, <1>32, <1>33, <1>34, <1>35,
     <1>36, <1>37, <1>38, <1>39, <1>40 DEF Next, Environment, RunStep, StageStep,
     PublishStep, RecordStep

\* A handoff is installed before it is published, and it is the draft then.
LEMMA InstalledStep ==
  ASSUME TypeInv, OneRunAtATime, Provenance, Installed, [Next]_vars
  PROVE  Installed'
<1>1. /\ step \in [Runs -> Steps] /\ entry \in [Runs -> Entries]
      /\ handoff \in [Runs -> Artifacts \cup {None}] /\ tested \subseteq Artifacts
      /\ status \in {"none", "draft", "public"}
  BY DEF TypeInv, TypeOK, Disks
<1> USE <1>1, NoneIsNoValue DEF OneRunAtATime, Active, Waiting, Provenance, Installed,
    HasDraft, PublishedBytesWereInstalled, PublishJob, FinalizeJob, ReleaseJob, github,
    main, plan, job, report, flow
<1>2. CASE MoveMain
  BY <1>2 DEF MoveMain
<1>3. CASE MoveFeed
  BY <1>3 DEF MoveFeed
<1>4. CASE SetOperator
  BY <1>4 DEF SetOperator
<1>5. CASE RecoverRecord
  BY <1>5 DEF RecoverRecord
<1>6. ASSUME NEW k \in BOOLEAN, DiscardDraft(k) PROVE Installed'
  BY <1>6 DEF DiscardDraft
<1>7. ASSUME NEW r \in Runs, Dispatch(r) PROVE Installed'
  BY <1>7 DEF Dispatch, Queue
<1>8. ASSUME NEW r \in Runs, RerunFailedJobs(r) PROVE Installed'
  BY <1>8 DEF RerunFailedJobs, Queue
<1>9. ASSUME NEW r \in Runs, RerunAllJobs(r) PROVE Installed'
  BY <1>9 DEF RerunAllJobs, Queue
<1>10. ASSUME NEW r \in Runs, Start(r) PROVE Installed'
  BY <1>10 DEF Start, Goto, Active, Entries
<1>11. ASSUME NEW r \in Runs, Build(r) PROVE Installed'
  BY <1>11 DEF Build, Goto
<1>12. ASSUME NEW r \in Runs, BuildFails(r) PROVE Installed'
  BY <1>12 DEF BuildFails, Goto
<1>13. ASSUME NEW r \in Runs, PassGates(r) PROVE Installed'
  BY <1>13 DEF PassGates, Goto
<1>14. ASSUME NEW r \in Runs, ReuseRelease(r) PROVE Installed'
  BY <1>14 DEF ReuseRelease, Goto
<1>15. ASSUME NEW r \in Runs, UseBuild(r) PROVE Installed'
  BY <1>15 DEF UseBuild, Goto
<1>16. ASSUME NEW r \in Runs, CreateTag(r) PROVE Installed'
  BY <1>16 DEF CreateTag, Goto
<1>17. ASSUME NEW r \in Runs, CreateDraft(r) PROVE Installed'
  BY <1>17 DEF CreateDraft, Goto
<1>18. ASSUME NEW r \in Runs, CreateDraftPartly(r) PROVE Installed'
  BY <1>18 DEF CreateDraftPartly, Goto, RerunFrom, EndJob
<1>19. ASSUME NEW r \in Runs, ResumeRelease(r) PROVE Installed'
  BY <1>19 DEF ResumeRelease, Goto
<1>20. ASSUME NEW r \in Runs, VerifyDraft(r) PROVE Installed'
  BY <1>20 DEF VerifyDraft, Goto, RerunFrom, EndJob
<1>21. ASSUME NEW r \in Runs, ReleaseJobFails(r) PROVE Installed'
  BY <1>21 DEF ReleaseJobFails, Goto, RerunFrom, EndJob
<1>22. ASSUME NEW r \in Runs, InstallDraft(r) PROVE Installed'
  BY <1>22 DEF InstallDraft, Goto, RerunFrom
<1>23. ASSUME NEW r \in Runs, RecaptureEvidence(r) PROVE Installed'
  BY <1>23 DEF RecaptureEvidence, Goto
<1>24. ASSUME NEW r \in Runs, RecordPublishing(r) PROVE Installed'
  BY <1>24 DEF RecordPublishing, Goto
<1>25. ASSUME NEW r \in Runs, Publish(r) PROVE Installed'
  BY <1>25 DEF Publish, Goto, MakePublic
<1>26. ASSUME NEW r \in Runs, PublishReplyLost(r) PROVE Installed'
  BY <1>26 DEF PublishReplyLost, Goto, MakePublic
<1>27. ASSUME NEW r \in Runs, ConfirmPublic(r) PROVE Installed'
  BY <1>27 DEF ConfirmPublic, Goto
<1>28. ASSUME NEW r \in Runs, PublishJobFails(r) PROVE Installed'
  BY <1>28 DEF PublishJobFails, Goto
<1>29. ASSUME NEW r \in Runs, RetainState(r) PROVE Installed'
  BY <1>29 DEF RetainState, Goto, RerunFrom, EndJob, IsLive, Answers
<1>30. ASSUME NEW r \in Runs, LoseRunner(r) PROVE Installed'
  BY <1>30 DEF LoseRunner, Goto, EndJob
<1>31. ASSUME NEW r \in Runs, InstallPublic(r) PROVE Installed'
  BY <1>31 DEF InstallPublic, Goto, RerunFrom
<1>32. ASSUME NEW r \in Runs, InstallFails(r) PROVE Installed'
  BY <1>32 DEF InstallFails, Goto
<1>33. ASSUME NEW r \in Runs, FindRecord(r) PROVE Installed'
  BY <1>33 DEF FindRecord, Goto, Recorded, RerunFrom, EndJob
<1>34. ASSUME NEW r \in Runs, OpenRecordPr(r) PROVE Installed'
  BY <1>34 DEF OpenRecordPr, Goto
<1>35. ASSUME NEW r \in Runs, CheckRecordPr(r) PROVE Installed'
  BY <1>35 DEF CheckRecordPr, Goto
<1>36. ASSUME NEW r \in Runs, MergeRecord(r) PROVE Installed'
  BY <1>36 DEF MergeRecord, Goto, Recorded, FileRecord, RerunFrom, EndJob
<1>37. ASSUME NEW r \in Runs, MergeReplyLost(r) PROVE Installed'
  BY <1>37 DEF MergeReplyLost, Goto, FinalizeStops, FileRecord, EndJob
<1>38. ASSUME NEW r \in Runs, FinalizeFails(r) PROVE Installed'
  BY <1>38 DEF FinalizeFails, Goto, FinalizeStops, EndJob
<1>39. ASSUME NEW r \in Runs, Chain(r) PROVE Installed'
  BY <1>39 DEF Chain, Goto
<1>40. ASSUME NEW r \in Runs, ChainFails(r) PROVE Installed'
  BY <1>40 DEF ChainFails, Goto
<1>41. CASE UNCHANGED vars
  BY <1>41 DEF vars
<1> HIDE DEF OneRunAtATime, Active, Provenance, Installed, HasDraft, PublishedBytesWereInstalled
<1> QED
  BY <1>1, <1>2, <1>3, <1>4, <1>5, <1>6, <1>7, <1>8, <1>9, <1>10, <1>11, <1>12, <1>13,
     <1>14, <1>15, <1>16, <1>17, <1>18, <1>19, <1>20, <1>21, <1>22, <1>23, <1>24,
     <1>25, <1>26, <1>27, <1>28, <1>29, <1>30, <1>31, <1>32, <1>33, <1>34, <1>35,
     <1>36, <1>37, <1>38, <1>39, <1>40, <1>41 DEF Next, Environment, RunStep,
     StageStep, PublishStep, RecordStep

\* A record is filed for the public release the run itself handed over.
LEMMA CompletedStep ==
  ASSUME TypeInv, OneRunAtATime, Provenance, Installed, Completed, [Next]_vars
  PROVE  Completed'
<1>1. /\ step \in [Runs -> Steps] /\ entry \in [Runs -> Entries]
      /\ handoff \in [Runs -> Artifacts \cup {None}]
      /\ tested \subseteq Artifacts
      /\ disk \in [Runs -> Disks]
      /\ kept \in [Runs -> {"none", "notlive", "live", "recorded"}]
      /\ status \in {"none", "draft", "public"}
  BY DEF TypeInv, TypeOK, Disks
<1> USE <1>1, NoneIsNoValue DEF Installed, HasDraft, Completed, HasPublished,
    RecordNamesPublicBytes, RecordedClaimIsTrue, Clean, PublishJob, FinalizeJob,
    ReleaseJob, github, main, plan, job, report, flow
<1>2. CASE MoveMain
  BY <1>2 DEF MoveMain
<1>3. CASE MoveFeed
  BY <1>3 DEF MoveFeed
<1>4. CASE SetOperator
  BY <1>4 DEF SetOperator
<1>5. CASE RecoverRecord
  BY <1>5 DEF RecoverRecord
<1>6. ASSUME NEW k \in BOOLEAN, DiscardDraft(k) PROVE Completed'
  BY <1>6 DEF DiscardDraft
<1>7. ASSUME NEW r \in Runs, Dispatch(r) PROVE Completed'
  BY <1>7 DEF Dispatch, Queue
<1>8. ASSUME NEW r \in Runs, RerunFailedJobs(r) PROVE Completed'
  BY <1>8 DEF RerunFailedJobs, Queue
<1>9. ASSUME NEW r \in Runs, RerunAllJobs(r) PROVE Completed'
  BY <1>9 DEF RerunAllJobs, Queue
<1>10. ASSUME NEW r \in Runs, Start(r) PROVE Completed'
  BY <1>10 DEF Start, Goto, Active, Entries
<1>11. ASSUME NEW r \in Runs, Build(r) PROVE Completed'
  BY <1>11 DEF Build, Goto
<1>12. ASSUME NEW r \in Runs, BuildFails(r) PROVE Completed'
  BY <1>12 DEF BuildFails, Goto
<1>13. ASSUME NEW r \in Runs, PassGates(r) PROVE Completed'
  BY <1>13 DEF PassGates, Goto
<1>14. ASSUME NEW r \in Runs, ReuseRelease(r) PROVE Completed'
  BY <1>14 DEF ReuseRelease, Goto
<1>15. ASSUME NEW r \in Runs, UseBuild(r) PROVE Completed'
  BY <1>15 DEF UseBuild, Goto
<1>16. ASSUME NEW r \in Runs, CreateTag(r) PROVE Completed'
  BY <1>16 DEF CreateTag, Goto
<1>17. ASSUME NEW r \in Runs, CreateDraft(r) PROVE Completed'
  BY <1>17 DEF CreateDraft, Goto
<1>18. ASSUME NEW r \in Runs, CreateDraftPartly(r) PROVE Completed'
  BY <1>18 DEF CreateDraftPartly, Goto, RerunFrom, EndJob
<1>19. ASSUME NEW r \in Runs, ResumeRelease(r) PROVE Completed'
  BY <1>19 DEF ResumeRelease, Goto
<1>20. ASSUME NEW r \in Runs, VerifyDraft(r) PROVE Completed'
  BY <1>20 DEF VerifyDraft, Goto, RerunFrom, EndJob
<1>21. ASSUME NEW r \in Runs, ReleaseJobFails(r) PROVE Completed'
  BY <1>21 DEF ReleaseJobFails, Goto, RerunFrom, EndJob
<1>22. ASSUME NEW r \in Runs, InstallDraft(r) PROVE Completed'
  BY <1>22 DEF InstallDraft, Goto, RerunFrom
<1>23. ASSUME NEW r \in Runs, RecaptureEvidence(r) PROVE Completed'
  BY <1>23 DEF RecaptureEvidence, Goto
<1>24. ASSUME NEW r \in Runs, RecordPublishing(r) PROVE Completed'
  BY <1>24 DEF RecordPublishing, Goto
<1>25. ASSUME NEW r \in Runs, Publish(r) PROVE Completed'
  BY <1>25 DEF Publish, Goto, MakePublic
<1>26. ASSUME NEW r \in Runs, PublishReplyLost(r) PROVE Completed'
  BY <1>26 DEF PublishReplyLost, Goto, MakePublic
<1>27. ASSUME NEW r \in Runs, ConfirmPublic(r) PROVE Completed'
  BY <1>27 DEF ConfirmPublic, Goto
<1>28. ASSUME NEW r \in Runs, PublishJobFails(r) PROVE Completed'
  BY <1>28 DEF PublishJobFails, Goto
<1>29. ASSUME NEW r \in Runs, RetainState(r) PROVE Completed'
  BY <1>29 DEF RetainState, Goto, RerunFrom, EndJob, IsLive, Answers
<1>30. ASSUME NEW r \in Runs, LoseRunner(r) PROVE Completed'
  BY <1>30 DEF LoseRunner, Goto, EndJob
<1>31. ASSUME NEW r \in Runs, InstallPublic(r) PROVE Completed'
  BY <1>31 DEF InstallPublic, Goto, RerunFrom
<1>32. ASSUME NEW r \in Runs, InstallFails(r) PROVE Completed'
  BY <1>32 DEF InstallFails, Goto
<1>33. ASSUME NEW r \in Runs, FindRecord(r) PROVE Completed'
  BY <1>33 DEF FindRecord, Goto, Recorded, RerunFrom, EndJob
<1>34. ASSUME NEW r \in Runs, OpenRecordPr(r) PROVE Completed'
  BY <1>34 DEF OpenRecordPr, Goto
<1>35. ASSUME NEW r \in Runs, CheckRecordPr(r) PROVE Completed'
  BY <1>35 DEF CheckRecordPr, Goto
<1>36. ASSUME NEW r \in Runs, MergeRecord(r) PROVE Completed'
  BY <1>36 DEF MergeRecord, Goto, Recorded, FileRecord, RerunFrom, EndJob
<1>37. ASSUME NEW r \in Runs, MergeReplyLost(r) PROVE Completed'
  BY <1>37 DEF MergeReplyLost, Goto, FinalizeStops, FileRecord, EndJob
<1>38. ASSUME NEW r \in Runs, FinalizeFails(r) PROVE Completed'
  BY <1>38 DEF FinalizeFails, Goto, FinalizeStops, EndJob
<1>39. ASSUME NEW r \in Runs, Chain(r) PROVE Completed'
  BY <1>39 DEF Chain, Goto
<1>40. ASSUME NEW r \in Runs, ChainFails(r) PROVE Completed'
  BY <1>40 DEF ChainFails, Goto
<1>41. CASE UNCHANGED vars
  BY <1>41 DEF vars
<1> HIDE DEF Installed, HasDraft, Completed, HasPublished, RecordNamesPublicBytes, RecordedClaimIsTrue
<1> QED
  BY <1>1, <1>2, <1>3, <1>4, <1>5, <1>6, <1>7, <1>8, <1>9, <1>10, <1>11, <1>12, <1>13,
     <1>14, <1>15, <1>16, <1>17, <1>18, <1>19, <1>20, <1>21, <1>22, <1>23, <1>24,
     <1>25, <1>26, <1>27, <1>28, <1>29, <1>30, <1>31, <1>32, <1>33, <1>34, <1>35,
     <1>36, <1>37, <1>38, <1>39, <1>40, <1>41 DEF Next, Environment, RunStep,
     StageStep, PublishStep, RecordStep

\* Between two equal ends nothing moves.
LEMMA Squeeze == \A a, b, f \in Nat : a <= b /\ b <= f /\ f = a => b = a
OBVIOUS

\* A recapture that finds the admitted evidence bounds what came before it.
LEMMA FreshStep ==
  ASSUME TypeInv, OneRunAtATime, Fresh, [Next]_vars
  PROVE  Fresh'
<1>1. /\ step \in [Runs -> Steps] /\ entry \in [Runs -> Entries]
      /\ feed \in Nat /\ admitted \in [Runs -> Nat]
      /\ disk \in [Runs -> [bytes : Artifacts \cup {None}, txn : TxnStates,
                           began : Nat, base : Commits]]
  BY DEF TypeInv, TypeOK, Disks
<1> USE <1>1 DEF OneRunAtATime, Active, Waiting, Fresh, PublishJob, FinalizeJob,
    ReleaseJob, Clean, github, main, plan, job, report, flow
<1>2. CASE MoveMain
  BY <1>2 DEF MoveMain
<1>3. CASE MoveFeed
  BY <1>3 DEF MoveFeed
<1>4. CASE SetOperator
  BY <1>4 DEF SetOperator
<1>5. CASE RecoverRecord
  BY <1>5 DEF RecoverRecord
<1>6. ASSUME NEW k \in BOOLEAN, DiscardDraft(k) PROVE Fresh'
  BY <1>6 DEF DiscardDraft
<1>7. ASSUME NEW r \in Runs, Dispatch(r) PROVE Fresh'
  BY <1>7 DEF Dispatch, Queue
<1>8. ASSUME NEW r \in Runs, RerunFailedJobs(r) PROVE Fresh'
  BY <1>8 DEF RerunFailedJobs, Queue
<1>9. ASSUME NEW r \in Runs, RerunAllJobs(r) PROVE Fresh'
  BY <1>9 DEF RerunAllJobs, Queue
<1>10. ASSUME NEW r \in Runs, Start(r) PROVE Fresh'
  BY SMTT(20), <1>10 DEF Start, Goto, Active, Entries
<1>11. ASSUME NEW r \in Runs, Build(r) PROVE Fresh'
  BY <1>11 DEF Build, Goto
<1>12. ASSUME NEW r \in Runs, BuildFails(r) PROVE Fresh'
  BY <1>12 DEF BuildFails, Goto
<1>13. ASSUME NEW r \in Runs, PassGates(r) PROVE Fresh'
  BY <1>13 DEF PassGates, Goto
<1>14. ASSUME NEW r \in Runs, ReuseRelease(r) PROVE Fresh'
  BY <1>14 DEF ReuseRelease, Goto
<1>15. ASSUME NEW r \in Runs, UseBuild(r) PROVE Fresh'
  BY <1>15 DEF UseBuild, Goto
<1>16. ASSUME NEW r \in Runs, CreateTag(r) PROVE Fresh'
  BY <1>16 DEF CreateTag, Goto
<1>17. ASSUME NEW r \in Runs, CreateDraft(r) PROVE Fresh'
  BY <1>17 DEF CreateDraft, Goto
<1>18. ASSUME NEW r \in Runs, CreateDraftPartly(r) PROVE Fresh'
  BY <1>18 DEF CreateDraftPartly, Goto, RerunFrom, EndJob
<1>19. ASSUME NEW r \in Runs, ResumeRelease(r) PROVE Fresh'
  BY <1>19 DEF ResumeRelease, Goto
<1>20. ASSUME NEW r \in Runs, VerifyDraft(r) PROVE Fresh'
  BY <1>20 DEF VerifyDraft, Goto, RerunFrom, EndJob
<1>21. ASSUME NEW r \in Runs, ReleaseJobFails(r) PROVE Fresh'
  BY <1>21 DEF ReleaseJobFails, Goto, RerunFrom, EndJob
<1>22. ASSUME NEW r \in Runs, InstallDraft(r) PROVE Fresh'
  BY <1>22 DEF InstallDraft, Goto, RerunFrom
<1>23. ASSUME NEW r \in Runs, RecaptureEvidence(r) PROVE Fresh'
  <2> DEFINE began == disk[r].began
  <2>a. /\ began \in Nat /\ admitted[r] \in Nat
        /\ admitted[r] <= began /\ began <= feed
    BY <1>23 DEF RecaptureEvidence
  <2>b. status = "draft" => feed = admitted[r]
    BY <1>23 DEF RecaptureEvidence
  <2>1. status = "draft" => began = admitted[r]
    <3> HIDE DEF began
    <3> QED BY <1>1, <2>a, <2>b, Squeeze, Zenon
  <2>2. step'[r] = "publishing" /\ \A q \in Runs : q # r => step'[q] = step[q]
    BY <1>23 DEF RecaptureEvidence, Goto
  <2>3. UNCHANGED <<admitted, feed, disk, status>> /\ step[r] = "resume"
    BY <1>23 DEF RecaptureEvidence
  <2> QED
    BY <2>1, <2>2, <2>3
<1>24. ASSUME NEW r \in Runs, RecordPublishing(r) PROVE Fresh'
  BY <1>24 DEF RecordPublishing, Goto
<1>25. ASSUME NEW r \in Runs, Publish(r) PROVE Fresh'
  BY <1>25 DEF Publish, Goto, MakePublic
<1>26. ASSUME NEW r \in Runs, PublishReplyLost(r) PROVE Fresh'
  BY <1>26 DEF PublishReplyLost, Goto, MakePublic
<1>27. ASSUME NEW r \in Runs, ConfirmPublic(r) PROVE Fresh'
  BY <1>27 DEF ConfirmPublic, Goto
<1>28. ASSUME NEW r \in Runs, PublishJobFails(r) PROVE Fresh'
  BY <1>28 DEF PublishJobFails, Goto
<1>29. ASSUME NEW r \in Runs, RetainState(r) PROVE Fresh'
  BY <1>29 DEF RetainState, Goto, RerunFrom, EndJob, IsLive, Answers
<1>30. ASSUME NEW r \in Runs, LoseRunner(r) PROVE Fresh'
  BY <1>30 DEF LoseRunner, Goto, EndJob
<1>31. ASSUME NEW r \in Runs, InstallPublic(r) PROVE Fresh'
  BY <1>31 DEF InstallPublic, Goto, RerunFrom
<1>32. ASSUME NEW r \in Runs, InstallFails(r) PROVE Fresh'
  BY <1>32 DEF InstallFails, Goto
<1>33. ASSUME NEW r \in Runs, FindRecord(r) PROVE Fresh'
  BY <1>33 DEF FindRecord, Goto, Recorded, RerunFrom, EndJob
<1>34. ASSUME NEW r \in Runs, OpenRecordPr(r) PROVE Fresh'
  BY <1>34 DEF OpenRecordPr, Goto
<1>35. ASSUME NEW r \in Runs, CheckRecordPr(r) PROVE Fresh'
  BY <1>35 DEF CheckRecordPr, Goto
<1>36. ASSUME NEW r \in Runs, MergeRecord(r) PROVE Fresh'
  BY <1>36 DEF MergeRecord, Goto, Recorded, FileRecord, RerunFrom, EndJob
<1>37. ASSUME NEW r \in Runs, MergeReplyLost(r) PROVE Fresh'
  BY <1>37 DEF MergeReplyLost, Goto, FinalizeStops, FileRecord, EndJob
<1>38. ASSUME NEW r \in Runs, FinalizeFails(r) PROVE Fresh'
  BY <1>38 DEF FinalizeFails, Goto, FinalizeStops, EndJob
<1>39. ASSUME NEW r \in Runs, Chain(r) PROVE Fresh'
  BY <1>39 DEF Chain, Goto
<1>40. ASSUME NEW r \in Runs, ChainFails(r) PROVE Fresh'
  BY <1>40 DEF ChainFails, Goto
<1>41. CASE UNCHANGED vars
  BY <1>41 DEF vars
<1> HIDE DEF OneRunAtATime, Active, Fresh
<1> QED
  BY <1>1, <1>2, <1>3, <1>4, <1>5, <1>6, <1>7, <1>8, <1>9, <1>10, <1>11, <1>12, <1>13,
     <1>14, <1>15, <1>16, <1>17, <1>18, <1>19, <1>20, <1>21, <1>22, <1>23, <1>24,
     <1>25, <1>26, <1>27, <1>28, <1>29, <1>30, <1>31, <1>32, <1>33, <1>34, <1>35,
     <1>36, <1>37, <1>38, <1>39, <1>40, <1>41 DEF Next, Environment, RunStep,
     StageStep, PublishStep, RecordStep

\* GitHub never calls a public release a draft, so the news is not lost.
LEMMA LiveStep ==
  ASSUME TypeInv, Installed, Completed, LiveIsTracked, [Next]_vars
  PROVE  LiveIsTracked'
<1>1. /\ step \in [Runs -> Steps] /\ entry \in [Runs -> Entries]
      /\ disk \in [Runs -> Disks]
      /\ kept \in [Runs -> {"none", "notlive", "live", "recorded"}]
      /\ wasLive \in [Runs -> BOOLEAN]
      /\ publisher \in Runs \cup {None}
      /\ status \in {"none", "draft", "public"}
  BY DEF TypeInv, TypeOK, Disks
<1> USE <1>1, NoneIsNoValue DEF Completed, LiveIsTracked, LiveIsKnown, PublishJob,
    FinalizeJob, ReleaseJob, TxnStates, Clean, github, main, plan, job, report, flow
<1>2. CASE MoveMain
  BY <1>2 DEF MoveMain
<1>3. CASE MoveFeed
  BY <1>3 DEF MoveFeed
<1>4. CASE SetOperator
  BY <1>4 DEF SetOperator
<1>5. CASE RecoverRecord
  BY <1>5 DEF RecoverRecord
<1>6. ASSUME NEW k \in BOOLEAN, DiscardDraft(k) PROVE LiveIsTracked'
  BY <1>6 DEF DiscardDraft
<1>7. ASSUME NEW r \in Runs, Dispatch(r) PROVE LiveIsTracked'
  BY <1>7 DEF Dispatch, Queue
<1>8. ASSUME NEW r \in Runs, RerunFailedJobs(r) PROVE LiveIsTracked'
  BY <1>8 DEF RerunFailedJobs, Queue
<1>9. ASSUME NEW r \in Runs, RerunAllJobs(r) PROVE LiveIsTracked'
  BY <1>9 DEF RerunAllJobs, Queue
<1>10. ASSUME NEW r \in Runs, Start(r) PROVE LiveIsTracked'
  BY <1>10 DEF Start, Goto, Active, Entries
<1>11. ASSUME NEW r \in Runs, Build(r) PROVE LiveIsTracked'
  BY <1>11 DEF Build, Goto
<1>12. ASSUME NEW r \in Runs, BuildFails(r) PROVE LiveIsTracked'
  BY <1>12 DEF BuildFails, Goto
<1>13. ASSUME NEW r \in Runs, PassGates(r) PROVE LiveIsTracked'
  BY <1>13 DEF PassGates, Goto
<1>14. ASSUME NEW r \in Runs, ReuseRelease(r) PROVE LiveIsTracked'
  BY <1>14 DEF ReuseRelease, Goto
<1>15. ASSUME NEW r \in Runs, UseBuild(r) PROVE LiveIsTracked'
  BY <1>15 DEF UseBuild, Goto
<1>16. ASSUME NEW r \in Runs, CreateTag(r) PROVE LiveIsTracked'
  BY <1>16 DEF CreateTag, Goto
<1>17. ASSUME NEW r \in Runs, CreateDraft(r) PROVE LiveIsTracked'
  BY <1>17 DEF CreateDraft, Goto
<1>18. ASSUME NEW r \in Runs, CreateDraftPartly(r) PROVE LiveIsTracked'
  BY <1>18 DEF CreateDraftPartly, Goto, RerunFrom, EndJob
<1>19. ASSUME NEW r \in Runs, ResumeRelease(r) PROVE LiveIsTracked'
  BY <1>19 DEF ResumeRelease, Goto
<1>20. ASSUME NEW r \in Runs, VerifyDraft(r) PROVE LiveIsTracked'
  BY <1>20 DEF VerifyDraft, Goto, RerunFrom, EndJob
<1>21. ASSUME NEW r \in Runs, ReleaseJobFails(r) PROVE LiveIsTracked'
  BY <1>21 DEF ReleaseJobFails, Goto, RerunFrom, EndJob
<1>22. ASSUME NEW r \in Runs, InstallDraft(r) PROVE LiveIsTracked'
  BY <1>22 DEF InstallDraft, Goto, RerunFrom
<1>23. ASSUME NEW r \in Runs, RecaptureEvidence(r) PROVE LiveIsTracked'
  BY <1>23 DEF RecaptureEvidence, Goto
<1>24. ASSUME NEW r \in Runs, RecordPublishing(r) PROVE LiveIsTracked'
  BY <1>24 DEF RecordPublishing, Goto
<1>25. ASSUME NEW r \in Runs, Publish(r) PROVE LiveIsTracked'
  BY <1>25 DEF Publish, Goto, MakePublic
<1>26. ASSUME NEW r \in Runs, PublishReplyLost(r) PROVE LiveIsTracked'
  BY <1>26 DEF PublishReplyLost, Goto, MakePublic
<1>27. ASSUME NEW r \in Runs, ConfirmPublic(r) PROVE LiveIsTracked'
  BY <1>27 DEF ConfirmPublic, Goto
<1>28. ASSUME NEW r \in Runs, PublishJobFails(r) PROVE LiveIsTracked'
  BY <1>28 DEF PublishJobFails, Goto
<1>29. ASSUME NEW r \in Runs, RetainState(r) PROVE LiveIsTracked'
  <2>1. PICK answer \in Answers :
          /\ kept' = [kept EXCEPT ![r] = IF IsLive(r,
              answer) THEN "live" ELSE "notlive"]
          /\ wasLive' = [wasLive EXCEPT ![r] = @ \/ IsLive(r, answer)]
    BY <1>29 DEF RetainState
  <2>2. /\ \A q \in Runs : q # r => step'[q] = step[q] /\ disk'[q] = disk[q] /\ kept'[q] = kept[q] /\ wasLive'[q] = wasLive[q]
        /\ step'[r] \in {"verify", "stopped"}
        /\ UNCHANGED <<publisher, status>>
    BY <1>29, <2>1 DEF RetainState, Goto, EndJob
  <2>3. IsLive(r, answer) \in BOOLEAN
    BY DEF IsLive
  <2>4. ~RunnersDie /\ publisher = r => IsLive(r, answer)
    BY <1>29 DEF RetainState, IsLive, Answers
  <2>5. kept'[r] = (IF IsLive(r, answer) THEN "live" ELSE "notlive")
    BY <2>1
  <2>6. wasLive'[r] = (wasLive[r] \/ IsLive(r, answer))
    BY <2>1
  <2>7. kept'[r] \in {"live", "recorded"} => wasLive'[r]
    BY <2>3, <2>5, <2>6
  <2> QED
    BY <2>2, <2>4, <2>5, <2>7
<1>30. ASSUME NEW r \in Runs, LoseRunner(r) PROVE LiveIsTracked'
  BY <1>30 DEF LoseRunner, Goto, EndJob
<1>31. ASSUME NEW r \in Runs, InstallPublic(r) PROVE LiveIsTracked'
  BY <1>31 DEF InstallPublic, Goto, RerunFrom
<1>32. ASSUME NEW r \in Runs, InstallFails(r) PROVE LiveIsTracked'
  BY <1>32 DEF InstallFails, Goto
<1>33. ASSUME NEW r \in Runs, FindRecord(r) PROVE LiveIsTracked'
  BY <1>33 DEF FindRecord, Goto, Recorded, RerunFrom, EndJob
<1>34. ASSUME NEW r \in Runs, OpenRecordPr(r) PROVE LiveIsTracked'
  BY <1>34 DEF OpenRecordPr, Goto
<1>35. ASSUME NEW r \in Runs, CheckRecordPr(r) PROVE LiveIsTracked'
  BY <1>35 DEF CheckRecordPr, Goto
<1>36. ASSUME NEW r \in Runs, MergeRecord(r) PROVE LiveIsTracked'
  BY <1>36 DEF MergeRecord, Goto, Recorded, FileRecord, RerunFrom, EndJob
<1>37. ASSUME NEW r \in Runs, MergeReplyLost(r) PROVE LiveIsTracked'
  BY <1>37 DEF MergeReplyLost, Goto, FinalizeStops, FileRecord, EndJob
<1>38. ASSUME NEW r \in Runs, FinalizeFails(r) PROVE LiveIsTracked'
  BY <1>38 DEF FinalizeFails, Goto, FinalizeStops, EndJob
<1>39. ASSUME NEW r \in Runs, Chain(r) PROVE LiveIsTracked'
  BY <1>39 DEF Chain, Goto
<1>40. ASSUME NEW r \in Runs, ChainFails(r) PROVE LiveIsTracked'
  BY <1>40 DEF ChainFails, Goto
<1>41. CASE UNCHANGED vars
  BY <1>41 DEF vars
<1> HIDE DEF Completed, LiveIsTracked, LiveIsKnown
<1> QED
  BY <1>1, <1>2, <1>3, <1>4, <1>5, <1>6, <1>7, <1>8, <1>9, <1>10, <1>11, <1>12, <1>13,
     <1>14, <1>15, <1>16, <1>17, <1>18, <1>19, <1>20, <1>21, <1>22, <1>23, <1>24,
     <1>25, <1>26, <1>27, <1>28, <1>29, <1>30, <1>31, <1>32, <1>33, <1>34, <1>35,
     <1>36, <1>37, <1>38, <1>39, <1>40, <1>41 DEF Next, Environment, RunStep,
     StageStep, PublishStep, RecordStep

-----------------------------------------------------------------------------
(* The steps that touch the release or the installed bytes.                *)

\* No other step does.
LEMMA StagingSteps ==
  ASSUME [Next]_vars
  PROVE  \/ UNCHANGED <<status, assets, tested, publisher>>
         \/ \E keepTag \in BOOLEAN : DiscardDraft(keepTag)
         \/ \E r \in Runs : \/ CreateDraft(r) \/ CreateDraftPartly(r) \/ InstallDraft(r)
                            \/ Publish(r) \/ PublishReplyLost(r)
<1>1. ASSUME NEW r \in Runs,
             StageStep(r), ~CreateDraft(r), ~CreateDraftPartly(r)
      PROVE  UNCHANGED <<status, assets, tested, publisher>>
  BY <1>1 DEF StageStep, Build, BuildFails, PassGates, ReuseRelease, UseBuild,
     CreateTag, ResumeRelease, VerifyDraft, ReleaseJobFails, github
<1>2. ASSUME NEW r \in Runs,
             PublishStep(r), ~InstallDraft(r), ~Publish(r), ~PublishReplyLost(r)
      PROVE  UNCHANGED <<status, assets, tested, publisher>>
  BY <1>2 DEF PublishStep, RecaptureEvidence, RecordPublishing, ConfirmPublic,
     PublishJobFails, RetainState, LoseRunner, github
<1>3. ASSUME NEW r \in Runs, RecordStep(r)
      PROVE  UNCHANGED <<status, assets, tested, publisher>>
  BY <1>3 DEF RecordStep, InstallPublic, InstallFails, FindRecord, OpenRecordPr,
     CheckRecordPr, MergeRecord, MergeReplyLost, FinalizeFails, Chain, ChainFails,
     github
<1>4. ASSUME Environment, \A keepTag \in BOOLEAN : ~DiscardDraft(keepTag)
      PROVE  UNCHANGED <<status, assets, tested, publisher>>
  BY <1>4 DEF Environment, MoveMain, MoveFeed, SetOperator, RecoverRecord, Dispatch,
     RerunFailedJobs, RerunAllJobs, github
<1>5. ASSUME NEW r \in Runs, Start(r)
      PROVE  UNCHANGED <<status, assets, tested, publisher>>
  BY <1>5 DEF Start, github
<1>6. CASE UNCHANGED vars
  BY <1>6 DEF vars, github
<1> QED
  BY <1>1, <1>2, <1>3, <1>4, <1>5, <1>6 DEF Next, RunStep

\* Each of them is a step of ImmutableRelease.
LEMMA AbstractStep == ASSUME IInv, [Next]_vars PROVE [Release!Next]_(Release!vars)
<1> USE DEF IInv, TypeOK, Release!Next, Release!vars
<1>1. CASE UNCHANGED <<status, assets, tested, publisher>>
  BY <1>1
<1>2. ASSUME NEW k \in BOOLEAN, DiscardDraft(k) PROVE Release!Discard
  BY <1>2 DEF DiscardDraft, Release!Discard
<1>3. ASSUME NEW r \in Runs, CreateDraft(r) PROVE \E a \in Artifacts \cup {None} : Release!Stage(a)
  <2>1. disk[r].bytes \in Artifacts \cup {None}
    BY DEF Disks
  <2> QED
    BY <1>3, <2>1 DEF CreateDraft, Release!Stage
<1>4. ASSUME NEW r \in Runs, CreateDraftPartly(r) PROVE Release!Stage(None)
  BY <1>4 DEF CreateDraftPartly, Release!Stage
<1>5. ASSUME NEW r \in Runs, InstallDraft(r) PROVE \E a \in Artifacts : Release!Install(a)
  BY <1>5 DEF InstallDraft, HandoffIsSet, Release!Install, github
<1>6. ASSUME NEW r \in Runs, Publish(r) \/ PublishReplyLost(r)
      PROVE  Release!Publish \/ UNCHANGED Release!vars
  <2>1. assets = handoff[r] /\ handoff[r] \in tested
    BY <1>6 DEF Publish, PublishReplyLost, Installed, HasDraft, PublishJob
  <2> QED
    BY <1>6, <2>1 DEF Publish, PublishReplyLost, MakePublic, Release!Publish
<1> QED
  BY <1>1, <1>2, <1>3, <1>4, <1>5, <1>6, StagingSteps

\* Publication comes right after the evidence was found unmoved.
LEMMA FreshPublication ==
  ASSUME IInv, [Next]_vars, NEW r \in Runs, publisher # r, publisher' = r
  PROVE  disk[r].began = admitted[r]
<1>1. PICK q \in Runs : Publish(q) \/ PublishReplyLost(q)
  BY StagingSteps DEF DiscardDraft, CreateDraft, CreateDraftPartly, InstallDraft, github
<1>2. q = r /\ status = "draft" /\ step[r] = "published"
  BY <1>1, NoneIsNoValue DEF Publish, PublishReplyLost, MakePublic, IInv, TypeOK
<1> QED
  BY <1>2 DEF IInv, Fresh

-----------------------------------------------------------------------------
(* The theorems.                                                           *)

\* The invariant holds in every state of every behaviour.
THEOREM Invariance == Spec => []IInv
<1>1. Init => IInv
  <2> SUFFICES ASSUME Init PROVE IInv
    OBVIOUS
  <2>1. 0 \in Commits /\ Clean \in Disks
    BY BoundsAreNaturals DEF Commits, Disks, Clean, TxnStates
  <2>2. TypeOK
    BY <2>1, BoundsAreNaturals DEF Init, TypeOK, Steps, Waiting, Entries
  <2>3. HandoffIsSet /\ OneRunAtATime
    BY DEF Init, HandoffIsSet, OneRunAtATime, Active, Waiting
  <2>4. Provenance
    BY DEF Init, Provenance
  <2>5. Installed
    BY DEF Init, Installed, HasDraft, PublishedBytesWereInstalled, PublishJob, FinalizeJob
  <2>6. Completed
    BY DEF Init, Completed, HasPublished, Clean, FinalizeJob, RecordNamesPublicBytes, RecordedClaimIsTrue
  <2>7. Fresh
    <3>1. ASSUME NEW r \in Runs PROVE step[r] = "idle" /\ admitted[r] = 0 /\ feed = 0
      BY DEF Init
    <3>2. 0 <= 0
      OBVIOUS
    <3> QED
      BY <3>1, <3>2 DEF Fresh, PublishJob
  <2>8. LiveIsTracked
    BY NoneIsNoValue DEF Init, LiveIsTracked, LiveIsKnown
  <2> QED
    BY <2>2, <2>3, <2>4, <2>5, <2>6, <2>7, <2>8 DEF IInv
<1>2. IInv /\ [Next]_vars => IInv'
  BY TypeStep, MutexStep, ProvenanceStep, InstalledStep, CompletedStep, FreshStep, LiveStep
  DEF IInv, TypeInv
<1> QED
  BY <1>1, <1>2, PTL DEF Spec

\* Every variable keeps its type.
THEOREM TypeCorrectness == Spec => []TypeOK
<1>1. IInv => TypeOK
  BY DEF IInv
<1> QED
  BY <1>1, Invariance, PTL

\* The concurrency group serializes the runs of a version.
THEOREM RunsAreSerial == Spec => []OneRunAtATime
<1>1. IInv => OneRunAtATime
  BY DEF IInv
<1> QED
  BY <1>1, Invariance, PTL

\* What is public was installed as a draft first.
THEOREM InstalledBeforePublic == Spec => []PublishedBytesWereInstalled
<1>1. IInv => PublishedBytesWereInstalled
  BY DEF IInv, Installed
<1> QED
  BY <1>1, Invariance, PTL

\* What is public is the build of the tagged commit, and its notes say so.
THEOREM PublicIsTagged == Spec => []PublishedIsTheTaggedBuild
<1>1. ASSUME IInv, status = "public" PROVE assets # None
  BY <1>1, NoneIsNoValue DEF IInv, TypeOK, Installed, PublishedBytesWereInstalled
<1>2. IInv => PublishedIsTheTaggedBuild
  BY <1>1 DEF IInv, Provenance, PublishedIsTheTaggedBuild
<1> QED
  BY <1>2, Invariance, PTL

\* The record on main names the public release and the bytes it holds.
THEOREM RecordIsTrue == Spec => []RecordNamesPublicBytes
<1>1. IInv => RecordNamesPublicBytes
  BY DEF IInv, Completed
<1> QED
  BY <1>1, Invariance, PTL

\* A run that retains "recorded" is right: the record is on main and names the bytes
\* that are public, however other runs of the version interleave with it.
THEOREM RecordedClaimHolds == Spec => []RecordedClaimIsTrue
<1>1. IInv => RecordedClaimIsTrue
  BY DEF IInv, Completed
<1> QED
  BY <1>1, Invariance, PTL

\* While runners live, a publication is never retained as unpublished.
THEOREM PublicationIsKnown == ASSUME ~RunnersDie PROVE Spec => []LiveIsKnown
<1>1. IInv => LiveIsKnown
  BY DEF IInv, LiveIsTracked
<1> QED
  BY <1>1, Invariance, PTL

\* No publication rests on evidence that had moved when its job began.
THEOREM EvidenceIsFresh == Spec => PublicationIsFresh
<1>1. IInv /\ [Next]_vars =>
        [\A r \in Runs : publisher # r /\ publisher' = r => disk[r].began = admitted[r]]_vars
  BY FreshPublication
<1> QED
  BY <1>1, Invariance, PTL DEF Spec, PublicationIsFresh

\* The workflow implements the immutable release.
THEOREM Refinement == Spec => ImplementsImmutableRelease
<1>1. Init => Release!Init
  BY DEF Init, Release!Init
<1>2. IInv /\ [Next]_vars => [Release!Next]_(Release!vars)
  BY AbstractStep
<1> QED
  BY <1>1, <1>2, Invariance, PTL DEF Spec, ImplementsImmutableRelease, Release!Spec
=============================================================================
