------------------------- MODULE EventRecordsProofs -------------------------
(***************************************************************************)
(* Proofs about event records: every record a workflow writes is one its   *)
(* readers accept, for any key, policy, version and evidence.              *)
(***************************************************************************)
EXTENDS EventRecords, SequenceTheorems, TLAPS

Steps(h) == {h[i] : i \in DOMAIN h}

\* A record in the shape the workflows write, whose history, if it has one, is legal.
IsRecord(record) ==
  /\ record = [key |-> record.key, state |-> record.state,
               history |-> record.history, policy |-> record.policy]
  /\ record.history \in Seq(Steps(record.history))
  /\ record.history = <<>> \/ ValidHistory(record)

\* transition_event keeps a history legal: what it appends starts where the record
\* stood and ends where it stands.
THEOREM TransitionIsLegal ==
  ASSUME NEW record, IsRecord(record), NEW kind, NEW version,
         NEW target \in LegalEventTransitions[record.state]
  PROVE  LET moved == Transition(record, target, kind, version) IN
         /\ IsRecord(moved) /\ ValidHistory(moved)
         /\ moved.state = target /\ moved.key = record.key /\ moved.policy = record.policy
         /\ Len(moved.history) = Len(record.history) + 1
         /\ moved.history[Len(record.history) + 1].from = record.state
         /\ moved.history[Len(record.history) + 1].kind = kind
         /\ moved.history[Len(record.history) + 1].version = version
         /\ \A i \in 1..Len(record.history) : moved.history[i] = record.history[i]
<1> DEFINE h == record.history
           step == [from |-> record.state, to |-> target, kind |-> kind, version |-> version]
           S == Steps(h) \cup {step}
           moved == Transition(record, target, kind, version)
<1>1. h \in Seq(S) /\ step \in S
  <2>1. h \in Seq(Steps(h))
    BY DEF IsRecord
  <2>2. \A i \in 1..Len(h) : h[i] \in S
    BY <2>1, LenProperties DEF Steps
  <2> QED BY <2>1, <2>2, IsASeq, LenProperties
<1>2. moved = [key |-> record.key, state |-> target, history |-> Append(h, step),
               policy |-> record.policy]
  <2> DEFINE r == [key |-> record.key, state |-> record.state, history |-> h,
                   policy |-> record.policy]
  <2>1. record = r
    BY DEF IsRecord
  <2>2. moved = [r EXCEPT !.state = target, !.history = Append(r.history, step)]
    BY <2>1 DEF Transition
  <2> QED BY <2>2
<1>3. /\ Len(Append(h, step)) = Len(h) + 1
      /\ \A i \in 1..Len(h) : Append(h, step)[i] = h[i]
      /\ Append(h, step)[Len(h) + 1] = step
      /\ Append(h, step) \in Seq(S)
      /\ Append(h, step) # <<>>
  BY <1>1, AppendProperties
<1>4. Len(h) \in Nat /\ DOMAIN h = 1..Len(h) /\ DOMAIN Append(h, step) = 1..(Len(h) + 1)
  BY <1>1, <1>3, LenProperties
<1>5. Append(h, step) \in Seq(Steps(Append(h, step)))
  <2>1. \A i \in 1..Len(Append(h, step)) : Append(h, step)[i] \in Steps(Append(h, step))
    BY <1>3, <1>4 DEF Steps
  <2> QED BY <2>1, <1>3, IsASeq, LenProperties
<1>6. ValidHistory(moved)
  <2>1. \A i \in 1..Len(h) :
          /\ h[i].to \in LegalEventTransitions[h[i].from]
          /\ i > 1 => h[i].from = h[i - 1].to
    BY <1>4, EmptySeq DEF IsRecord, ValidHistory
  <2>2. Len(h) > 0 => h[Len(h)].to = record.state
    BY <1>4, EmptySeq DEF IsRecord, ValidHistory
  <2>3. \A i \in 1..(Len(h) + 1) :
          LET a == Append(h, step) IN
          /\ a[i].to \in LegalEventTransitions[a[i].from]
          /\ i > 1 => a[i].from = a[i - 1].to
    <3> SUFFICES ASSUME NEW i \in 1..(Len(h) + 1)
                 PROVE  LET a == Append(h, step) IN
                        /\ a[i].to \in LegalEventTransitions[a[i].from]
                        /\ i > 1 => a[i].from = a[i - 1].to
      OBVIOUS
    <3>1. CASE i \in 1..Len(h)
      <4>1. i > 1 => i - 1 \in 1..Len(h)
        BY <3>1, <1>4
      <4> QED BY <3>1, <4>1, <2>1, <1>3
    <3>2. CASE i = Len(h) + 1
      <4>1. i > 1 => Len(h) \in 1..Len(h) /\ i - 1 = Len(h)
        BY <3>2, <1>4
      <4> QED BY <3>2, <4>1, <2>2, <1>3, <1>4
    <3> QED BY <3>1, <3>2, <1>4
  <2> QED BY SMTT(20), <2>3, <1>2, <1>3, <1>4 DEF ValidHistory
<1> QED BY <1>2, <1>3, <1>5, <1>6 DEF IsRecord

LEMMA NewRecordIsRecord ==
  ASSUME NEW key, NEW state, NEW policy
  PROVE  LET new == NewRecord(key, state, policy) IN
         /\ IsRecord(new) /\ new.key = key /\ new.state = state /\ new.policy = policy
         /\ Len(new.history) = 0
<1>1. <<>> \in Seq(Steps(<<>>)) /\ Len(<<>>) = 0
  BY EmptySeq
<1> QED BY <1>1 DEF NewRecord, IsRecord

\* The implementation run's record is one the publish run and the watcher accept as
\* ready: one validated merge, and nothing else.
THEOREM ReadinessIsAccepted ==
  ASSUME NEW key, key[1] \in LifecycleActions, NEW policy
  PROVE  LET record == ReadinessRecord(key, policy) IN
         /\ IsRecord(record) /\ ValidReadinessRecord(record)
         /\ record.key = key /\ record.policy = policy
<1> DEFINE new == NewRecord(key, "detected", policy)
           moved == Transition(new, "php_bin_ready", "validated_merge", None)
<1>1. IsRecord(new) /\ new.key = key /\ new.state = "detected" /\ new.policy = policy
  BY NewRecordIsRecord
<1>2. Len(new.history) + 1 = 1
  BY NewRecordIsRecord
<1>3. "php_bin_ready" \in LegalEventTransitions["detected"]
  BY DEF LegalEventTransitions
<1> HIDE DEF new
<1>4. /\ IsRecord(moved) /\ ValidHistory(moved)
      /\ moved.state = "php_bin_ready" /\ moved.key = key /\ moved.policy = policy
      /\ Len(moved.history) = Len(new.history) + 1
      /\ moved.history[Len(new.history) + 1].from = "detected"
      /\ moved.history[Len(new.history) + 1].kind = "validated_merge"
  BY <1>1, <1>3, TransitionIsLegal
<1>5. /\ Len(moved.history) = 1
      /\ moved.history[1].from = "detected" /\ moved.history[1].kind = "validated_merge"
  BY <1>2, <1>4
<1> QED BY <1>4, <1>5 DEF ReadinessRecord, ValidReadinessRecord, new

\* The watcher's completion of a retirement is accepted as complete, from either
\* state mise-php's answer may find it in.
THEOREM RetirementIsAccepted ==
  ASSUME NEW record, IsRecord(record), record.state \in {"php_bin_ready", "mise_ready"}
  PROVE  LET done == CompletedRetirement(record) IN
         IsRecord(done) /\ ValidCompletedRecord(done) /\ done.key = record.key
<1> DEFINE ready == IF record.state = "php_bin_ready"
                    THEN Transition(record, "mise_ready", "mise_eol_readiness", None) ELSE record
<1>1. "mise_ready" \in LegalEventTransitions["php_bin_ready"]
      /\ "complete" \in LegalEventTransitions["mise_ready"]
  BY DEF LegalEventTransitions
<1>2. IsRecord(ready) /\ ready.state = "mise_ready" /\ ready.key = record.key
  BY <1>1, TransitionIsLegal
<1> HIDE DEF ready
<1>3. LET done == Transition(ready, "complete", "eol_support_and_publication_cleanup_verified", None)
      IN IsRecord(done) /\ ValidHistory(done) /\ done.state = "complete" /\ done.key = record.key
  BY <1>1, <1>2, TransitionIsLegal
<1> QED BY <1>3 DEF CompletedRetirement, ValidCompletedRecord, ready

\* The publish run moves a ready record on to the request it publishes for.
LEMMA RequestIsLegal ==
  ASSUME NEW record, IsRecord(record), record.state = "php_bin_ready"
  PROVE  LET requested == RequestedRelease(record) IN
         IsRecord(requested) /\ requested.state = "release_requested" /\ requested.key = record.key
<1> DEFINE ready == Transition(record, "mise_ready", "mise_readiness", None)
<1>1. "mise_ready" \in LegalEventTransitions["php_bin_ready"]
      /\ "release_requested" \in LegalEventTransitions["mise_ready"]
  BY DEF LegalEventTransitions
<1>2. IsRecord(ready) /\ ready.state = "mise_ready" /\ ready.key = record.key
  BY <1>1, TransitionIsLegal
<1> HIDE DEF ready
<1>3. LET requested == Transition(ready, "release_requested", "admitted_release_intent", None)
      IN IsRecord(requested) /\ requested.state = "release_requested" /\ requested.key = record.key
  BY <1>1, <1>2, TransitionIsLegal
<1> QED BY <1>3 DEF RequestedRelease, ready

\* What a publish run files for its release is complete, legal, and names the
\* version it published: the next run of that version finds it recorded.
THEOREM ReleaseIsAccepted ==
  ASSUME NEW record, IsRecord(record), record.state = "release_requested",
         NEW version, NEW kind \in ReleaseRecordKinds
  PROVE  LET done == CompletedRelease(record, version, kind) IN
         IsRecord(done) /\ ReleaseEventRecorded(done, version) /\ done.key = record.key
<1> DEFINE n == Len(record.history)
           released == Transition(record, "released", kind, version)
           verified == Transition(released, "public_install_verified", "public_installs", version)
           done == Transition(verified, "complete", "release_transaction", None)
<1>1. /\ "released" \in LegalEventTransitions["release_requested"]
      /\ "public_install_verified" \in LegalEventTransitions["released"]
      /\ "complete" \in LegalEventTransitions["public_install_verified"]
  BY DEF LegalEventTransitions
<1>2. n \in Nat
  BY LenProperties DEF IsRecord
<1>3. /\ IsRecord(released) /\ released.state = "released" /\ released.key = record.key
      /\ Len(released.history) = n + 1
      /\ released.history[n + 1].kind = kind /\ released.history[n + 1].version = version
  BY <1>1, TransitionIsLegal
<1> HIDE DEF released
<1>4. /\ IsRecord(verified) /\ verified.state = "public_install_verified"
      /\ verified.key = record.key /\ Len(verified.history) = n + 2
      /\ verified.history[n + 1] = released.history[n + 1]
  <2>1. n + 1 \in 1..Len(released.history) /\ (n + 1) + 1 = n + 2
    BY <1>2, <1>3
  <2> QED BY <1>1, <1>3, <2>1, TransitionIsLegal
<1> HIDE DEF verified
<1>5. /\ IsRecord(done) /\ ValidHistory(done) /\ done.state = "complete"
      /\ done.key = record.key /\ Len(done.history) = n + 3
      /\ done.history[n + 1] = released.history[n + 1]
  <2>1. n + 1 \in 1..Len(verified.history) /\ (n + 2) + 1 = n + 3
    BY <1>2, <1>4
  <2> QED BY SMTT(20), <1>1, <1>4, <2>1, TransitionIsLegal
<1> HIDE DEF done
<1>6. n + 1 \in DOMAIN done.history
  BY <1>2, <1>5, LenProperties DEF IsRecord
<1>7. NamesRelease(done, version)
  BY <1>3, <1>5, <1>6 DEF NamesRelease
<1>8. done = CompletedRelease(record, version, kind)
  BY DEF CompletedRelease, done, verified, released
<1> QED BY <1>5, <1>7, <1>8 DEF ReleaseEventRecorded

\* So is the record the watcher recovers for a release nobody recorded.
THEOREM RecoveryIsAccepted ==
  ASSUME NEW key, NEW version
  PROVE  LET record == RecoveredRecord(key, version) IN
         IsRecord(record) /\ ReleaseEventRecorded(record, version) /\ record.key = key
<1> DEFINE new == NewRecord(key, "release_requested", None)
<1>1. IsRecord(new) /\ new.state = "release_requested" /\ new.key = key
  BY NewRecordIsRecord
<1>2. "published_immutable_release" \in ReleaseRecordKinds
  BY DEF ReleaseRecordKinds
<1> HIDE DEF new
<1>3. LET done == CompletedRelease(new, version, "published_immutable_release") IN
      IsRecord(done) /\ ReleaseEventRecorded(done, version) /\ done.key = key
  BY <1>1, <1>2, ReleaseIsAccepted
<1> QED BY <1>3 DEF RecoveredRecord, new
=============================================================================
