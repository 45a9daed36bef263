---------------------------- MODULE EventRecords ----------------------------
(***************************************************************************)
(* The durable record of an action (autorelease/_state.py): the states it  *)
(* moves through, and what every reader of one demands of its history.     *)
(*                                                                         *)
(* A record is [key, state, history, policy]: history is a sequence of     *)
(* [from, to, kind, version], kind and version naming the evidence of the  *)
(* step, and policy the support policy a lifecycle record is bound to.     *)
(***************************************************************************)
EXTENDS WatchRules, Sequences

LegalEventTransitions ==
  [detected                |-> {"php_bin_ready", "blocked", "needs_human"},
   php_bin_ready           |-> {"mise_ready", "release_requested", "blocked", "needs_human"},
   mise_ready              |-> {"release_requested", "complete", "blocked", "needs_human"},
   release_requested       |-> {"released", "blocked", "needs_human"},
   released                |-> {"public_install_verified", "blocked", "needs_human"},
   public_install_verified |-> {"complete", "blocked", "needs_human"},
   blocked                 |-> {"detected", "php_bin_ready", "mise_ready", "release_requested",
                                "needs_human"},
   needs_human             |-> {"detected", "php_bin_ready", "mise_ready", "release_requested",
                                "blocked"},
   complete                |-> {}]

EventStates == DOMAIN LegalEventTransitions

NewRecord(key, state, policy) ==
  [key |-> key, state |-> state, history |-> <<>>, policy |-> policy]

\* transition_event
Transition(record, target, kind, version) ==
  [record EXCEPT !.state = target,
                 !.history = Append(@, [from |-> record.state, to |-> target,
                                        kind |-> kind, version |-> version])]

(***************************************************************************)
(* The readers.                                                            *)
(***************************************************************************)
ValidHistory(record) ==
  LET h == record.history IN
  /\ h # <<>>
  /\ \A i \in DOMAIN h :
       /\ h[i].to \in LegalEventTransitions[h[i].from]
       /\ i > 1 => h[i].from = h[i - 1].to
  /\ h[Len(h)].to = record.state

ValidCompletedRecord(record) == record.state = "complete" /\ ValidHistory(record)

ValidReadinessRecord(record) ==
  /\ record.state = "php_bin_ready"
  /\ ValidHistory(record)
  /\ record.key[1] \in LifecycleActions
  /\ Len(record.history) = 1
  /\ record.history[1].from = "detected"
  /\ record.history[1].kind = "validated_merge"

ReleaseRecordKinds == {"published_release", "published_immutable_release"}

\* release_event_recorded: a complete record that names anything else
\* contradicts the release.
NamesRelease(record, version) ==
  \E i \in DOMAIN record.history :
    record.history[i].kind \in ReleaseRecordKinds /\ record.history[i].version = version

ReleaseEventRecorded(record, version) ==
  record.state = "complete" /\ ValidHistory(record) /\ NamesRelease(record, version)

ContradictsRelease(record, version) ==
  record.state = "complete" /\ ~ReleaseEventRecorded(record, version)

(***************************************************************************)
(* What the workflows write.                                               *)
(***************************************************************************)
\* The implementation run's readiness record.
ReadinessRecord(key, policy) ==
  Transition(NewRecord(key, "detected", policy), "php_bin_ready", "validated_merge", None)

CompletedAtOnce(record) ==
  Transition(record, "complete", "eol_support_and_publication_cleanup_verified", None)

\* The watcher's completion of a retirement, in one commit.
CompletedRetirement(record) ==
  LET ready == IF record.state = "php_bin_ready"
               THEN Transition(record, "mise_ready", "mise_eol_readiness", None) ELSE record
  IN Transition(ready, "complete", "eol_support_and_publication_cleanup_verified", None)

\* The publish run starts from the new branch's record, or from a new one.
RequestedRelease(record) ==
  LET ready == IF record.state = "php_bin_ready"
               THEN Transition(record, "mise_ready", "mise_readiness", None) ELSE record
  IN Transition(ready, "release_requested", "admitted_release_intent", None)

CompletedRelease(record, version, kind) ==
  Transition(Transition(Transition(record, "released", kind, version),
                        "public_install_verified", "public_installs", version),
             "complete", "release_transaction", None)

\* The watcher's recovery of a published release no record names.
RecoveredRecord(key, version) ==
  CompletedRelease(NewRecord(key, "release_requested", None), version, "published_immutable_release")
=============================================================================
