------------------------------ MODULE Evidence ------------------------------
(***************************************************************************)
(* The evidence a plan rests on (autorelease/_evidence.py): the identities *)
(* of the captures, what they say about a release, and whether the truth a *)
(* plan was admitted on still holds when it is published.                  *)
(*                                                                         *)
(* A capture set maps capture ids to [status, shaped, body]: shaped is     *)
(* whether the body has its reviewed shape.  The digest of a capture is    *)
(* the capture itself, and the digest of a manifest the whole set.  Bodies *)
(* are:                                                                    *)
(*   a branch feed      the patch number it names                          *)
(*   the aggregate feed the version it names for each major it lists       *)
(*   supported-versions a sequence of rows [branch, state, dates]          *)
(*   php_bin_releases   the published releases, drafts projected away      *)
(*   the others         an opaque value                                    *)
(* Branch 8.5 is 805, so that branches sort and major 8 is 805 \div 100.   *)
(***************************************************************************)
EXTENDS WatchRules, Sequences

Page == <<"php_supported_versions">>
Aggregate == <<"php_release_feed">>
Tags == <<"php_source_tags">>
Releases == <<"php_bin_releases">>
State == <<"php_bin_state">>
MiseReleases == <<"mise_php_releases">>
MiseState == <<"mise_php_state">>

FixedCaptures == {Page, Aggregate, Tags, Releases, State, MiseReleases, MiseState}
RuntimeEvidence == {<<"evidence_manifest">>, <<"watch_decision">>}

Feed(branch) == <<"php_release_feed", branch>>
IsReleaseFeed(id) == id[1] = "php_release_feed"
IsBranchFeed(id) == IsReleaseFeed(id) /\ Len(id) = 2

\* None stands for an absent value: it is no number, version, capture id or action key,
\* and none of the two places of a manifest and a decision that plans cite.
ASSUME NoneIsNoValue ==
  /\ None \notin Nat /\ None \notin [branch : Nat, patch : Nat, rev : Nat]
  /\ None \notin FixedCaptures /\ None \notin {"php_release_feed"} \X Nat
  /\ None \notin {"trigger", "manifestDigest"}
  /\ None \notin {"new_branch"} \X Nat
  /\ None \notin {"branch_eol", "new_patch"} \X Nat \X Nat
  /\ None \notin {"recipe_rebuild"} \X Nat \X Nat \X Nat

Major(branch) == branch \div 100
StableReleaseActions == {"new_patch", "new_branch"}

\* The fixed sources, and one feed for each branch the accepted policy maintains.
EvidenceSources(maintained) == FixedCaptures \cup {Feed(b) : b \in maintained}

\* Exactly the fixed sources and any branch feeds.
ValidCaptureIds(ids) == {id \in ids : ~IsBranchFeed(id)} = FixedCaptures

Unhealthy(captures) == {id \in DOMAIN captures : captures[id].status # 200}

\* What changes a capture's identity: entries only some tokens can see do not.
ReleaseIdentity(releases) == Published(releases)

(***************************************************************************)
(* The feeds.                                                              *)
(***************************************************************************)
Version(branch, patch) == [branch |-> branch, patch |-> patch, rev |-> 0]

\* The captures that can prove a version: the aggregate and its own branch's feed.
ProofFeeds(v) == {Aggregate, Feed(v.branch)}

AggregateVersion(captures, major) ==
  IF major \in DOMAIN captures[Aggregate].body
  THEN captures[Aggregate].body[major] ELSE None

BranchFeedVersion(captures, branch) ==
  IF Feed(branch) \in DOMAIN captures
  THEN Version(branch, captures[Feed(branch)].body) ELSE None

\* What the two feeds say about one branch.
FeedVersions(captures, branch) ==
  {v \in {BranchFeedVersion(captures, branch), AggregateVersion(captures, Major(branch))} :
     v # None /\ v.branch = branch}

SupersededBy(captures, v) == {w \in FeedVersions(captures, v.branch) : w.patch > v.patch}

(***************************************************************************)
(* An item of a plan's evidence is [id, at, digest]: at locates the value  *)
(* in the body, and the value must be there.                               *)
(***************************************************************************)
Cite(captures, id, at) ==
  [id |-> id, at |-> at,
   digest |-> IF id \in RuntimeEvidence THEN None ELSE captures[id]]

\* resolve_json_pointer and the text locator: the value an item stands for, or None.
Resolved(captures, item) ==
  CASE IsBranchFeed(item.id) -> Version(item.id[2], captures[item.id].body)
    [] item.id = Aggregate   -> AggregateVersion(captures, item.at)
    [] item.id = Releases    ->
         IF \E r \in captures[Releases].body : r.v = item.at THEN item.at ELSE None
    [] item.id = Page        ->
         IF \E i \in DOMAIN captures[Page].body : captures[Page].body[i].branch = item.at
         THEN item.at ELSE None
    [] OTHER                 -> item.at

\* The two files a lifecycle edit may change.
PolicyPath == <<"support-policy.json">>
ListPath(branch) == <<"expected-modules", branch>>

Captured(evidence) == {item \in evidence : item.id \notin RuntimeEvidence}
Cited(plan) == {item.id : item \in Captured(plan.evidence)}

(***************************************************************************)
(* validate_recaptured_evidence.  A release on another branch moves feeds  *)
(* that say nothing about this version; they do not stop a publication.    *)
(***************************************************************************)
Unrelated(plan, ids) ==
  LET own == Feed(plan.version.branch)
      bound == {own} \cup (IF own \in Cited(plan) THEN {} ELSE {Aggregate})
  IN {id \in ids : IsReleaseFeed(id)} \ bound

BoundCaptures(plan, ids) ==
  IF plan.action \in StableReleaseActions
  THEN (Cited(plan) \ Unrelated(plan, ids)) \cup ({Feed(plan.version.branch)} \cap ids)
  ELSE Cited(plan)

ValidManifest(captures) == ValidCaptureIds(DOMAIN captures) /\ Unhealthy(captures) = {}

RecaptureHolds(plan, admitted, current) ==
  /\ ValidManifest(admitted) /\ ValidManifest(current)
  /\ DOMAIN admitted = DOMAIN current
  /\ Cited(plan) # {}
  /\ \A item \in Captured(plan.evidence) :
       item.id \in DOMAIN admitted /\ admitted[item.id] = item.digest
  /\ plan.action \in StableReleaseActions => Cited(plan) \cap ProofFeeds(plan.version) # {}
  /\ \A id \in BoundCaptures(plan, DOMAIN admitted) : current[id] = admitted[id]

(***************************************************************************)
(* The snapshot of reviewed evidence on main: what every later run is      *)
(* compared with, and only ever a healthy capture set.                     *)
(***************************************************************************)
ValidEvidenceState(snapshot) == ValidManifest(snapshot)

ChangedCaptures(captures, snapshot) ==
  {id \in DOMAIN captures \cup DOMAIN snapshot :
     \/ id \notin DOMAIN captures \cap DOMAIN snapshot
     \/ captures[id] # snapshot[id]}
=============================================================================
