------------------------------- MODULE Status -------------------------------
(***************************************************************************)
(* The branch status document (autorelease/_status.py) and the rules every *)
(* reader of one applies (validate_status_document).                       *)
(*                                                                         *)
(* It is derived from what one watcher run retained: captures, the watch   *)
(* decision or None, the admitted plan or None, the reviewed snapshot or   *)
(* None, and the recipe identity of each branch.  Dates, URLs and wording  *)
(* are left out; the summary is the branches in each state.                *)
(*                                                                         *)
(* The page reads the captures again, with readers of its own.  A capture  *)
(* here also says whether it is                                            *)
(*   dated   the feed gives the date of its release in the reviewed form,  *)
(*           the list a publication time for every published release tag   *)
(*   empty   the body is the JSON value null, which has no reviewed shape  *)
(* Neither the classifier nor the watch decision looks at either.          *)
(***************************************************************************)
EXTENDS Classifier

StatusWorkActions == {"new_patch", "new_branch", "branch_eol", "recipe_rebuild"}
ReleasingFamilies == {"new_patch", "new_branch", "recipe_rebuild"}
BranchStates == {"current", "behind", "releasing", "unknown"}

(***************************************************************************)
(* _Reader, _upstream, _published, _newest_release                         *)
(***************************************************************************)
Trusted(captures, id) == captures[id].status = 200 /\ captures[id].shaped

\* A feed without its date, like a list with one release whose time is missing, is
\* not read at all: what is left of the list could end in an older release.
PageTrusts(captures, id) == Trusted(captures, id) /\ captures[id].dated

Upstream(captures, branch) ==
  IF PageTrusts(captures, Feed(branch)) THEN BranchFeedVersion(captures, branch) ELSE None

AnyRelease(captures, branch) ==
  LET on == {r.v : r \in {s \in captures[Releases].body : s.v.branch = branch}}
  IN IF on = {} THEN None ELSE CHOOSE v \in on : TRUE

NewestRelease(captures, branch) ==
  LET on == {r.v : r \in {s \in captures[Releases].body : s.v.branch = branch}}
  IN IF on = {} THEN None ELSE CHOOSE v \in on : \A u \in on : ~Above(u, v)

PhpBin(captures, branch) ==
  IF PageTrusts(captures, Releases) THEN NewestRelease(captures, branch) ELSE None

\* A page that parses; anything else makes every support state unknown.
Support(captures, branch) ==
  LET rows == SupportRows(captures[Page]) IN
  IF captures[Page].status = 200 /\ PageReads(captures[Page]) /\ branch \in DOMAIN rows
  THEN rows[branch].state ELSE None

ReadCaptures(captures) == {Page, Releases} \cup {id \in DOMAIN captures : IsBranchFeed(id)}

\* json_body has one None for a body it could not read, which it noted, and for null.
Unreadable(captures) ==
  {id \in ReadCaptures(captures) :
     /\ captures[id].status = 200
     /\ IF id = Page THEN ~PageReads(captures[id])
        ELSE ~captures[id].empty /\ ~PageTrusts(captures, id)}

(***************************************************************************)
(* One row per branch whose feed was captured.                             *)
(***************************************************************************)
InProgress(decision, plan) ==
  (IF decision = None THEN {} ELSE decision.incomplete) \cup
  (IF plan # None /\ plan.action \in StatusWorkActions THEN {plan.key} ELSE {})

ReleasingBranches(keys) == {k[2] : k \in {key \in keys : key[1] \in ReleasingFamilies}}

Ships(phpBin, upstream) == phpBin # None /\ phpBin.patch >= upstream.patch

BranchStatus(captures, branch, inProgress) ==
  LET upstream == Upstream(captures, branch) IN
  IF branch \in ReleasingBranches(inProgress) THEN "releasing"
  ELSE IF upstream = None \/ ~PageTrusts(captures, Releases) THEN "unknown"
  ELSE IF Ships(PhpBin(captures, branch), upstream) THEN "current" ELSE "behind"

\* Nothing is claimed about rebuilds from a capture with any unhealthy source.
RebuildDue(captures, branch, identity) ==
  IF PageTrusts(captures, Releases) /\ Unhealthy(captures) = {} /\ branch \in DOMAIN identity
  THEN PendingRebuild(captures[Releases].body, [b \in {branch} |-> identity[b]]) # None
  ELSE None

BranchRow(captures, branch, inProgress, identity) ==
  [branch |-> branch, status |-> BranchStatus(captures, branch, inProgress),
   upstream |-> Upstream(captures, branch), phpBin |-> PhpBin(captures, branch),
   rebuildDue |-> RebuildDue(captures, branch, identity),
   supportState |-> Support(captures, branch)]

Summary(rows) == [state \in BranchStates |-> {row.branch : row \in {r \in rows : r.status = state}}]

PhpBinCell(row, health) ==
  IF row.phpBin # None THEN row.phpBin
  ELSE IF Releases \in health.unhealthy \cup health.unreadable THEN "unknown" ELSE "none"

Badges(rows, health) ==
  [branch \in {row.branch : row \in rows} |->
     LET row == CHOOSE r \in rows : r.branch = branch IN <<PhpBinCell(row, health), row.status>>]

StatusDocument(captures, decision, plan, snapshot, identity) ==
  LET inProgress == InProgress(decision, plan)
      rows == {BranchRow(captures, id[2], inProgress, identity) :
                 id \in {i \in DOMAIN captures : IsBranchFeed(i)}}
      health == [unhealthy |-> Unhealthy(captures), unreadable |-> Unreadable(captures)]
  IN [trigger |-> IF decision = None THEN None ELSE decision.trigger,
      action |-> IF plan = None THEN None ELSE plan.action,
      key |-> IF plan = None THEN None ELSE plan.key,
      inProgress |-> inProgress,
      rebuild |-> IF decision = None \/ (decision # None /\ decision.rebuild = None) THEN None
                  ELSE ReleaseKey(decision.rebuild),
      changed |-> IF snapshot = None THEN None ELSE ChangedCaptures(captures, snapshot),
      health |-> health, rows |-> rows,
      summary |-> Summary(rows), badges |-> Badges(rows, health)]

(***************************************************************************)
(* validate_status_document                                                *)
(***************************************************************************)
KeyNamesAction(action, key) == key[1] = action

\* EMAIL_ACTION_KEY_PREFIXES: a stop may carry any key.
KeyFitsAction(action, key) == action \notin {"blocked", "needs_human"} => key[1] = action

ValidStatusRow(row) ==
  /\ row.status \in BranchStates
  /\ row.upstream # None => row.upstream.branch = row.branch
  /\ row.phpBin # None => row.phpBin.branch = row.branch
  /\ row.status = "current" =>
       row.upstream # None /\ row.phpBin # None /\ row.phpBin.patch >= row.upstream.patch
  /\ row.status = "behind" =>
       /\ row.upstream # None
       /\ row.phpBin = None \/ (row.phpBin # None /\ row.phpBin.patch < row.upstream.patch)
  /\ row.supportState \in SupportStates \cup {None}

ValidStatusDocument(document) ==
  /\ document.action = None <=> document.key = None
  /\ document.action # None => KeyFitsAction(document.action, document.key)
  /\ document.rebuild # None => document.rebuild[1] = "recipe_rebuild"
  /\ document.rows # {}
  /\ \A row \in document.rows : ValidStatusRow(row)
  /\ document.summary = Summary(document.rows)
  /\ document.badges = Badges(document.rows, document.health)
=============================================================================
