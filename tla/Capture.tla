------------------------------ MODULE Capture ------------------------------
(***************************************************************************)
(* One capture of the GitHub releases list (_fetch, _fetch_source and      *)
(* capture_evidence of autorelease/_evidence.py), by the read-only watcher *)
(* and by the publish job, whose write token is also shown drafts.  The    *)
(* list is read page by page while people and runs change it; an answer    *)
(* may fail and is then asked for again, or may be no list at all.         *)
(***************************************************************************)
EXTENDS Integers, Sequences, SequencesExt

CONSTANTS
  Releases,    \* the releases that may ever be listed (a bound)
  Listed,      \* the list before anything happens, newest first
  PageSize,    \* per_page
  MaxPages     \* PAGINATED_CAPTURE_MAX_PAGES

Readers == {"watcher", "publish"}
Attempts == 3

ASSUME CaptureAssumption ==
  /\ PageSize \in Nat \ {0} /\ MaxPages \in Nat \ {0}
  /\ Listed \in Seq(Releases)

VARIABLES
  list,     \* the list newest first, each entry [id, draft]
  read      \* the capture of each reader

vars == <<list, read>>

Ids(entries) == [i \in DOMAIN entries |-> entries[i].id]

\* One pass over the entries keeps those that are no drafts, in their order.
WithoutDrafts(entries) ==
  LET kept[n \in 0..Len(entries)] ==
        IF n = 0 THEN <<>>
        ELSE IF entries[n].draft THEN kept[n - 1] ELSE Append(kept[n - 1], entries[n])
  IN kept[Len(entries)]

\* Drafts are listed only to a token with push access.
Visible(reader) == IF reader = "publish" THEN list ELSE WithoutDrafts(list)

WholeBody(items) == Ids(items)

\* project_release_identity
Projected(items) == Ids(WithoutDrafts(items))

PublicNow == Projected(list)

(***************************************************************************)
(* A capture: result is "idle" before it and "none" while it reads, then   *)
(* "healthy" with a body, "failed" (recorded with status 0) or "misshapen" *)
(* (kept as it came).  atStart is the list it began on, and moved whether  *)
(* the list changed.                                                       *)
(***************************************************************************)
Idle ==
  [page |-> 1, items |-> <<>>, attempt |-> 1, result |-> "idle", body |-> <<>>,
   atStart |-> <<>>, moved |-> FALSE]

StartCapture(reader) ==
  /\ read[reader].result = "idle"
  /\ read' = [read EXCEPT ![reader] = [Idle EXCEPT !.result = "none", !.atStart = PublicNow]]
  /\ UNCHANGED list

PageOf(entries, n) ==
  SubSeq(entries, (n - 1) * PageSize + 1,
         IF n * PageSize < Len(entries) THEN n * PageSize ELSE Len(entries))

Truncated(page, n) == Len(page) < PageSize \/ n = MaxPages

\* A short page is the last one, whatever the limit.
IsLastPage(page, n) == Len(page) < PageSize

\* Pages are joined in order; a list still full on the last page fails the capture.
ReadPage(reader) ==
  LET r == read[reader]
      page == PageOf(Visible(reader), r.page)
      items == r.items \o page
  IN /\ r.result = "none"
     /\ read' = [read EXCEPT ![reader] =
          IF IsLastPage(page, r.page)
          THEN [r EXCEPT !.items = <<>>, !.result = "healthy", !.body = Projected(items)]
          ELSE IF r.page = MaxPages THEN [r EXCEPT !.items = <<>>, !.result = "failed"]
          ELSE [r EXCEPT !.items = items, !.page = @ + 1, !.attempt = 1]]
     /\ UNCHANGED list

\* A timeout, a 408, 429 or 5xx, a connection error: tried three times in all.
AnswerLost(reader) ==
  LET r == read[reader] IN
  /\ r.result = "none"
  /\ read' = [read EXCEPT ![reader] =
                IF r.attempt < Attempts THEN [r EXCEPT !.attempt = @ + 1]
                ELSE [r EXCEPT !.items = <<>>, !.result = "failed"]]
  /\ UNCHANGED list

\* Any other error ends the capture; so does a page that is no list, but the first.
AnswerRejected(reader) ==
  LET r == read[reader] IN
  /\ r.result = "none"
  /\ \E result \in IF r.page = 1 THEN {"failed", "misshapen"} ELSE {"failed"} :
       read' = [read EXCEPT ![reader].items = <<>>, ![reader].result = result]
  /\ UNCHANGED list

(***************************************************************************)
(* The list.  A published release is immutable and stays.                  *)
(***************************************************************************)
Changes(entries) ==
  /\ list' = entries
  /\ read' = [reader \in Readers |->
                [read[reader] EXCEPT !.moved = @ \/ read[reader].result = "none"]]

StageDraft(id) ==
  /\ id \notin {list[i].id : i \in DOMAIN list}
  /\ Changes(<<[id |-> id, draft |-> TRUE]>> \o list)

PublishDraft(i) ==
  /\ list[i].draft
  /\ Changes([list EXCEPT ![i].draft = FALSE])

DiscardDraft(i) ==
  /\ list[i].draft
  /\ Changes(RemoveAt(list, i))

Init ==
  /\ list = [i \in DOMAIN Listed |-> [id |-> Listed[i], draft |-> FALSE]]
  /\ read = [reader \in Readers |-> Idle]

Next ==
  \/ \E reader \in Readers :
       StartCapture(reader) \/ ReadPage(reader) \/ AnswerLost(reader) \/ AnswerRejected(reader)
  \/ \E id \in Releases : StageDraft(id)
  \/ \E i \in DOMAIN list : PublishDraft(i) \/ DiscardDraft(i)

Spec == Init /\ [][Next]_vars

(***************************************************************************)
(* Properties.                                                             *)
(***************************************************************************)
\* Rebuild selection and record recovery see every release (control.py:226): what
\* was public when the watcher began to read is in a healthy capture of it, although
\* the list moves between two pages and some answers are lost.
WatcherSeesEveryRelease ==
  read["watcher"].result = "healthy" =>
    ToSet(read["watcher"].atStart) \subseteq ToSet(read["watcher"].body)

\* The read-only watcher and the write token capture the same body from the same
\* list, drafts or not and however the pages split: a draft never stops a recapture.
TokensAgree ==
  (\A reader \in Readers : read[reader].result = "healthy" /\ ~read[reader].moved)
    => (read["watcher"].atStart = read["publish"].atStart
          => read["watcher"].body = read["publish"].body)
=============================================================================
