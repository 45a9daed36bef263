----------------------------- MODULE MCWatchDay -----------------------------
(***************************************************************************)
(* WatchDay on small inputs, for TLC: the states of a policy in which one  *)
(* branch stays, one comes or one goes, times the pages, feeds and faults. *)
(***************************************************************************)
EXTENDS WatchDay

Shipped(b, p) == [v |-> Version(b, p), recipe |-> 0, draft |-> FALSE]
Row(b, state) == [branch |-> b, state |-> state, dates |-> <<1, 2, 3>>]
Entering == <<"new_branch", 805>>
Leaving == <<"branch_eol", 804, 3>>
Record(key, state) == [k \in {key} |-> [state |-> state]]
NoRecord == [k \in {} |-> None]

Story(maintained, key, events, releases) ==
  [policy |-> [branches |-> maintained, key |-> key, evidence |-> {None}],
   lists |-> maintained, events |-> events, releases |-> releases]

Old == {Shipped(804, 0)}
Both == {Shipped(804, 0), Shipped(805, 0)}

Stories ==
  {Story({804}, <<"bootstrap">>, NoRecord, Old),
   Story({804}, <<"bootstrap">>, Record(<<"new_patch", 804, 1>>, "complete"), Old \cup {Shipped(804, 1)}),
   Story({804, 805}, Entering, NoRecord, Old),
   Story({804, 805}, Entering, Record(Entering, "php_bin_ready"), Old),
   Story({804, 805}, Entering, Record(Entering, "needs_human"), Old),
   Story({804, 805}, Entering, Record(Entering, "complete"), Both),
   Story({804, 805}, Entering, Record(Entering, "complete"), Both \cup {Shipped(805, 1)}),
   Story({805}, Leaving, NoRecord, Both),
   Story({805}, Leaving, Record(Leaving, "php_bin_ready"), Both)}

Pages ==
  {<<Row(804, "stable"), Row(805, "stable")>>,
   <<Row(804, "eol"), Row(805, "stable")>>,
   <<Row(803, "security"), Row(804, "stable"), Row(805, "stable")>>,
   <<Row(804, "security"), Row(805, "future")>>,
   <<Row(805, "stable")>>}

Named == {Version(b, p) : b \in {804, 805}, p \in 0..1}

Served(body) == [status |-> 200, shaped |-> TRUE, dated |-> TRUE, empty |-> FALSE, body |-> body]
Failed == [Served(None) EXCEPT !.status = 500, !.shaped = FALSE, !.dated = FALSE]

CapturesOf(story, page, own, aggregate) ==
  [id \in EvidenceSources(story.policy.branches) |->
     CASE id = Page         -> Served(page)
       [] id = Aggregate    -> Served([major \in {8} |-> aggregate])
       [] id = Releases     -> Served(story.releases)
       [] IsBranchFeed(id)  -> Served(own[id[2]])
       [] OTHER             -> Served(None)]

Moved(captures, id) == [captures EXCEPT ![id].body = "before"]

\* A kind of day: what became of one capture, what of the snapshot differs (of main's
\* own commit, of a source, or nothing), the recipe, a publish in flight, the gate.
Plain(moved, recipe, inFlight, enabled) ==
  [fault |-> None, on |-> None, moved |-> moved, recipe |-> recipe,
   inFlight |-> inFlight, enabled |-> enabled]

PlainDays ==
  {Plain(moved, f[1], f[2], f[3]) :
     moved \in {None, State, Tags},
     f \in {<<0, FALSE, TRUE>>, <<1, FALSE, TRUE>>, <<0, TRUE, TRUE>>, <<1, FALSE, FALSE>>}}

FaultyDays ==
  {[Plain(Tags, 1, FALSE, TRUE) EXCEPT !.fault = f[1], !.on = f[2]] :
     f \in ({"failed", "misshapen"} \X {Page, Aggregate, Releases, Feed(804), Feed(805)})
          \cup ({"undated", "empty"} \X {Releases, Feed(804), Feed(805)})
          \cup ({"failed"} \X {Tags, MiseState})}

Faulty(captures, day) ==
  IF day.on \notin DOMAIN captures THEN captures
  ELSE [captures EXCEPT ![day.on] =
          CASE day.fault = "failed"    -> Failed
            [] day.fault = "misshapen" -> [@ EXCEPT !.shaped = FALSE]
            [] day.fault = "undated"   -> [@ EXCEPT !.dated = FALSE]
            [] day.fault = "empty"     -> [@ EXCEPT !.shaped = FALSE, !.dated = FALSE, !.empty = TRUE]]

DayOf(story, captures, day) ==
  [captures |-> Faulty(captures, day),
   snapshot |-> IF day.moved = None THEN captures ELSE Moved(captures, day.moved),
   self |-> day.moved = State,
   policy |-> story.policy, lists |-> story.lists, events |-> story.events,
   identity |-> [b \in story.policy.branches |-> day.recipe],
   inFlight |-> day.inFlight, enabled |-> day.enabled]

Days ==
  {DayOf(story, CapturesOf(story, page, own, aggregate), day) :
     story \in Stories, page \in Pages, own \in [{804, 805} -> 0..1], aggregate \in Named,
     day \in PlainDays \cup FaultyDays}

ASSUME \A w \in Days : \A k \in Incomplete(w.events) : k[1] \in LifecycleActions
=============================================================================
