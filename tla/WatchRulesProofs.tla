-------------------------- MODULE WatchRulesProofs --------------------------
(***************************************************************************)
(* Proofs about the watcher's pure decisions, for any plan and flags, and  *)
(* for any releases, records and recipe identities.                        *)
(***************************************************************************)
EXTENDS WatchRules, WellFoundedInduction, TLAPS

-----------------------------------------------------------------------------
(* The routing rules. *)

\* The coordinate job routes twice, first with the record key alone; both calls
\* of one plan agree on whether a record is recovered.
THEOREM RoutesAgree ==
  ASSUME NEW d, d.action # RecoveryAction
  PROVE  RecoveryRoute(d) =
           RecoveryRoute(RecoveryCall(d.recordKey, d.publishInFlight))
BY DEF RecoveryRoute, RecoveryKey, RecoveryCall, RecoveryAction

\* While a publish run is in flight nothing is routed that moves main or
\* dispatches a run.
THEOREM HeldRoutes ==
  ASSUME NEW d, d.publishInFlight
  PROVE  /\ Route(d).route \notin HeldForPublish
         /\ Route(d).recoveryRoute # "recover_record"
<1>1. CASE PlanRoute(d) \in HeldForPublish
  BY <1>1 DEF Route, RecoveryRoute, HeldForPublish
<1>2. CASE PlanRoute(d) \notin HeldForPublish
  BY <1>2 DEF Route, RecoveryRoute
<1> QED BY <1>1, <1>2

\* Every plan the classifier can emit has a route: the coordinate job never
\* stops on a combination it does not know.
THEOREM EveryPlanIsRouted ==
  ASSUME NEW d,
         d.action \in LifecycleActions \cup PublishActions \cup NoWorkActions
                        \cup {"none", RecoveryAction},
         d.edits => d.action \in LifecycleActions
  PROVE  Route(d).route # "error"
<1>1. PlanRoute(d) # "error"
  BY DEF PlanRoute, LifecycleActions, PublishActions, NoWorkActions
<1> QED BY <1>1 DEF Route
-----------------------------------------------------------------------------
(* What the decisions select. *)

IsVersion(v) == v \in [branch : Nat, patch : Nat, rev : Nat]

LEMMA LeastOfSome ==
  ASSUME NEW S, S \subseteq Nat, S # {}
  PROVE  \E x \in S : \A y \in S : x <= y
<1> DEFINE R == OpToRel(<, Nat)
<1>1. \E x \in S : \A y \in S : ~(<<y, x>> \in R)
  <2>1. IsWellFoundedOn(R, Nat)
    BY NatLessThanWellFounded
  <2> HIDE DEF R
  <2> QED BY <2>1, WFMin
<1>2. \A x, y \in Nat : y < x => <<y, x>> \in R
  BY DEF OpToRel
<1> HIDE DEF R
<1>3. PICK x \in S : \A y \in S : ~(<<y, x>> \in R)
  BY <1>1
<1>4. \A y \in S : ~(y < x)
  BY <1>2, <1>3
<1> QED BY <1>4

LEMMA GreatestOfSome ==
  ASSUME NEW S, S \subseteq Nat, S # {}, NEW bound \in Nat, \A x \in S : x <= bound
  PROVE  \E x \in S : \A y \in S : y <= x
<1> DEFINE below == {bound - x : x \in S}
<1>1. below \subseteq Nat /\ below # {}
  <2>1. \A x \in S : bound - x \in Nat
    OBVIOUS
  <2> QED BY <2>1
<1>2. PICK d \in below : \A e \in below : d <= e
  BY <1>1, LeastOfSome
<1>3. PICK x \in S : d = bound - x
  OBVIOUS
<1>4. \A y \in S : bound - x <= bound - y
  BY <1>2, <1>3
<1> QED BY <1>4

\* Versions compare in one way: of two different ones, one is above the other.
LEMMA AboveIsAnOrder ==
  ASSUME NEW u, NEW v, NEW w, IsVersion(u), IsVersion(v), IsVersion(w)
  PROVE  /\ Above(u, v) /\ ~Above(w, v) => Above(u, w)
         /\ ~Above(u, v) /\ ~Above(v, u) => u = v
         /\ ~(Above(u, v) /\ Above(v, u))
BY DEF IsVersion, Above

\* The rebuild that is due is one revision more of a branch's newest release, whose
\* recipe is not the one its branch would be built from now.
LEMMA DueIsSelected ==
  ASSUME NEW releases, \A r \in releases : IsVersion(r.v),
         NEW identity, NEW last \in Nat, \A b \in DOMAIN identity : b <= last,
         DueForRebuild(releases, identity) # {}
  PROVE  \E r \in DueForRebuild(releases, identity) :
           PendingRebuild(releases, identity) = [r.v EXCEPT !.rev = @ + 1]
<1> DEFINE due == DueForRebuild(releases, identity)
           branches == {r.v.branch : r \in due}
           IsNewest(r) == \A s \in due : ~Above(s.v, r.v)
<1>1. due # {}
  OBVIOUS
<1>2. /\ \A r \in due : IsVersion(r.v) /\ r.v.branch \in DOMAIN identity
      /\ \A r, s \in due : r.v.branch = s.v.branch => ~Above(s.v, r.v)
  BY DEF DueForRebuild, BranchHeads, Published
<1> HIDE DEF due
<1>3. branches \subseteq Nat /\ branches # {} /\ \A b \in branches : b <= last
  BY <1>1, <1>2 DEF IsVersion
<1>4. PICK top \in branches : \A b \in branches : b <= top
  BY <1>3, GreatestOfSome
<1>5. PICK r \in due : r.v.branch = top
  OBVIOUS
<1>6. IsNewest(r)
  <2> SUFFICES ASSUME NEW s \in due PROVE ~Above(s.v, r.v)
    OBVIOUS
  <2>1. s.v.branch <= r.v.branch
    BY <1>4, <1>5
  <2> QED BY <1>2, <2>1 DEF Above, IsVersion
<1>7. (CHOOSE x \in due : IsNewest(x)) \in due
  BY <1>6
<1> QED BY <1>1, <1>7 DEF PendingRebuild, due

LEMMA RebuildIsDue ==
  ASSUME NEW releases, \A r \in releases : IsVersion(r.v),
         NEW identity, NEW last \in Nat, \A b \in DOMAIN identity : b <= last,
         PendingRebuild(releases, identity) # None
  PROVE  \E r \in DueForRebuild(releases, identity) :
           PendingRebuild(releases, identity) = [r.v EXCEPT !.rev = @ + 1]
<1>1. DueForRebuild(releases, identity) # {}
  BY DEF PendingRebuild
<1> QED BY <1>1, DueIsSelected

\* The record that is recovered is one of a published release.
LEMMA UnrecordedIsPublished ==
  ASSUME NEW releases, NEW recorded, UnrecordedRelease(releases, recorded) # None
  PROVE  \E r \in Published(releases) : UnrecordedRelease(releases, recorded) = r.v
BY DEF UnrecordedRelease

\* What the classifier selects from healthy sources: the newest patch of a branch's
\* feed above everything done on it, or the due rebuild, or nothing.
LEMMA ClassifiedPlans ==
  ASSUME NEW decision, NEW feed, DOMAIN feed \subseteq Nat, NEW releases, NEW completed
  PROVE  LET plan == Classify(decision, feed, releases, completed) IN
         \/ plan.action \in {"blocked", "no_change"} /\ plan.v = None
         \/ /\ plan.action = "new_patch"
            /\ \E b \in PatchDue(feed, releases, completed) :
                 plan.v = [branch |-> b, patch |-> feed[b], rev |-> 0]
         \/ /\ plan.action = "recipe_rebuild"
            /\ decision.rebuild # None /\ plan.v = decision.rebuild
<1> DEFINE due == PatchDue(feed, releases, completed)
           oldest == CHOOSE b \in due : \A c \in due : b <= c
<1>1. due # {} => oldest \in due
  <2>1. due \subseteq Nat
    BY DEF PatchDue
  <2> HIDE DEF due
  <2> QED BY <2>1, LeastOfSome
<1> HIDE DEF due
<1> QED BY <1>1 DEF Classify, Plan, due
=============================================================================
