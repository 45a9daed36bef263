---------------------------- MODULE ReleaseLine -----------------------------
(***************************************************************************)
(* What php-bin promises about its published releases as a whole: a branch *)
(* only gains newer patches, or one more revision of its newest version    *)
(* when the recipe has changed, and the Latest badge is always on the      *)
(* release that sorts above all others.                                    *)
(***************************************************************************)
EXTENDS WatchRules

CONSTANTS
  Branches,    \* maintained branches, numbers in version order
  Patches,     \* patch numbers
  Identities,  \* recipe identities
  Initial      \* the releases published so far

VARIABLES
  public,      \* published releases, [v, recipe, draft]
  badge        \* the version with the Latest badge

Newest(releases) ==
  CHOOSE r \in releases : \A s \in releases : ~Above(s.v, r.v)

Init == public = Initial /\ badge = Newest(Initial).v

Publish(v, recipe) ==
  /\ public' = public \cup {[v |-> v, recipe |-> recipe, draft |-> FALSE]}
  /\ badge' = Newest(public').v

PublishPatch(b) ==
  \E patch \in Patches, recipe \in Identities :
    /\ \A r \in public : r.v.branch = b => r.v.patch < patch
    /\ Publish([branch |-> b, patch |-> patch, rev |-> 0], recipe)

PublishRebuild(b) ==
  \E r \in BranchHeads(public), recipe \in Identities :
    /\ r.v.branch = b
    /\ r.recipe # recipe
    /\ Publish([r.v EXCEPT !.rev = @ + 1], recipe)

Next == \E b \in Branches : PublishPatch(b) \/ PublishRebuild(b)

Spec == Init /\ [][Next]_<<public, badge>>
=============================================================================
