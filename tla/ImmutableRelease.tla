-------------------------- MODULE ImmutableRelease --------------------------
(***************************************************************************)
(* What php-bin promises about one release tag, whatever the publish       *)
(* workflow does to get there: a release is staged as a draft, a draft may *)
(* be discarded, and a release becomes public only with bytes that passed  *)
(* a temporary install of the draft.  Nothing ever leaves "public".        *)
(***************************************************************************)
CONSTANTS
  Artifacts,   \* the asset sets a build can produce
  None         \* no assets, or an upload that did not finish

VARIABLES
  status,      \* "none", "draft" or "public"
  assets,      \* the bytes the release holds
  tested       \* the asset sets whose draft install passed

vars == <<status, assets, tested>>

TypeOK ==
  /\ status \in {"none", "draft", "public"}
  /\ assets \in Artifacts \cup {None}
  /\ tested \subseteq Artifacts

Init == status = "none" /\ assets = None /\ tested = {}

Stage(a) ==
  /\ status = "none"
  /\ status' = "draft"
  /\ assets' = a
  /\ UNCHANGED tested

Discard ==
  /\ status = "draft"
  /\ status' = "none"
  /\ assets' = None
  /\ UNCHANGED tested

Install(a) ==
  /\ tested' = tested \cup {a}
  /\ UNCHANGED <<status, assets>>

Publish ==
  /\ status = "draft"
  /\ assets \in tested
  /\ status' = "public"
  /\ UNCHANGED <<assets, tested>>

Next ==
  \/ \E a \in Artifacts \cup {None} : Stage(a)
  \/ Discard
  \/ \E a \in Artifacts : Install(a)
  \/ Publish

Spec == Init /\ [][Next]_vars
=============================================================================
