-------------------------- MODULE MCCampaignNight --------------------------
(***************************************************************************)
(* Either a detector campaign or a nightly campaign: they share no state,  *)
(* and `component` says which of the two is looked at.                     *)
(*                                                                         *)
(* The night has two programs and targets that name each other: a root     *)
(* (https), its page (https, found again by the root's links), an inner    *)
(* address (http, once found as a downgrade, once as a sound link) and a   *)
(* bare spelling of the root, as a scope rule may have it.                 *)
(***************************************************************************)
EXTENDS Campaign, NightlyCampaign

CONSTANTS root, page, inner, bare
VARIABLE component

Root == [name |-> root, scheme |-> "https", private |-> FALSE]
Page == [name |-> page, scheme |-> "https", private |-> FALSE]
Bare == [name |-> bare, scheme |-> "https", private |-> FALSE]
Old == [name |-> inner, scheme |-> "http", private |-> FALSE]

MCLinks ==
  (Bare :> <<[form |-> "http", target |-> Bare], [form |-> "http", target |-> Page]>>)
  @@ (Root :> <<[form |-> "http", target |-> Page], [form |-> "http", target |-> Old]>>)
  @@ (Page :> <<[form |-> "http", target |-> Root], [form |-> "redacted", target |-> Old]>>)
  @@ (Old :> <<[form |-> "http", target |-> Page], [form |-> "http", target |-> Old]>>)

MCCanonicalForm == [t \in DOMAIN MCLinks |-> IF t = Bare THEN Root ELSE t]

Plain == [sync |-> "synced", file |-> "sound", review |-> "none", seeds |-> {Root, Old},
          online |-> FALSE, status |-> "unknown", allowed |-> {Root, Page, Old},
          guarded |-> FALSE, cleared |-> {}]
Guarded == [Plain EXCEPT !.guarded = TRUE, !.review = "valid", !.cleared = {Root, Old}]
Online == [Plain EXCEPT !.online = TRUE, !.status = "online", !.seeds = {Root, Page},
                        !.allowed = {Root, Page}]
Spelled == [Plain EXCEPT !.seeds = {Bare}, !.allowed = {Bare, Root, Page}]
MCCatalogs ==
  {<<Plain>>, <<Guarded, [Plain EXCEPT !.seeds = {}]>>,
   <<[Plain EXCEPT !.sync = "failed"], Online>>,
   <<[Online EXCEPT !.status = "offline"], [Guarded EXCEPT !.cleared = {}]>>,
   <<[Guarded EXCEPT !.review = "other_revision"], [Plain EXCEPT !.file = "issues"]>>,
   <<[Plain EXCEPT !.status = "malformed"], [Plain EXCEPT !.file = "malformed"]>>,
   <<[Plain EXCEPT !.file = "invalid"], Spelled>>}

\* The campaign starts in one state; so does a night that is not looked at.
EitherInit ==
  /\ component \in {"campaign", "night"}
  /\ Init
  /\ NightInit
  /\ component = "campaign" =>
       /\ programs = <<Plain>>
       /\ options = [execute |-> FALSE, detector |-> FALSE]

EitherNext ==
  /\ \/ component = "campaign" /\ Next /\ UNCHANGED nightVars
     \/ component = "night" /\ NightNext /\ UNCHANGED vars
  /\ UNCHANGED component

EitherSpec ==
  /\ EitherInit /\ [][EitherNext]_<<component, vars, nightVars>>
  /\ \A p \in Procs : WF_vars(component = "campaign" /\ Work(p) /\ UNCHANGED nightVars)
  /\ WF_nightVars(component = "night" /\ NightStep /\ UNCHANGED vars)
=============================================================================
