-------------------------- MODULE MCProgramCatalog -------------------------
(***************************************************************************)
(* Pages that captures of one program may find: the exclusion of the old   *)
(* page is the second one of the new page, whose first is another, and the *)
(* last page has only that other one.                                      *)
(***************************************************************************)
EXTENDS ProgramCatalog

Line(text, opens, denies, assets, issues, rules) ==
  [text |-> text, opens |-> opens, denies |-> denies, assets |-> assets, issues |-> issues,
   rules |-> rules]

Scope   == Line("scope of the program", "scope", FALSE, {}, {}, {})
Shop    == Line("the shop", "none", FALSE, {"shop"}, {}, {})
Online  == Line("no tests while offline", "heading", FALSE, {}, {}, {"program_must_be_online"})
Company == Line("any system of the company", "none", FALSE, {}, {"broad_asset_exclusion"}, {})
Campus  == Line("any system of the campus", "none", FALSE, {}, {"broad_asset_exclusion"}, {})

OldPage == <<Scope, Shop, Company>>
NewPage == <<Scope, Shop, Campus, Company, Online>>
OnePage == <<Scope, Shop, Campus>>
Guarding == {OldPage, NewPage, OnePage}
Shown == {{"submission_control", "published_marker"}, {"submission_control"}}
=============================================================================
