--------------------------- MODULE MCLiveStartup ---------------------------
(***************************************************************************)
(* Instances of LiveStartup for TLC: two families, and configurations that *)
(* approve both, one, everything through the default scope, or none, live  *)
(* or as a shadow smoke, under two revisions.                              *)
(***************************************************************************)
EXTENDS LiveStartup

MCFacts == {"submit1", "submit2"}
MCKind == [f \in Fact |-> "Pending"]
MCRefOf == [f \in Fact |-> IF f = "submit1" THEN "ref1" ELSE "ref2"]
MCTargetRef == MCRefOf
MCFamilyOf == [f \in Fact |-> IF f = "submit1" THEN "family1" ELSE "family2"]
MCObservedAt == [f \in Fact |-> 1]

MCBoth == [smoke |-> FALSE, revision |-> "rev1", targets |-> <<"family1", "family2">>,
           approved |-> {"family1", "family2"}, ready |-> {"family1", "family2"}]

MCConfigs ==
    {MCBoth,
     [MCBoth EXCEPT !.smoke = TRUE],
     [MCBoth EXCEPT !.revision = "rev2", !.approved = {"family2"}],
     [MCBoth EXCEPT !.approved = {"family2", "default"}],
     [MCBoth EXCEPT !.revision = None, !.targets = <<>>]}

MCTwoConfigs == {MCBoth, [MCBoth EXCEPT !.smoke = TRUE]}
=============================================================================
