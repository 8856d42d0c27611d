----------------------------- MODULE MCOperator -----------------------------
(***************************************************************************)
(* Instances of Workflow for TLC: two operators, a legacy revision with    *)
(* the canonical one it migrates to, the one derived from explicit         *)
(* targets, and one that discovery finds, with one or two families.        *)
(***************************************************************************)
EXTENDS Workflow

MCCanonicalOf == [r \in LegacyRevision |-> "canonical"]
MCFamiliesOf == [r \in Revision |-> IF r = "found" THEN {"family1"} ELSE {"family1", "family2"}]

\* One operator uses every command, the other changes the revision under it.
MCUses == [o \in Operator |-> IF o = "operator"
    THEN {"discover", "advise", "adopt", "migrate", "rollback", "apply", "bootstrap", "doctor", "run", "init", "preserve"}
    ELSE {"adopt", "rollback"}]

MCConfig == [form |-> "missing", rev |-> None, rollout |-> {}, mode |-> None, header |-> FALSE]

MCFiles ==
    {MCConfig,
     [MCConfig EXCEPT !.form = "explicit", !.mode = "smoke"],
     [MCConfig EXCEPT !.form = "target_source", !.rev = "legacy", !.mode = "live",
                      !.rollout = {"family1", "family2"}],
     [MCConfig EXCEPT !.form = "target_source", !.mode = "smoke"]}

MCNewSmokeFile == {[MCConfig EXCEPT !.form = "target_source", !.mode = "smoke"]}
=============================================================================
