-------------------------- MODULE StrategyControl --------------------------
(***************************************************************************)
(* What the adoption of strategy revisions promises: the config file only  *)
(* ever names a revision that a start can resolve, what resolves goes on   *)
(* resolving, and the progress of the runtime only ever names a revision   *)
(* that resolves.  Adoption implements it.                                 *)
(***************************************************************************)
CONSTANTS ControlRevision, NoRevision

VARIABLES
    resolvable, \* revisions a start can resolve
    configured, \* revision the config file names, or NoRevision
    active      \* revision the runtime progress names, or NoRevision

controlVars == <<resolvable, configured, active>>

ControlInit ==
    /\ resolvable \subseteq ControlRevision
    /\ configured \in resolvable \cup {NoRevision}
    /\ active = NoRevision

Publish ==
    /\ resolvable \subseteq resolvable' /\ resolvable' \subseteq ControlRevision
    /\ UNCHANGED <<configured, active>>

Configure ==
    \E r \in resolvable \cup {NoRevision} :
        /\ configured' = r
        /\ UNCHANGED <<resolvable, active>>

Activate ==
    \E r \in resolvable :
        /\ active' = r
        /\ UNCHANGED <<resolvable, configured>>

ControlNext == Publish \/ Configure \/ Activate

ControlSpec == ControlInit /\ [][ControlNext]_controlVars
=============================================================================
