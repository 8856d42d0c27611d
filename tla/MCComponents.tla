---------------------------- MODULE MCComponents ----------------------------
(***************************************************************************)
(* The components that are checked by themselves, for TLC.  A behaviour    *)
(* steps one of them, its focus, and leaves the others as they were        *)
(* initialised: what they share are tables and the venue, which each       *)
(* module has its own view of.                                             *)
(***************************************************************************)
EXTENDS PolicyReports, DispatchLoop, LiveStartup, Config, Discovery, VenueSessions

VARIABLE focus

(***************************************************************************)
(* Dispatcher: the dirty sets StateApplier::apply reports, and one that    *)
(* touches the full set alone.                                             *)
(***************************************************************************)
MCDirtySets == {{"Candidates"}, {"Runtime", "NegRiskFamilies"}, AllDomains, {"Orders"},
                {"NegRiskFamilies"}}

(***************************************************************************)
(* Live starts: two families, and configurations that approve both, one,   *)
(* everything through the default scope, or none, live or as a shadow      *)
(* smoke, under two revisions.                                             *)
(***************************************************************************)
MCFacts == {"submit1", "submit2"}
MCKind == [f \in Fact |-> "Pending"]
MCRefOf == [f \in Fact |-> IF f = "submit1" THEN "ref1" ELSE "ref2"]
MCFamilyOf == [f \in Fact |-> IF f = "submit1" THEN "family1" ELSE "family2"]
MCObservedAt == [f \in Fact |-> 1]
MCBoth == [smoke |-> FALSE, revision |-> "rev1", targets |-> <<"family1", "family2">>,
           approved |-> {"family1", "family2"}, ready |-> {"family1", "family2"}]
MCConfigs ==
    {MCBoth,
     [MCBoth EXCEPT !.smoke = TRUE],
     [MCBoth EXCEPT !.revision = "rev2", !.approved = {"family2"}],
     [MCBoth EXCEPT !.approved = {"family2", "default"}],
     [MCBoth EXCEPT !.revision = None, !.targets = <<>>]}

(***************************************************************************)
(* Configuration: a live one that is complete, and what differs from it in *)
(* the account and relayer, the strategy sections, or the source sections. *)
(***************************************************************************)
MCAccount == [address |-> "x", funder |-> None, api_key |-> "x", secret |-> "x", passphrase |-> "x",
              signature_type |-> "Eoa", wallet_route |-> "Eoa"]
MCWallets == {"Eoa", "Proxy", "Safe"}
MCWalletAccounts == {[MCAccount EXCEPT !.signature_type = s, !.wallet_route = r] : s, r \in MCWallets}
MCBlankAccounts == {[MCAccount EXCEPT ![f] = ""] :
                        f \in {"address", "funder", "api_key", "secret", "passphrase"}}
MCRelayerAuths == [kind : {"BuilderApiKey", "RelayerApiKey"}, api_key : {"", "x"},
                   passphrase : {None, "", "x"}, secret : {None, "", "x"}, timestamp : {None, "x"},
                   signature : {None, "x"}, address : {None, "x"}]
MCRelayer == [kind |-> "RelayerApiKey", api_key |-> "x", passphrase |-> None, secret |-> None,
              timestamp |-> None, signature |-> None, address |-> "x"]
MCMember(price) == [condition |-> "c", token |-> "t", price |-> price, quantity |-> "1"]
MCTargetSections ==
    {None, <<>>, <<[family |-> "a", members |-> <<MCMember("1")>>]>>,
     <<[family |-> "a", members |-> <<>>], [family |-> "a", members |-> <<>>]>>,
     <<[family |-> "", members |-> <<>>]>>,
     <<[family |-> "a", members |-> <<MCMember("1"), MCMember("1")>>]>>,
     <<[family |-> "a", members |-> <<MCMember("one")>>]>>}
MCRevisionSections == {None} \cup {[revision |-> r] : r \in {None, "", "r"}}
MCSourceSections == {None} \cup [host : {"url", "url/path"}, ws : {"url/path", "no url"}, interval : {0, 15}]
MCRollout == [approved |-> {"a"}, ready |-> {"a"}]
MCRolloutSections == {None} \cup [approved : {{}, {"a"}, {"b"}}, ready : {{"a"}}]
MCLiveConfig ==
    [mode |-> "live", smoke |-> FALSE, signer |-> FALSE, account |-> MCAccount, relayer_auth |-> None,
     strategy_control |-> [revision |-> "r"], target_source |-> None, targets |-> None,
     legacy_rollout |-> None, rollout |-> None, source |-> None, source_overrides |-> None]
MCRawConfigs ==
    {[MCLiveConfig EXCEPT !.mode = m, !.smoke = s, !.signer = g, !.account = a, !.relayer_auth = r] :
        m \in {"live", "paper"}, s \in BOOLEAN, g \in BOOLEAN,
        a \in MCWalletAccounts \cup MCBlankAccounts \cup {None}, r \in {None, MCRelayer}}
    \cup {[MCLiveConfig EXCEPT !.account = a, !.relayer_auth = r, !.rollout = MCRollout] :
              a \in MCWalletAccounts, r \in MCRelayerAuths}
    \cup {[MCLiveConfig EXCEPT !.strategy_control = c, !.target_source = t, !.targets = n,
                               !.legacy_rollout = l, !.rollout = o] :
              c \in MCRevisionSections, t \in MCRevisionSections, n \in MCTargetSections,
              l \in MCRolloutSections, o \in {None, MCRollout}}
    \cup {[MCLiveConfig EXCEPT !.source = s, !.source_overrides = o] : s, o \in MCSourceSections}

---------------------------------------------------------------------------
MCFocuses == {"policy", "dispatch", "startup", "config", "discovery", "client", "monitor"}

MCVars == <<focus, policyVars, dispatchVars, vars, configVars, discoveryVars, clientVars,
            monitorVars>>

\* A component out of focus has one initial state.
MCInit ==
    /\ focus \in MCFocuses
    /\ PolicyInit /\ (focus # "policy" => start = BootstrapPolicy)
    /\ DispatchInit /\ StartupInit
    /\ ConfigInit /\ (focus # "config" => rawConfig = MCLiveConfig)
    /\ VenueSessionsInit /\ (focus # "client" => wsGateway /\ userAddress)
    /\ DiscoveryInit /\ (focus # "discovery" => liveTargets = {})

\* The variables of the components of other focuses.
Others(c) ==
    /\ UNCHANGED focus
    /\ c # "policy" => UNCHANGED policyVars
    /\ c # "dispatch" => UNCHANGED dispatchVars
    /\ c # "startup" => UNCHANGED vars
    /\ c # "config" => UNCHANGED configVars
    /\ c # "client" => UNCHANGED clientVars
    /\ c # "monitor" => UNCHANGED monitorVars
    /\ c # "discovery" => UNCHANGED discoveryVars

MCNext ==
    \/ focus = "policy" /\ PolicyNext /\ Others("policy")
    \/ focus = "dispatch" /\ DispatchNext /\ Others("dispatch")
    \/ focus = "startup" /\ StartupNext /\ Others("startup")
    \/ focus = "config" /\ ConfigNext /\ Others("config")
    \/ focus = "client" /\ ClientNext /\ Others("client")
    \/ focus = "monitor" /\ MonitorNext /\ Others("monitor")
    \/ focus = "discovery" /\ DiscoveryNext /\ Others("discovery")

\* Only live starts have fairness: that of StartupSpec.
MCSpec == MCInit /\ [][MCNext]_MCVars /\ \A p \in Process : WF_vars(ProcessStep(p))
=============================================================================
