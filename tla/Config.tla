------------------------------- MODULE Config -------------------------------
(***************************************************************************)
(* The configuration on its way to the runtime.  The file is parsed to a   *)
(* raw configuration, whose global invariants are validated                *)
(* (crates/config-schema/src/validate.rs); a command takes the view it     *)
(* needs, with that view's requirements; and app-live turns the view into  *)
(* the values it runs with (crates/app-live/src/config.rs), repeating      *)
(* checks on its own and deriving the kind of the wallet from another part *)
(* of the configuration than the schema does.                              *)
(*                                                                         *)
(* A text of the file is absent (None), blank ("") or a value.             *)
(***************************************************************************)
EXTENDS Option, FiniteSets, Sequences

CONSTANTS
    RawConfigs,    \* the files considered, parsed
    ConfigFamily   \* families an adopted revision may have

VARIABLES
    rawConfig,     \* RawAxiomConfig
    configStage,   \* how far the command that reads it has come
    runtimeConfig  \* what it runs with

configVars == <<rawConfig, configStage, runtimeConfig>>

---------------------------------------------------------------------------
(***************************************************************************)
(* Fields and sections                                                     *)
(***************************************************************************)

NonEmpty(text) == text # ""

NonEmptyOptional(text) == text # None /\ NonEmpty(text)

\* validate_account_view of the schema.
ValidAccountView(a) ==
    /\ NonEmpty(a.address) /\ NonEmpty(a.funder)
    /\ NonEmpty(a.api_key) /\ NonEmpty(a.secret) /\ NonEmpty(a.passphrase)
    /\ a.signature_type = a.wallet_route

\* validate_relayer_auth_view of the schema: a builder key has a passphrase and
\* a secret, or a timestamp and its signature; a relayer key an address.
ValidRelayerAuthView(r) ==
    /\ NonEmpty(r.api_key)
    /\ r.kind = "BuilderApiKey" =>
          /\ NonEmptyOptional(r.passphrase)
          /\ IF r.secret # None THEN NonEmpty(r.secret)
             ELSE NonEmptyOptional(r.timestamp) /\ NonEmptyOptional(r.signature)
    /\ r.kind = "RelayerApiKey" => NonEmptyOptional(r.address)

ValidTargetMember(m) ==
    NonEmpty(m.condition) /\ NonEmpty(m.token) /\ NonEmpty(m.price) /\ NonEmpty(m.quantity)

\* raw_wallet_kind: of an account whose two labels agree.
RawWalletKind(a) ==
    IF a.signature_type # a.wallet_route THEN None
    ELSE IF a.signature_type = "Eoa" THEN "Eoa" ELSE "NonEoa"

\* validated_wallet_kind: by the signature type alone.
ValidatedWalletKind(a) == IF a.signature_type = "Eoa" THEN "Eoa" ELSE "NonEoa"

RequiresRelayerAuth(kind) == kind = "NonEoa"

---------------------------------------------------------------------------
(***************************************************************************)
(* ValidatedConfig::new                                                    *)
(***************************************************************************)

ValidStrategyControl(c) == c.strategy_control # None => NonEmpty(c.strategy_control.revision)

\* validate_negrisk: the families of the targets, and the members of one, are
\* named and distinct.  Targets are a sequence of families with sequences of
\* members, or absent (None).
ValidNegrisk(c) ==
    c.targets # None =>
        /\ \A i \in DOMAIN c.targets :
              /\ NonEmpty(c.targets[i].family)
              /\ \A k \in DOMAIN c.targets[i].members : ValidTargetMember(c.targets[i].members[k])
              /\ \A k, l \in DOMAIN c.targets[i].members :
                    /\ c.targets[i].members[k].condition = c.targets[i].members[l].condition
                    /\ c.targets[i].members[k].token = c.targets[i].members[l].token
                    => k = l
        /\ \A i, j \in DOMAIN c.targets : c.targets[i].family = c.targets[j].family => i = j

\* Mutant: an account of any kind may have relayer credentials.
WalletKindAllowsRelayerAlways(c) == TRUE

\* validate_wallet_kind_relayer_invariants: no relayer credentials for an EOA.
WalletKindAllowsRelayer(c) ==
    ~(c.account # None /\ c.relayer_auth # None /\ RawWalletKind(c.account) = "Eoa")

\* validate_global_invariants.
GlobalInvariants(c) ==
    /\ ~(c.mode = "paper" /\ c.smoke)
    /\ ValidStrategyControl(c)
    /\ ValidNegrisk(c)
    /\ WalletKindAllowsRelayer(c)

---------------------------------------------------------------------------
(***************************************************************************)
(* ValidatedConfig::for_app_live                                           *)
(***************************************************************************)

ValidTargetSourceView(source) == NonEmpty(source.revision)

\* require_strategy_control_or_legacy_target_source.
HasControlOrTargets(c) ==
    IF c.target_source # None THEN ValidTargetSourceView(c.target_source)
    ELSE c.strategy_control # None \/ c.targets # None

\* validate_negrisk_rollout_referential_integrity: a legacy rollout names
\* families that are targets, if there are any and no canonical rollout.
RolloutReferencesTargets(c) ==
    (c.rollout = None /\ c.targets \notin {None, <<>>}) =>
        c.legacy_rollout.approved \cup c.legacy_rollout.ready
            \subseteq {c.targets[i].family : i \in DOMAIN c.targets}

\* validate_app_live_requiredness.
AppLiveRequirements(c) ==
    c.mode = "live" =>
        /\ ~c.signer
        /\ c.account # None /\ ValidAccountView(c.account)
        /\ RequiresRelayerAuth(ValidatedWalletKind(c.account)) =>
              c.relayer_auth # None /\ ValidRelayerAuthView(c.relayer_auth)
        /\ HasControlOrTargets(c)
        /\ c.legacy_rollout # None => RolloutReferencesTargets(c)

---------------------------------------------------------------------------
(***************************************************************************)
(* The view                                                                *)
(***************************************************************************)

IsLegacyExplicit(c) == c.targets # None

HasCanonicalStrategyControl(c) == c.strategy_control # None

HasAdoptedStrategySource(c) == c.target_source # None \/ HasCanonicalStrategyControl(c)

CanonicalOperatorStrategyRevision(c) ==
    IF IsLegacyExplicit(c) \/ c.strategy_control = None THEN None ELSE c.strategy_control.revision

\* operator_strategy_revision: the canonical one, or that of the target source.
OperatorStrategyRevision(c) ==
    IF IsLegacyExplicit(c) THEN None
    ELSE IF CanonicalOperatorStrategyRevision(c) # None THEN CanonicalOperatorStrategyRevision(c)
    ELSE IF c.target_source # None THEN c.target_source.revision ELSE None

\* negrisk_rollout: the canonical section hides the legacy one; without either
\* no family is approved or ready.
NegRiskRollout(c) ==
    IF c.rollout # None THEN c.rollout
    ELSE IF c.legacy_rollout # None THEN c.legacy_rollout
    ELSE [approved |-> {}, ready |-> {}]

\* explicit_polymarket_source.
ExplicitPolymarketSource(c) == IF c.source_overrides # None THEN c.source_overrides ELSE c.source

BuiltinPolymarketSource == [host |-> "url", ws |-> "url", interval |-> 15]

EffectivePolymarketSource(c) ==
    IF ExplicitPolymarketSource(c) # None THEN ExplicitPolymarketSource(c)
    ELSE BuiltinPolymarketSource

---------------------------------------------------------------------------
(***************************************************************************)
(* The values app-live runs with                                           *)
(***************************************************************************)

\* parse_source_url: a URL with a scheme of its field.
ParseSourceUrl(text) == text \in {"url", "url/path"}

\* parse_host_url: and nothing after the host.
ParseHostUrl(text) == ParseSourceUrl(text) /\ text # "url/path"

ParsePositiveInterval(n) == n > 0

\* source_config_from_view; None is an error.
SourceConfigFromView(s) ==
    IF ParseHostUrl(s.host) /\ ParseSourceUrl(s.ws) /\ ParsePositiveInterval(s.interval)
    THEN s ELSE None

ParseDecimal(text) == text = "1"

\* NegRiskLiveTargetSet::try_from: the targets by family.
NegRiskLiveTargets(c) ==
    LET targets == IF c.targets = None THEN <<>> ELSE c.targets
    IN  IF \A i \in DOMAIN targets : \A k \in DOMAIN targets[i].members :
              ParseDecimal(targets[i].members[k].price) /\ ParseDecimal(targets[i].members[k].quantity)
        THEN [f \in {targets[i].family : i \in DOMAIN targets} |->
                 targets[CHOOSE i \in DOMAIN targets : targets[i].family = f].members]
        ELSE None

\* The funder of an account that names none is its address.
WithFunder(a) == [a EXCEPT !.funder = IF @ = None THEN a.address ELSE @]

\* PolymarketGatewayCredentials::try_from: app-live's own checks of the
\* account.
GatewayCredentials(c) ==
    IF c.signer \/ c.account = None \/ ~ValidAccountView(c.account) THEN None
    ELSE WithFunder(c.account)

AccountValues(credentials) ==
    [address |-> credentials.address, funder |-> credentials.funder,
     signature_type |-> credentials.signature_type]

\* LocalAccountRuntimeConfig::try_from.
LocalAccountRuntimeConfig(c) ==
    IF GatewayCredentials(c) = None THEN None ELSE AccountValues(GatewayCredentials(c))

\* With a secret the builder's timestamp and signature are derived.
RelayerValues(r) == [kind |-> r.kind, signed |-> r.kind = "BuilderApiKey"]

\* map_relayer_auth.
MapRelayerAuth(r) == IF ValidRelayerAuthView(r) THEN RelayerValues(r) ELSE None

\* LocalRelayerRuntimeConfig::required_from.
LocalRelayerRuntimeConfig(c) ==
    IF c.relayer_auth = None THEN None ELSE MapRelayerAuth(c.relayer_auth)

\* runtime_wallet_kind: by the presence of relayer credentials.
RuntimeWalletKind(c) ==
    IF c.account = None THEN None ELSE IF c.relayer_auth # None THEN "NonEoa" ELSE "Eoa"

\* live_neg_risk_work_requested: a target that is approved and ready.
LiveNegRiskWorkRequested(families, rollout) == families \cap rollout.approved \cap rollout.ready # {}

\* build_live_neg_risk_execution_backend: only for work, and not for an EOA.
LiveExecutionBackend(c, families) ==
    IF c.smoke \/ ~LiveNegRiskWorkRequested(families, NegRiskRollout(c)) THEN "none"
    ELSE IF \/ RuntimeWalletKind(c) # "NonEoa"
            \/ SourceConfigFromView(EffectivePolymarketSource(c)) = None
            \/ GatewayCredentials(c) = None
    THEN "refused" ELSE "built"

\* What is loaded is there: None is none of these records.
ASSUME NoneIsNoRuntimeValue ==
    \A c \in RawConfigs :
        /\ c.account # None =>
               WithFunder(c.account) # None /\ AccountValues(WithFunder(c.account)) # None
        /\ c.relayer_auth # None => RelayerValues(c.relayer_auth) # None

---------------------------------------------------------------------------
(***************************************************************************)
(* Actions                                                                 *)
(***************************************************************************)

ConfigInit == rawConfig \in RawConfigs /\ configStage = "raw" /\ runtimeConfig = None

\* ValidatedConfig::new.
ValidateConfig ==
    /\ configStage = "raw"
    /\ configStage' = IF GlobalInvariants(rawConfig) THEN "validated" ELSE "refused"
    /\ UNCHANGED <<rawConfig, runtimeConfig>>

\* ValidatedConfig::for_app_live.
TakeAppLiveView ==
    /\ configStage = "validated"
    /\ configStage' = IF AppLiveRequirements(rawConfig) THEN "viewed" ELSE "refused"
    /\ UNCHANGED <<rawConfig, runtimeConfig>>

\* What run does with a live view, with the families of the strategy it
\* resolved: those of the explicit targets, or of the adopted revision.
LoadRuntimeConfig(adopted) ==
    LET families == IF IsLegacyExplicit(rawConfig) THEN DOMAIN NegRiskLiveTargets(rawConfig)
                    ELSE adopted
        backend == LiveExecutionBackend(rawConfig, families)
        loads == /\ NegRiskLiveTargets(rawConfig) # None
                 /\ rawConfig.smoke => LocalAccountRuntimeConfig(rawConfig) # None
                 /\ backend # "refused"
    IN  /\ configStage = "viewed" /\ rawConfig.mode = "live"
        /\ configStage' = IF loads THEN "loaded" ELSE "refused"
        /\ runtimeConfig' = IF ~loads THEN None ELSE
               [account |-> LocalAccountRuntimeConfig(rawConfig),
                relayer |-> LocalRelayerRuntimeConfig(rawConfig),
                wallet_kind |-> RuntimeWalletKind(rawConfig), backend |-> backend,
                revision |-> OperatorStrategyRevision(rawConfig),
                adopted |-> HasAdoptedStrategySource(rawConfig)]
        /\ UNCHANGED rawConfig

ConfigNext ==
    \/ ValidateConfig
    \/ TakeAppLiveView
    \/ \E adopted \in SUBSET ConfigFamily : LoadRuntimeConfig(adopted)

ConfigSpec == ConfigInit /\ [][ConfigNext]_configVars

---------------------------------------------------------------------------
(***************************************************************************)
(* Properties                                                              *)
(***************************************************************************)

\* A configuration the schema passes for live is one run can use as the schema
\* meant it: its account loads, its relayer credentials do whenever the wallet
\* needs the relayer, the kind of wallet app-live reads off the presence of
\* relayer credentials is that of the account's signature type, and so no
\* execution backend is built for an EOA (validate_app_live_requiredness and
\* validate_wallet_kind_relayer_invariants against runtime_wallet_kind and
\* build_live_neg_risk_execution_backend).
LiveConfigLoads ==
    configStage = "loaded" =>
        /\ runtimeConfig.account # None
        /\ runtimeConfig.wallet_kind = ValidatedWalletKind(rawConfig.account)
        /\ RequiresRelayerAuth(runtimeConfig.wallet_kind) => runtimeConfig.relayer # None
        /\ runtimeConfig.backend = "built" => rawConfig.account.signature_type # "Eoa"
=============================================================================
