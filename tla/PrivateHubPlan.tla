--------------------------- MODULE PrivateHubPlan ---------------------------
(***************************************************************************)
(* deploy:private-hub (hardhat/tasks/deploy/private-hub.ts and             *)
(* private-hub-batches.ts).  One verifier stands for each family k2..k6,   *)
(* and one participant for PARTICIPANTS.                                   *)
(***************************************************************************)
EXTENDS DeploySteps

\* Mutation: the roles that constructors look up are registered too late.
HubRolesWithoutVault == RegisterRoles(
  <<"ENYGMA_CREATOR", "DVP_FACTORY_CALLER", "REGISTRY_CALLER", "ENDPOINT_SENDER",
    "FACTORY_ADMIN", "ENYGMA_V1", "DVP_CONTRACT", "RELAYER",
    "MESSAGE_EXECUTOR", "MESSAGE_RECEIVER", "RESOURCE_REGISTRAR">>)

\* All of them before any contract whose constructor looks one up.
HubRoles == RegisterRoles(
  <<"ENYGMA_CREATOR", "DVP_FACTORY_CALLER", "REGISTRY_CALLER", "ENDPOINT_SENDER",
    "FACTORY_ADMIN", "ENYGMA_V1", "COIN_VAULT", "DVP_CONTRACT", "RELAYER",
    "MESSAGE_EXECUTOR", "MESSAGE_RECEIVER", "RESOURCE_REGISTRAR">>)

HubCore ==
  Proxy("Endpoint", << >>)
  \o <<New("ResourceManager", << >>),
       Set("Endpoint", [resourceManager |-> "ResourceManager"]),
       Set("ResourceManager", [endpoint |-> "Endpoint"])>>
  \o Proxy("DeploymentProxyRegistry", << >>)
  \o Proxies(<< <<"MessageExecutor", << >> >>, <<"Teleport", << >> >>,
                <<"ResourceRegistry", << >> >> >>)
  \o <<New("Proofs", << >>)>>

HubEnygmaSystem ==
  <<New("EnygmaFactorySettings", << >>), New("EnygmaRegistry", << >>),
    New("EnygmaCreator", << >>), New("EnygmaIntegrationCreator", << >>),
    New("EnygmaTeleport", << >>), New("EnygmaPNHEvents", [endpoint |-> "Endpoint"]),
    New("EnygmaCoinVaultCreator", << >>), New("Erc721CoinVaultCreator", << >>),
    New("Erc1155CoinVaultCreator", << >>),
    New("EnygmaFactory", [registry |-> "EnygmaRegistry",
                          integrationCreator |-> "EnygmaIntegrationCreator",
                          settings |-> "EnygmaFactorySettings",
                          enygmaTeleport |-> "EnygmaTeleport",
                          enygmaCreator |-> "EnygmaCreator",
                          vaultCreator |-> "EnygmaCoinVaultCreator"])>>

HubParticipantSystem ==
  LET managed == [core |-> "ParticipantCore", storage |-> "ParticipantStorage"]
  IN Proxies(<< <<"ParticipantStorage", [endpoint |-> "Endpoint"]>>,
                <<"ParticipantCore", [endpoint |-> "Endpoint"]>> >>)
     \o Proxies(<< <<"AuditManager", managed>>, <<"EnygmaManager", managed>> >>)
     \o <<Set("ParticipantStorage", [core |-> "ParticipantCore", audit |-> "AuditManager",
                                     enygma |-> "EnygmaManager"]),
          Set("ParticipantCore", [storage |-> "ParticipantStorage"])>>

HubVerifiers ==
  LET proxyOf(v, i) == <<New(v, [verifier |-> i]), Set(v, [verifier |-> i])>>
  IN <<New("EnygmaImpl", << >>), New("DepositImpl", << >>), New("WithdrawImpl", << >>)>>
     \o proxyOf("EnygmaVerifier", "EnygmaImpl")
     \o proxyOf("DepositVerifier", "DepositImpl")
     \o proxyOf("WithdrawVerifier", "WithdrawImpl")

HubTokenSystem ==
  Proxies(<< <<"TokenRegistry", [endpoint |-> "Endpoint"]>>,
             <<"EnygmaTokenManager", [endpoint |-> "Endpoint", factory |-> "EnygmaFactory"]>>,
             <<"TokenCore", [participants |-> "ParticipantStorage",
                             resources |-> "ResourceRegistry", endpoint |-> "Endpoint",
                             enygmaSettings |-> "EnygmaFactorySettings",
                             dvpSettings |-> "DvpSettings"]>>,
             <<"TokenFreezeManager", [endpoint |-> "Endpoint"]>> >>)
  \o <<Set("EnygmaTokenManager", [tokenRegistry |-> "TokenRegistry"]),
       Set("EnygmaTokenManager", [tokenCore |-> "TokenCore"]),
       Set("TokenCore", [tokenRegistry |-> "TokenRegistry"]),
       Set("TokenCore", [enygmaTokenManager |-> "EnygmaTokenManager"]),
       Set("TokenCore", [factory721 |-> "DvpErc721Factory"]),
       Set("TokenCore", [factory1155 |-> "DvpErc1155Factory"]),
       Set("TokenFreezeManager", [tokenRegistry |-> "TokenRegistry"]),
       Set("TokenRegistry", [tokenCore |-> "TokenCore", freezeManager |-> "TokenFreezeManager",
                             enygmaTokenManager |-> "EnygmaTokenManager"]),
       Set("ResourceRegistry", [tokenRegistry |-> "TokenCore"])>>

\* The Dvp contract is its own owner, the factories own it beside the
\* deployer's ADMIN, and each asset group is constructed by the deployer.
HubDvpSystem ==
  LET proxyOf(v, i) == <<New(v, [verifier |-> i]), Set(v, [verifier |-> i])>>
      ownerFunctions == {"registerVault", "addVaultToGroup", "addEnygmaDvpIntegrationAddress",
                         "initializeDvp", "registerAssetGroup"}
      dvpMappings == ("ENYGMA_CREATOR" :> {"depositEnygma"})
                     @@ ("COIN_VAULT" :> {"checkAndRegisterChallenge", "addVaultToGroup"})
                     @@ ("TOKEN_OWNER" :> ownerFunctions)
      group(g) == Registering(g, [dvp |-> "Dvp"], deployer,
                              "DVP_CONTRACT" :> {"initializeAssetGroup", "insertMember"})
  IN <<New("PoseidonT3", << >>), New("PoseidonWrapper", [lib |-> "PoseidonT3"]),
       New("DvpVerifierAggregator", << >>), New("JoinSplitImpl", << >>),
       New("OwnershipImpl", << >>), New("JoinSplit1155Impl", << >>)>>
     \o proxyOf("JoinSplitVerifier", "JoinSplitImpl")
     \o proxyOf("OwnershipVerifier", "OwnershipImpl")
     \o proxyOf("JoinSplit1155Verifier", "JoinSplit1155Impl")
     \o <<New("DvpTeleport", << >>),
          Registering("Dvp", [poseidon |-> "PoseidonWrapper", enygmaFactory |-> "EnygmaFactory",
                              factory721 |-> "DvpErc721Factory",
                              factory1155 |-> "DvpErc1155Factory",
                              dvpTeleport |-> "DvpTeleport"], "Dvp", dvpMappings),
          Set("DvpVerifierAggregator", [joinSplit |-> "JoinSplitVerifier",
                                        ownership |-> "OwnershipVerifier",
                                        joinSplit1155 |-> "JoinSplit1155Verifier"]),
          Set("Dvp", [verifiers |-> "DvpVerifierAggregator"]),
          Scoped("TOKEN_OWNER", "EnygmaFactory", "Dvp"),
          Scoped("TOKEN_OWNER", "DvpErc721Factory", "Dvp"),
          Scoped("TOKEN_OWNER", "DvpErc1155Factory", "Dvp"),
          group("FungibleAssetGroup"), group("NonFungibleAssetGroup")>>

HubMessageModules ==
  LET senders == [participants |-> "ParticipantStorage", tokens |-> "TokenRegistry",
                  authorizedEndpoint |-> "Endpoint"]
  IN <<New("MessageSender", senders),
       New("MessageReceiver", [resourceManager |-> "ResourceManager",
                               messageExecutor |-> "MessageExecutor",
                               authorizedEndpoint |-> "Endpoint"]),
       New("BatchMessageSender", senders)>>

HubConfigureEndpoint ==
  Set("Endpoint", [participants |-> "ParticipantStorage", tokenRegistry |-> "TokenRegistry",
                   resourceManager |-> "ResourceManager", messageSender |-> "MessageSender",
                   messageReceiver |-> "MessageReceiver",
                   batchMessageSender |-> "BatchMessageSender"])

HubContractRoles ==
  <<Map("EnygmaFactory", {"initiateEnygmaCreation"}, {"ENYGMA_CREATOR"}),
    Grant("ENYGMA_CREATOR", "EnygmaTokenManager"),
    Map("DvpErc721Factory", {"createDvpErc721"}, {"DVP_FACTORY_CALLER"}),
    Map("DvpErc1155Factory", {"createDvpErc1155"}, {"DVP_FACTORY_CALLER"}),
    Grant("DVP_FACTORY_CALLER", "TokenCore"),
    Map("EnygmaRegistry", {"register"}, {"REGISTRY_CALLER"}),
    Grant("REGISTRY_CALLER", "EnygmaFactory"),
    Map("Endpoint", {"send"}, {"ENDPOINT_SENDER"}),
    Map("Endpoint", {"registerResourceId"}, {"RESOURCE_REGISTRAR"})>>
  \o Grants("ENDPOINT_SENDER", <<"TokenCore", "TokenFreezeManager", "ParticipantCore",
                                 "TemplateRegistry">>)
  \o <<Map("EnygmaTeleport", {"transfer"}, {"ENYGMA_V1"}),
       Map("DvpTeleport", {"emitCoins"}, {"COIN_VAULT"}),
       Map("DvpTeleport", {"emitSwap"}, {"DVP_CONTRACT"})>>
  \o Grants("FACTORY_ADMIN", <<"EnygmaFactory", "Dvp", "DvpErc721Factory", "DvpErc1155Factory">>)
  \o <<Grant("DVP_CONTRACT", "Dvp")>>

HubMessageRoles ==
  <<Map("Endpoint", {"receivePayload"}, {"RELAYER"}), Map("Teleport", {"store"}, {"RELAYER"}),
    Map("EnygmaTeleport", {"enygmaTransferCompleted"}, {"RELAYER"}),
    Map("ParticipantStorage", {"setKeys"}, {"RELAYER"}), Map("Proofs", {"store"}, {"RELAYER"}),
    Map("MessageExecutor", {"executeMessage"}, {"MESSAGE_RECEIVER"}),
    Map("ResourceManager", {"handleWithResourceId"}, {"MESSAGE_RECEIVER"}),
    Map("ResourceManager", {"registerResourceId"}, {"RESOURCE_REGISTRAR"})>>
  \o Grants("RESOURCE_REGISTRAR", <<"Endpoint", "EnygmaTokenManager", "TokenCore">>)
  \o <<Map("TokenRegistry", {"onMessage"}, {"MESSAGE_EXECUTOR"}),
       Map("ParticipantStorage", {"broadcastCurrentParticipants"}, {"MESSAGE_EXECUTOR"}),
       Map("EnygmaPNHEvents", {"onMessage"}, {"MESSAGE_EXECUTOR"}),
       Grant("MESSAGE_EXECUTOR", "MessageExecutor"), Grant("MESSAGE_RECEIVER", "MessageReceiver"),
       AdminOf("ENYGMA_CREATOR", "FACTORY_ADMIN"), AdminOf("ENYGMA_V1", "FACTORY_ADMIN"),
       AdminOf("COIN_VAULT", "FACTORY_ADMIN"), AdminOf("DVP_CONTRACT", "FACTORY_ADMIN")>>

HubResources ==
  <<Check(Guarded("TokenCore", "endpoint", "send")),
    Resource("resource1", "ParticipantStorage"), Resource("resource3", "TokenRegistry"),
    Resource("resource4", "EnygmaPNHEvents"), Resource("resource6", "TemplateRegistry")>>

HubNames ==
  {"RaylsAccessManager", "ResourceRegistry", "Teleport", "Endpoint", "TokenRegistry", "Proofs",
   "ParticipantStorage", "Dvp", "DvpTeleport", "EnygmaPNHEvents", "EnygmaTeleport",
   "EnygmaTokenManager", "TokenCore", "TokenFreezeManager", "ParticipantCore", "AuditManager",
   "EnygmaManager", "EnygmaFactory", "EnygmaFactorySettings", "EnygmaRegistry",
   "EnygmaIntegrationCreator", "ResourceManager", "MessageSender", "MessageReceiver",
   "BatchMessageSender", "DvpErc721Factory", "DvpErc1155Factory", "FungibleAssetGroup",
   "NonFungibleAssetGroup", "TemplateRegistry"}

\* Every change of a participant is broadcast to the privacy nodes.
HubParticipants ==
  LET broadcast == {Back("ParticipantStorage", "core", "storage"),
                    Guarded("ParticipantCore", "endpoint", "send"),
                    Back("Endpoint", "messageSender", "authorizedEndpoint")}
  IN <<Run("ParticipantStorage", broadcast), Run("ParticipantStorage", broadcast),
       Run("ParticipantStorage", {Open("ParticipantStorage", "audit")}),
       Run("ParticipantStorage", broadcast), Run("ParticipantStorage", broadcast)>>

HubFinalConfigs ==
  LET initialize == {Guarded("Dvp", "newGroup", "initializeAssetGroup")}
  IN <<Set("EnygmaFactorySettings", [enygma |-> "EnygmaVerifier", deposit |-> "DepositVerifier",
                                     withdraw |-> "WithdrawVerifier"]),
       Set("EnygmaFactorySettings", [dvp |-> "Dvp"]),
       Set("EnygmaFactorySettings", [dvpTeleport |-> "DvpTeleport"]),
       Set("EnygmaFactorySettings", [poseidon |-> "PoseidonWrapper"]),
       Set("DvpSettings", [vault721 |-> "Erc721CoinVaultCreator",
                           vault1155 |-> "Erc1155CoinVaultCreator"]),
       Config("Dvp", [newGroup |-> "FungibleAssetGroup"], initialize),
       Config("Dvp", [newGroup |-> "NonFungibleAssetGroup"], initialize),
       Run("Dvp", {}), Run("Dvp", {})>>

HubDeployPhases ==
  << <<AccessManagerSteps \o HubRoles \o HubCore>>,
     <<HubEnygmaSystem, HubParticipantSystem, <<New("DvpSettings", << >>)>>, HubVerifiers,
       Proxy("TemplateRegistry", [endpoint |-> "Endpoint"])>>,
     << <<New("DvpErc721Factory", [settings |-> "EnygmaFactorySettings",
                                   dvpSettings |-> "DvpSettings"])>>,
        <<New("DvpErc1155Factory", [settings |-> "EnygmaFactorySettings",
                                    dvpSettings |-> "DvpSettings"])>> >>,
     <<HubTokenSystem>>,
     <<HubDvpSystem, HubMessageModules>> >>

\* Mutation: the endpoint is wired in parallel with the publication of the names.
HubSetupPhasesLateEndpoint ==
  << <<HubContractRoles \o HubMessageRoles \o Tail(HubResources)>>,
     << <<HubConfigureEndpoint>>, <<Names(HubNames)>>, HubFinalConfigs>> >>

\* The endpoint and the roles first; then the names, in parallel with the rest.
HubSetupPhases ==
  << << <<HubConfigureEndpoint>> \o HubContractRoles \o HubMessageRoles \o HubResources>>,
     << <<Names(HubNames)>>, HubParticipants \o HubFinalConfigs>> >>

PrivateHubPhases == HubDeployPhases \o HubSetupPhases

-----------------------------------------------------------------------------
\* What the contracts of the hub call at run time.
HubMessageCalls ==
  {Back("Endpoint", "messageReceiver", "authorizedEndpoint"),
   Back("Endpoint", "messageSender", "authorizedEndpoint"),
   Back("Endpoint", "batchMessageSender", "authorizedEndpoint"),
   Guarded("MessageReceiver", "resourceManager", "handleWithResourceId"),
   Guarded("MessageReceiver", "messageExecutor", "executeMessage"),
   Through("MessageExecutor", "ResourceManager", "resource1", "broadcastCurrentParticipants"),
   Through("MessageExecutor", "ResourceManager", "resource3", "onMessage"),
   Through("MessageExecutor", "ResourceManager", "resource4", "onMessage"),
   Guarded("ParticipantCore", "endpoint", "send"),
   Guarded("TemplateRegistry", "endpoint", "send")}

HubTokenCalls ==
  {Back("TokenRegistry", "tokenCore", "tokenRegistry"),
   Back("TokenRegistry", "freezeManager", "tokenRegistry"),
   Back("TokenCore", "enygmaTokenManager", "tokenCore"),
   Guarded("TokenCore", "endpoint", "send"),
   Guarded("TokenCore", "endpoint", "registerResourceId"),
   Guarded("TokenCore", "factory721", "createDvpErc721"),
   Guarded("TokenCore", "factory1155", "createDvpErc1155"),
   Guarded("TokenFreezeManager", "endpoint", "send"),
   Guarded("EnygmaTokenManager", "factory", "initiateEnygmaCreation"),
   Guarded("EnygmaTokenManager", "endpoint", "registerResourceId"),
   Guarded("Endpoint", "resourceManager", "registerResourceId")}

HubDvpCalls ==
  {Guarded("EnygmaFactory", "registry", "register"),
   Through("EnygmaFactory", "EnygmaFactorySettings", "dvp", "registerVault"),
   Through("EnygmaFactory", "EnygmaFactorySettings", "dvp", "addVaultToGroup"),
   Through("EnygmaFactory", "EnygmaFactorySettings", "dvp", "addEnygmaDvpIntegrationAddress"),
   Through("DvpErc721Factory", "EnygmaFactorySettings", "dvp", "registerVault"),
   Through("DvpErc721Factory", "EnygmaFactorySettings", "dvp", "addVaultToGroup"),
   Through("DvpErc1155Factory", "EnygmaFactorySettings", "dvp", "registerVault"),
   Guarded("Dvp", "newGroup", "insertMember"),
   Guarded("Dvp", "dvpTeleport", "emitSwap")}

HubGrantors == {<<"EnygmaFactory", "ENYGMA_V1">>, <<"EnygmaFactory", "COIN_VAULT">>,
                <<"Dvp", "COIN_VAULT">>}
=============================================================================
