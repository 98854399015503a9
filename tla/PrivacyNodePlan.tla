--------------------------- MODULE PrivacyNodePlan ---------------------------
(***************************************************************************)
(* deploy:privacy-node (hardhat/tasks/deploy/privacy-node.ts and           *)
(* privacy-node-batches.ts), with a hub or without one (HUB_ENABLED).      *)
(***************************************************************************)
EXTENDS DeploySteps, PrivateHubPlan

PNRegistries ==
  Proxies(<< <<"DeploymentProxyRegistry", << >> >>, <<"RNUserGovernance", << >> >>,
             <<"RNMessageExecutor", << >> >>, <<"RNMessageDispatcher", << >> >> >>)

\* The factory's endpoint is not known yet: it gets the RNEndpoint twice.
PNRaylsNodeSystem ==
  Proxy("RNEndpoint", << >>)
  \o Proxy("RNContractFactory", [endpoint |-> "RNEndpoint", raylsNodeEndpoint |-> "RNEndpoint"])

PNCoreContracts(hub) ==
  Proxy("Endpoint", << >>)
  \o Proxy("ContractFactory", [endpoint |-> "Endpoint", raylsNodeEndpoint |-> "RNEndpoint"])
  \o <<New("ResourceManager", [contractFactory |-> "ContractFactory"]),
       Set("Endpoint", [resourceManager |-> "ResourceManager"]),
       Set("ResourceManager", [endpoint |-> "Endpoint"])>>
  \o When(hub, Proxy("MessageExecutor", << >>))

PNLateBindings ==
  <<Set("ResourceManager", [contractFactory |-> "RNContractFactory"]),
    Set("RNContractFactory", [endpoint |-> "Endpoint"]),
    Set("RNContractFactory", [raylsNodeEndpoint |-> "RNEndpoint"])>>

PNAdditionalProxies(hub) ==
  <<New("PNTokenCoreLib", << >>)>>
  \o Proxies(<< <<"ParticipantStorage", [endpoint |-> "Endpoint"]>>,
                <<"TokenRegistry", [endpoint |-> "Endpoint"]>>,
                <<"TokenCore", [lib |-> "PNTokenCoreLib"]>>,
                <<"TokenFreezeManager", << >> >> >>
             \o When(hub, << <<"PNCommunicator", [endpoint |-> "Endpoint"]>>,
                             <<"TemplateRegistryReplica", [endpoint |-> "Endpoint"]>> >>))

PNAdditionalConfigs(hub) ==
  <<New("EnygmaPNEvents", [endpoint |-> "Endpoint", participantStorage |-> "ParticipantStorage",
                           tokenRegistry |-> "TokenRegistry"]),
    Set("EnygmaPNEvents", << >>)>>
  \o When(hub, Proxy("ProgrammabilityExecutor",
                     [endpoint |-> "Endpoint", templates |-> "TemplateRegistryReplica"]))
  \o <<Set("TokenRegistry", [tokenCore |-> "TokenCore"]),
       Set("TokenRegistry", [freezeManager |-> "TokenFreezeManager"]),
       Set("TokenCore", [tokenRegistry |-> "TokenRegistry"]),
       Set("TokenCore", [freezeManager |-> "TokenFreezeManager"]),
       Set("TokenCore", [endpoint |-> "Endpoint"]),
       Set("TokenCore", [events |-> "EnygmaPNEvents"]),
       Set("TokenCore", << >>),
       Set("TokenFreezeManager", [tokenRegistry |-> "TokenRegistry"]),
       Set("TokenFreezeManager", [tokenCore |-> "TokenCore"]),
       Set("TokenFreezeManager", [endpoint |-> "Endpoint"]),
       Set("TokenFreezeManager", << >>)>>

PNMessageModules ==
  LET senders == [participants |-> "ParticipantStorage", tokens |-> "TokenRegistry",
                  authorizedEndpoint |-> "Endpoint"]
  IN <<New("MessageSender", senders),
       New("MessageReceiver", [resourceManager |-> "ResourceManager",
                               messageExecutor |-> "MessageExecutor",
                               authorizedEndpoint |-> "Endpoint"]),
       New("BatchMessageSender", senders)>>

\* Promise.all: four branches of one transaction.
PNConfigureContracts(hub) ==
  LET modules == [contractFactory |-> "ContractFactory", participants |-> "ParticipantStorage",
                  tokenRegistry |-> "TokenRegistry", resourceManager |-> "ResourceManager"]
      messages == [messageSender |-> "MessageSender", messageReceiver |-> "MessageReceiver",
                   batchMessageSender |-> "BatchMessageSender"]
  IN << <<Set("Endpoint", IF hub THEN modules @@ messages ELSE modules)>>,
        <<Set("RNEndpoint", [messageExecutor |-> "RNMessageExecutor",
                             tokenRegistry |-> "TokenRegistry",
                             userGovernance |-> "RNUserGovernance",
                             messageDispatcher |-> "RNMessageDispatcher"])>>,
        <<Set("RNMessageDispatcher", [authorizedEndpoint |-> "RNEndpoint"])>>,
        <<Set("RNMessageExecutor", [authorizedEndpoint |-> "RNEndpoint"])>> >>

PNRoles == RegisterRoles(
  <<"PN_TOKEN_REGISTRY_ADMIN", "PN_TOKEN_REGISTRY_UPGRADER", "ENDPOINT_SENDER",
    "FACTORY_ADMIN", "RELAYER", "TOKEN_CREATOR", "MESSAGE_EXECUTOR", "MESSAGE_RECEIVER",
    "RESOURCE_REGISTRAR", "FACTORY_DEPLOYER">>)
  \o <<Grant("PN_TOKEN_REGISTRY_ADMIN", deployer), Grant("PN_TOKEN_REGISTRY_UPGRADER", deployer)>>

PNMaps(hub) ==
  <<Map("Endpoint", {"send"}, {"ENDPOINT_SENDER"}),
    Map("EnygmaPNEvents", {"runtime"}, {"ENDPOINT_SENDER"})>>
  \o When(hub, <<Map("PNCommunicator", {"addSharedInfo"}, {"ENDPOINT_SENDER"})>>)
  \o <<Map("RNEndpoint", {"receivePayload"}, {"RELAYER"}),
       Map("Endpoint", {"receivePayload"}, {"RELAYER"}),
       Map("TokenRegistry", {"registerToken"}, {"TOKEN_CREATOR"}),
       Map("TokenRegistry", {"admin", "operate"}, {"PN_TOKEN_REGISTRY_ADMIN"}),
       Map("TokenRegistry", {"updatePublicTokenAddress"}, {"RELAYER"}),
       Map("TokenRegistry", {"onMessage", "freeze"}, {"MESSAGE_EXECUTOR"}),
       Map("TokenRegistry", {"registerHubToken"}, {"FACTORY_DEPLOYER"}),
       Map("TokenRegistry", {"upgrade"}, {"PN_TOKEN_REGISTRY_UPGRADER"}),
       Map("TokenCore", {"admin"}, {"PN_TOKEN_REGISTRY_ADMIN"}),
       Map("TokenCore", {"upgrade"}, {"PN_TOKEN_REGISTRY_UPGRADER"}),
       Map("TokenFreezeManager", {"admin"}, {"PN_TOKEN_REGISTRY_ADMIN"}),
       Map("TokenFreezeManager", {"upgrade"}, {"PN_TOKEN_REGISTRY_UPGRADER"})>>
  \o When(hub, <<Map("ProgrammabilityExecutor", {"executeProgramData"}, {"RELAYER"})>>)
  \o <<Map("EnygmaPNEvents", {"creation"}, {"TOKEN_CREATOR"})>>
  \o When(hub, <<Map("MessageExecutor", {"executeMessage"}, {"MESSAGE_RECEIVER"})>>)
  \o <<Map("ResourceManager", {"handleWithResourceId"}, {"MESSAGE_RECEIVER"}),
       Map("ResourceManager", {"registerResourceId"}, {"RESOURCE_REGISTRAR"}),
       Map("Endpoint", {"registerResourceId"}, {"RESOURCE_REGISTRAR"}),
       Map("ParticipantStorage", {"addOrUpdateParticipants"}, {"MESSAGE_EXECUTOR"})>>
  \o When(hub, <<Map("TemplateRegistryReplica", {"onTemplate"}, {"MESSAGE_EXECUTOR"})>>)
  \o <<Map("RNContractFactory", {"deploy"}, {"FACTORY_ADMIN", "FACTORY_DEPLOYER"}),
       Map("ContractFactory", {"deploy"}, {"FACTORY_ADMIN", "FACTORY_DEPLOYER"})>>

\* Mutation: the grant that lets TokenCore reach EnygmaPNEvents is missing.
PNGrantsUncreated(hub) ==
  Grants("FACTORY_ADMIN", <<"ContractFactory", "TokenCore", "ResourceManager">>)
  \o Grants("FACTORY_DEPLOYER", <<"RNEndpoint", "ResourceManager", "RNContractFactory">>)
  \o Grants("ENDPOINT_SENDER", <<"ParticipantStorage", "TokenCore", "TokenFreezeManager">>)
  \o Grants("TOKEN_CREATOR", <<"ContractFactory">>)
  \o When(hub, <<Grant("MESSAGE_EXECUTOR", "MessageExecutor")>>)
  \o <<Grant("MESSAGE_EXECUTOR", "RNMessageExecutor")>>
  \o When(hub, <<Grant("RELAYER", "ProgrammabilityExecutor"),
                 Grant("MESSAGE_RECEIVER", "MessageReceiver")>>)
  \o Grants("RESOURCE_REGISTRAR", <<"Endpoint", "TokenCore">>)

PNGrants(hub) ==
  Grants("FACTORY_ADMIN", <<"ContractFactory", "TokenCore", "ResourceManager">>)
  \o Grants("FACTORY_DEPLOYER", <<"RNEndpoint", "ResourceManager", "RNContractFactory">>)
  \o Grants("ENDPOINT_SENDER", <<"ParticipantStorage", "TokenCore", "TokenFreezeManager">>)
  \o Grants("TOKEN_CREATOR", <<"ContractFactory", "TokenCore">>)
  \o When(hub, <<Grant("MESSAGE_EXECUTOR", "MessageExecutor")>>)
  \o <<Grant("MESSAGE_EXECUTOR", "RNMessageExecutor")>>
  \o When(hub, <<Grant("RELAYER", "ProgrammabilityExecutor"),
                 Grant("MESSAGE_RECEIVER", "MessageReceiver")>>)
  \o Grants("RESOURCE_REGISTRAR", <<"Endpoint", "TokenCore">>)

\* The factory's templates are thirteen setters of one contract.
PNSeedBytecodes == <<AdminOf("ENDPOINT_SENDER", "FACTORY_ADMIN"),
                     Run("RNContractFactory", {})>>

PNResources(hub) ==
  <<Resource("resource1", "ParticipantStorage"), Resource("resource3", "TokenRegistry")>>
  \o When(hub, <<Resource("resource5", "PNCommunicator")>>)
  \o <<Resource("resource2", "EnygmaPNEvents")>>
  \o When(hub, <<Resource("resource6", "TemplateRegistryReplica")>>)

\* synchronizeWithPrivateHub: two requests to the hub, and two addresses of it
\* that its registry must know by the name the hub's task gave them.
PNSynchronize ==
  <<Run("ParticipantStorage", {Guarded("ParticipantStorage", "endpoint", "send"),
                               Back("Endpoint", "messageSender", "authorizedEndpoint")}),
    Run("TokenRegistry", {Back("TokenRegistry", "freezeManager", "tokenRegistry"),
                          Guarded("TokenFreezeManager", "endpoint", "send"),
                          Back("Endpoint", "messageSender", "authorizedEndpoint")}),
    HubAddress("TokenRegistry", HubNames), HubAddress("DvpTeleport", HubNames)>>

PNNames(hub) ==
  {"RaylsAccessManager", "Endpoint", "ContractFactory", "EnygmaPNEvents", "ParticipantStorage",
   "TokenRegistry", "TokenCore", "TokenFreezeManager", "ResourceManager", "RNUserGovernance",
   "RNEndpoint", "RNMessageExecutor", "RNMessageDispatcher", "RNContractFactory"}
  \cup (IF hub THEN {"MessageExecutor", "PNCommunicator", "TemplateRegistryReplica",
                     "MessageSender", "MessageReceiver", "BatchMessageSender",
                     "ProgrammabilityExecutor"} ELSE {})

\* The phases of the task; each is a sequence of parallel branches.
PrivacyNodePhases(hub) ==
  << <<AccessManagerSteps \o PNRegistries \o PNRaylsNodeSystem \o PNCoreContracts(hub)
       \o PNLateBindings \o PNAdditionalProxies(hub) \o PNAdditionalConfigs(hub)
       \o <<Set("RNContractFactory", [tokenRegistry |-> "TokenRegistry"])>>
       \o When(hub, PNMessageModules)>>,
     PNConfigureContracts(hub),
     <<PNRoles \o PNMaps(hub) \o PNGrants(hub) \o PNSeedBytecodes \o PNResources(hub)
       \o When(hub, PNSynchronize) \o <<Names(PNNames(hub))>> >> >>

-----------------------------------------------------------------------------
\* What the contracts of a privacy node call at run time.
PNFactoryCalls ==
  {Guarded("ResourceManager", "contractFactory", "deploy"),
   Guarded("RNContractFactory", "tokenRegistry", "registerHubToken"),
   Back("TokenRegistry", "tokenCore", "tokenRegistry")}

PNMessageCalls ==
  {Back("Endpoint", "messageReceiver", "authorizedEndpoint"),
   Back("Endpoint", "messageSender", "authorizedEndpoint"),
   Back("Endpoint", "batchMessageSender", "authorizedEndpoint"),
   Guarded("MessageReceiver", "resourceManager", "handleWithResourceId"),
   Guarded("MessageReceiver", "messageExecutor", "executeMessage"),
   Through("MessageExecutor", "ResourceManager", "resource1", "addOrUpdateParticipants"),
   Through("MessageExecutor", "ResourceManager", "resource3", "onMessage"),
   Through("MessageExecutor", "ResourceManager", "resource6", "onTemplate")}

PNTokenCalls ==
  {Guarded("Endpoint", "resourceManager", "registerResourceId"),
   Guarded("TokenCore", "endpoint", "registerResourceId"),
   Guarded("TokenCore", "endpoint", "send"),
   Guarded("TokenCore", "events", "creation"),
   Guarded("TokenFreezeManager", "endpoint", "send"),
   Open("TokenCore", "freezeManager"),
   Back("TokenFreezeManager", "tokenCore", "freezeManager"),
   Back("TokenRegistry", "freezeManager", "tokenRegistry"),
   Guarded("ParticipantStorage", "endpoint", "send"),
   Back("RNEndpoint", "messageExecutor", "authorizedEndpoint"),
   Back("RNEndpoint", "messageDispatcher", "authorizedEndpoint")}

PNCalls == PNFactoryCalls \cup PNTokenCalls

\* New tokens and vaults get a role from the contract that creates them.
PNGrantors == {<<"ResourceManager", "ENDPOINT_SENDER">>, <<"TokenCore", "ENDPOINT_SENDER">>,
               <<"ContractFactory", "ENDPOINT_SENDER">>}
=============================================================================
