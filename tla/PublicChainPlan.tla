--------------------------- MODULE PublicChainPlan ---------------------------
(***************************************************************************)
(* deploy:public-chain (hardhat/tasks/deploy/public-chain.ts).             *)
(***************************************************************************)
EXTENDS DeploySteps

PCBridge ==
  Proxies(<< <<"DeploymentProxyRegistry", << >> >>, <<"PublicRNEndpoint", << >> >>,
             <<"RNMessageExecutor", << >> >>, <<"RNMessageDispatcher", << >> >> >>)

\* The factory needs some endpoint for both of its slots: a full Endpoint.
PCFactoryStack ==
  Proxies(<< <<"Endpoint", << >> >>, <<"RNUserGovernance", << >> >> >>)
  \o Proxy("RNContractFactory", [endpoint |-> "Endpoint", raylsNodeEndpoint |-> "Endpoint"])

\* Promise.all: three branches of one transaction.
PCConfigureBridge ==
  << <<Set("PublicRNEndpoint", [messageExecutor |-> "RNMessageExecutor",
                                messageDispatcher |-> "RNMessageDispatcher"])>>,
     <<Set("RNMessageDispatcher", [authorizedEndpoint |-> "PublicRNEndpoint"])>>,
     <<Set("RNMessageExecutor", [authorizedEndpoint |-> "PublicRNEndpoint"])>> >>

\* Mutation: both modules of the bridge become executors.
PCRolesExcess ==
  RegisterRoles(<<"RELAYER", "AUTHORIZED_SENDER", "MESSAGE_EXECUTOR">>)
  \o <<Map("PublicRNEndpoint", {"receivePayload"}, {"RELAYER"}),
       Map("PublicRNEndpoint", {"send"}, {"AUTHORIZED_SENDER"}),
       AdminOf("AUTHORIZED_SENDER", "RELAYER"),
       Grant("MESSAGE_EXECUTOR", "RNMessageExecutor"),
       Grant("MESSAGE_EXECUTOR", "RNMessageDispatcher")>>

PCRoles ==
  RegisterRoles(<<"RELAYER", "AUTHORIZED_SENDER", "MESSAGE_EXECUTOR">>)
  \o <<Map("PublicRNEndpoint", {"receivePayload"}, {"RELAYER"}),
       Map("PublicRNEndpoint", {"send"}, {"AUTHORIZED_SENDER"}),
       AdminOf("AUTHORIZED_SENDER", "RELAYER"),
       Grant("MESSAGE_EXECUTOR", "RNMessageExecutor")>>

PCTokenFactory ==
  <<Set("Endpoint", [userGovernance |-> "RNUserGovernance"]), Role("FACTORY_DEPLOYER"),
    Map("RNContractFactory", {"deploy"}, {"FACTORY_DEPLOYER"}),
    Grant("FACTORY_DEPLOYER", deployer), Run("RNContractFactory", {})>>

PCNames == {"RaylsAccessManager", "PublicRNEndpoint", "RNMessageExecutor", "RNMessageDispatcher",
            "RNContractFactory", "RNUserGovernance", "Endpoint"}

PublicChainPhases ==
  << <<AccessManagerSteps \o PCBridge \o PCFactoryStack>>,
     PCConfigureBridge,
     <<PCRoles \o PCTokenFactory \o <<Names(PCNames)>> >> >>

-----------------------------------------------------------------------------
\* What the contracts of the bridge call at run time, and what the factory
\* asks of its endpoint for every token it deploys.
PCMessageCalls == {Back("PublicRNEndpoint", "messageExecutor", "authorizedEndpoint"),
                   Back("PublicRNEndpoint", "messageDispatcher", "authorizedEndpoint")}
PCFactoryCalls == {Through("RNContractFactory", "Endpoint", "userGovernance", "open")}
=============================================================================
