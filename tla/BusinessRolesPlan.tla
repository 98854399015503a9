-------------------------- MODULE BusinessRolesPlan --------------------------
(***************************************************************************)
(* activate-business-roles-pn and -pnh (hardhat/tasks/interact/            *)
(* access-control), which src/docker/dev/deploy_contracts.sh runs behind   *)
(* the deployment of a chain: the roles of the people who operate it.      *)
(* Each task sends its four groups of transactions one after the other,    *)
(* and those of a group under rising nonces.  Guardians and labels of      *)
(* roles decide nothing the model has, and have no step.                   *)
(***************************************************************************)
EXTENDS DeploySteps

\* The roles the chain does not have yet, and those the second administers.
Activated(roles, known) == RegisterRoles(SelectSeq(roles, LAMBDA r : r \notin known))
Hierarchy(operator, roles) == [i \in DOMAIN roles |-> AdminOf(roles[i], operator)]

\* What has no name in the registry is left out.
OperatedTokens ==
  <<Map("TokenRegistry", {"operate", "freeze"}, {"PRIVACY_NODE_OPERATOR"}),
    Map("TokenRegistry", {"registerToken"}, {"BANK_EMPLOYEE"})>>
OperatedUsers ==
  <<Map("RNUserGovernance", {"approve"}, {"PRIVACY_NODE_OPERATOR"}),
    Map("RNUserGovernance", {"addressPair"}, {"BANK_EMPLOYEE"})>>

PrivacyNodeActivation(known, names) ==
  Activated(<<"PRIVACY_NODE_OPERATOR", "BANK_EMPLOYEE", "AUDITOR", "COMPLIANCE_OFFICER">>, known)
  \o When("TokenRegistry" \in names, OperatedTokens)
  \o When("RNUserGovernance" \in names, OperatedUsers)
  \o Hierarchy("PRIVACY_NODE_OPERATOR", <<"BANK_EMPLOYEE", "AUDITOR", "COMPLIANCE_OFFICER">>)

\* The hub's task asks for no confirmation: a mapping on what has no name would
\* be one on the zero address.
HubMappings(names) ==
  LET named(c) == IF c \in names THEN c ELSE "zero"
  IN <<Map(named("TokenRegistry"), {"updateStatus"}, {"PRIVATE_NETWORK_OPERATOR"}),
       Map(named("ParticipantStorage"), {"manage"}, {"PRIVATE_NETWORK_OPERATOR"}),
       Map(named("TokenRegistry"), {"freeze"}, {"COMPLIANCE_OFFICER"}),
       Map(named("TemplateRegistry"), {"approve"}, {"PRIVATE_NETWORK_OPERATOR"})>>

HubActivation(known, names) ==
  Activated(<<"PRIVATE_NETWORK_OPERATOR", "NETWORK_AUDITOR", "COMPLIANCE_OFFICER",
              "TOKEN_MANAGER">>, known)
  \o HubMappings(names)
  \o Hierarchy("PRIVATE_NETWORK_OPERATOR", <<"NETWORK_AUDITOR", "COMPLIANCE_OFFICER",
                                             "TOKEN_MANAGER">>)
=============================================================================
