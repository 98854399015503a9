---------------------------- MODULE ExpectedRoles ----------------------------
(***************************************************************************)
(* What the role audit expects of a fresh deployment: the hand-written     *)
(* lists of hardhat/tasks/audit/expected-roles, and the comparison that    *)
(* runOwnRolesAudit of check-roles.ts makes with an access manager.        *)
(***************************************************************************)
EXTENDS AccessControl

\* role -> the registry names that should hold it; others may hold it too
\* when the entry is open (allowUnexpected).
Closed(names) == [grantees |-> names, open |-> FALSE]
OpenTo(names) == [grantees |-> names, open |-> TRUE]

EXPECTED_PC_ROLES ==
  [MESSAGE_EXECUTOR |-> Closed({"RNMessageExecutor"}), AUTHORIZED_SENDER |-> OpenTo({})]

EXPECTED_PN_ROLES ==
  [FACTORY_ADMIN |-> Closed({"ContractFactory", "TokenRegistryReplica"}),
   FACTORY_DEPLOYER |-> Closed({"RNEndpoint", "ResourceManager"}),
   ENDPOINT_SENDER |-> OpenTo({"ParticipantStorage", "TokenRegistryReplica"}),
   TOKEN_CREATOR |-> Closed({"TokenRegistryReplica"}),
   MESSAGE_EXECUTOR |-> Closed({"MessageExecutor", "RNMessageExecutor"}),
   MESSAGE_RECEIVER |-> Closed({"MessageReceiver"}),
   RESOURCE_REGISTRAR |-> Closed({"Endpoint", "TokenRegistryReplica"})]

EXPECTED_PNH_ROLES ==
  [ENYGMA_CREATOR |-> Closed({"EnygmaTokenManager"}),
   DVP_FACTORY_CALLER |-> Closed({"TokenCore"}),
   REGISTRY_CALLER |-> Closed({"EnygmaFactory"}),
   ENDPOINT_SENDER |-> OpenTo({"TokenCore", "TokenFreezeManager", "ParticipantCore"}),
   FACTORY_ADMIN |-> Closed({"EnygmaFactory", "Dvp", "DvpErc721Factory", "DvpErc1155Factory"}),
   DVP_CONTRACT |-> Closed({"Dvp"}),
   RESOURCE_REGISTRAR |-> Closed({"Endpoint", "EnygmaTokenManager", "TokenCore"}),
   MESSAGE_RECEIVER |-> Closed({"MessageReceiver"})]

\* What the audit reads of a role: a role that is not registered has nobody,
\* and a name that is not in the registry has no address to be found by.
Holders(am, r) == IF r \in am.roles THEN am.members[r] ELSE {}

Missing(am, names, expected) ==
  UNION {{<<"MISSING", r, g>> : g \in expected[r].grantees \ (Holders(am, r) \cap names)}
         : r \in DOMAIN expected}

Unexpected(am, names, expected) ==
  UNION {{<<"UNEXPECTED", r, a>> : a \in Holders(am, r) \ (expected[r].grantees \cap names)}
         : r \in {x \in DOMAIN expected \cap am.roles : ~expected[x].open}}

\* The audit exits with 1 when there is a finding.
RoleFindings(am, names, expected) ==
  Missing(am, names, expected) \cup Unexpected(am, names, expected)
=============================================================================
