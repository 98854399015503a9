-------------------------- MODULE DeploymentPlans --------------------------
(***************************************************************************)
(* The plans of the three deployment tasks, the privacy node's with a hub  *)
(* and without one, each followed by the task that activates its business  *)
(* roles, and what a chain that a task has set up must offer.              *)
(***************************************************************************)
EXTENDS PlanEffects, PrivacyNodePlan, PrivateHubPlan, PublicChainPlan, BusinessRolesPlan

\* The roles that the deployments have registered, with a hub or without one.
HubKnown == Roles(AllSteps(PrivateHubPhases))
PNKnown == Roles(AllSteps(PrivacyNodePhases(TRUE)))

PrivacyNode(hub) ==
  [phases |-> PrivacyNodePhases(hub) \o << <<PrivacyNodeActivation(PNKnown, PNNames(hub))>> >>,
   checks |-> "plain", calls |-> PNCalls, messages |-> IF hub THEN PNMessageCalls ELSE {},
   grantors |-> PNGrantors, expected |-> EXPECTED_PN_ROLES]

TaskPlans ==
  ("private-hub" :> [phases |-> PrivateHubPhases \o << <<HubActivation(HubKnown, HubNames)>> >>,
                     checks |-> "plain", calls |-> HubTokenCalls \cup HubDvpCalls,
                     messages |-> HubMessageCalls, grantors |-> HubGrantors,
                     expected |-> EXPECTED_PNH_ROLES])
  @@ ("privacy-node" :> PrivacyNode(TRUE))
  @@ ("privacy-node-hubless" :> PrivacyNode(FALSE))
  @@ ("public-chain" :> [phases |-> PublicChainPhases, checks |-> "suffixed",
                         calls |-> PCFactoryCalls, messages |-> PCMessageCalls,
                         grantors |-> {}, expected |-> EXPECTED_PC_ROLES])

\* The conditions under which the theorems of Deployment hold.
PlansFit ==
  /\ \A task \in DOMAIN TaskPlans :
       /\ StepsFit(TaskPlans[task]) /\ CallsFit(TaskPlans[task])
       /\ NamesFit(TaskPlans[task]) /\ ResourcesFit(TaskPlans[task])
  /\ \A task \in {"private-hub", "public-chain"} : AuditFits(TaskPlans[task])

\* The tasks that give RELAYER to the relayers' keys find the role on every
\* chain, and their account, the deployer's, may grant it.
RelayersFit ==
  \A task \in DOMAIN TaskPlans : MayGrant(AllSteps(TaskPlans[task].phases), <<deployer, "RELAYER">>)
=============================================================================
