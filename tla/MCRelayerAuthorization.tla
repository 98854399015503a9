----------------------- MODULE MCRelayerAuthorization -----------------------
(* Model checking of RelayerAuthorization: a privacy node with one key for
   each use and two on the public chain; the hub has two nodes. *)
EXTENDS RelayerAuthorization, TLC

Lists == "private" :> <<"k1">> @@ "public_pn" :> <<"k2">> @@ "public_pc" :> <<"k3", "k4">>
         @@ "hub_a" :> <<"k5", "k6">> @@ "hub_b" :> <<"k7">>

\* The chains are those that the deployment tasks set up: their plans meet the
\* conditions of the theorems about Deployment, and leave the role RELAYER.
Fresh == INSTANCE DeploymentPlans
ASSUME ChainsAreSetUp == Fresh!PlansFit /\ Fresh!RelayersFit
=============================================================================
