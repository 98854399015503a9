---------------------------- MODULE MCDeployment ----------------------------
\* Model checking of Deployment on the plans of the three tasks; the privacy
\* node with a hub and without one.
EXTENDS Deployment, DeploymentPlans
=============================================================================
