---------------------------- MODULE MCBatchDeploy ----------------------------
(* Instances of BatchDeploy for TLC. *)
EXTENDS BatchDeploy

\* A proxy sent by hand, then a chunk of two contracts and a configuration at
\* once, then a proxy of a parallel batch.
Kinds == [p |-> "manual", q |-> "proxies", c |-> "contracts", k |-> "config"]
Sizes == [p |-> 1, q |-> 1, c |-> 2, k |-> 1]
Stages == [p |-> 1, c |-> 2, k |-> 2, q |-> 3]

ConfigKinds == [k |-> "config"]
ConfigSizes == [k |-> 2]
ConfigStages == [k |-> 1]
=============================================================================
