---------------------------- MODULE MCDeployment ----------------------------
(* Deployment with two runs of the deployer and one of deploy.ts.           *)
EXTENDS Deployment

MCMaxRuns == [s \in Scripts |-> IF s = "deploy" THEN 1 ELSE 2]

=============================================================================
