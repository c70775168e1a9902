---------------------------- MODULE MCDeployment ----------------------------
(* Small instances of Deployment: two scripts at the same time.            *)
EXTENDS Deployment, TLC
=============================================================================
