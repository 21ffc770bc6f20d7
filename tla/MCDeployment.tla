---------------------------- MODULE MCDeployment ----------------------------
(***************************************************************************)
(* A small instance of Deployment for TLC.                                  *)
(***************************************************************************)
EXTENDS Deployment
=============================================================================
