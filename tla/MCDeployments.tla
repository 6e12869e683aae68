---------------------------- MODULE MCDeployments ----------------------------
(***************************************************************************)
(* A deployment with a target on an agent and one on a Portainer host, for *)
(* TLC.                                                                    *)
(***************************************************************************)
EXTENDS Deployments

CONSTANTS t1, t2, x1, x2, w1, w2
=============================================================================
