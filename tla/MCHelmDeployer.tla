---------------------------- MODULE MCHelmDeployer ----------------------------
(* Instances of HelmDeployer for TLC.                                       *)
EXTENDS HelmDeployer

\* The safety properties promise nothing any more once a behaviour is not regular: no
\* need to go on, except where the Cluster goes and what is left has to go with it.
RegularOrGoing == Regular \/ (~stale /\ cluster.state # "active")
=============================================================================
