--------------------------- MODULE MCControlPlane ---------------------------
(* Instances of ControlPlane for TLC: see the configurations.              *)
EXTENDS ControlPlane
CONSTANTS oidc, service1
=============================================================================
