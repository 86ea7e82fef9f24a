------------------------------ MODULE Subnets ------------------------------
(***************************************************************************)
(* The kube-ovn Subnets that NicPath and Publisher are about.              *)
(***************************************************************************)
CONSTANT Subnet

=============================================================================
