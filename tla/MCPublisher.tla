---------------------------- MODULE MCPublisher ----------------------------
(* Two replicas and two Subnets. *)
EXTENDS Publisher

CONSTANTS s1, s2, i1, i2

=============================================================================
