----------------------------- MODULE MCNicPath -----------------------------
(* Two NICs on one Subnet and one on another, whose provider can be too     *)
(* long for an attribute.                                                   *)
EXTENDS NicPath

CONSTANTS net1, net2, net3, s1, s2, p1, q1, p2

MCSubnetOf == [n \in Nic |-> IF n = net3 THEN s2 ELSE s1]
MCProvidersOf == [s \in Subnet |-> IF s = s1 THEN {p1, q1} ELSE {p2}]

=============================================================================
