----------------------------- MODULE MCCapacity -----------------------------
(* Instances of Capacity: c1 and c3 are claims of p1 with one NIC each, c2   *)
(* has two NICs and is used by the launchers p2 and p3 of one VM, and c4 is  *)
(* the claim of p4.                                                          *)
EXTENDS Capacity, TLC

CONSTANTS c1, c2, c3, c4, p1, p2, p3, p4, vm1

MCNICs == [c \in Claim |-> IF c = c2 THEN 2 ELSE 1]
MCUsersOf == [c \in Claim |-> CASE c = c2 -> {p2, p3} [] c = c4 -> {p4} [] OTHER -> {p1}]
MCVMOf == [p \in Pod |-> IF p \in {p2, p3} THEN vm1 ELSE None]

=============================================================================
