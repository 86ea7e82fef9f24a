--------------------------- MODULE MCDeviceState ---------------------------
(* Small instances of DeviceState for TLC. *)
EXTENDS DeviceState, TLC

CONSTANTS c1, c2, c3, p1, p2, r1, r2, r3, r4, d1, net1, net2, a1, a2, vm1

\* c1 has up to two NICs, c2 one whose interface name c1 uses too, c3 another.
MCResultsOf == [c \in Claim |->
  CASE c = c1 -> {r1, r2} \cap Result [] c = c2 -> {r3} [] OTHER -> {r4}]
MCDeviceOf == [r \in Result |-> d1]
MCIfaceOf == [r \in Result |-> IF r \in {r2, r4} THEN net2 ELSE net1]

\* p1 uses c1 and c2, p2 c2 and c3, unless c1 is the only claim.
MCUses == IF Claim = {c1} THEN [p \in Pod |-> {c1}]
          ELSE [p \in Pod |-> IF p = p1 THEN {c1, c2} ELSE {c2, c3}]
OneVM == [p \in Pod |-> vm1]

\* Addresses are only compared.
Addrs == Permutations(Addr)

=============================================================================
