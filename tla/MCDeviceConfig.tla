--------------------------- MODULE MCDeviceConfig ---------------------------
(* Two requests; "net/vlan" is a subrequest that firstAvailable can pick.   *)
EXTENDS DeviceConfig

MCBaseRequestRef == [r \in Request |-> IF r = "net/vlan" THEN "net" ELSE r]
MCRequests == {{}, {"net"}, {"net/vlan"}, {"lan", "net/vlan"}}

=============================================================================
