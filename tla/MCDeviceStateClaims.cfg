SPECIFICATION Spec
CONSTANTS
  c1 = c1
  c2 = c2
  c3 = c3
  p1 = p1
  p2 = p2
  r1 = r1
  r2 = r2
  r3 = r3
  r4 = r4
  d1 = d1
  net1 = net1
  net2 = net2
  a1 = a1
  a2 = a2
  vm1 = vm1
  None = None
  Claim = {c1, c2, c3}
  Pod = {p1, p2}
  Result = {r1, r3, r4}
  Device = {d1}
  Iface = {net1, net2}
  Addr = {a1, a2}
  VM = {vm1}
  ResultsOf <- MCResultsOf
  DeviceOf <- MCDeviceOf
  IfaceOf <- MCIfaceOf
  Recorded = {r1}
  Uses <- MCUses
  Local = {p1, p2}
  VMOf <- OneVM
  SharedOnNode = FALSE
INVARIANTS
  TypeOK
  PreparedIsServed
  PreparedIsDurable
  NoIfaceClash
  RestartKeepsSpecs
PROPERTIES
  KeepsLedger
SYMMETRY Addrs
CHECK_DEADLOCK FALSE
