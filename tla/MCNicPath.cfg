CONSTANTS
  net1 = net1  net2 = net2  net3 = net3  s1 = s1  s2 = s2  p1 = p1  q1 = q1  p2 = p2
  Subnet = {s1, s2}
  Nic = {net1, net2, net3}
  SubnetOf <- MCSubnetOf
  ProvidersOf <- MCProvidersOf
  Long = {p2}
  Default = Default
  None = None
  MaxDisturb = 2
SPECIFICATION FairSpec
INVARIANT TypeOK
INVARIANT OwnAllocation
PROPERTY EventuallyPrepared
CHECK_DEADLOCK FALSE
