CONSTANTS
  c1 = c1  c2 = c2  c3 = c3  c4 = c4  p1 = p1  p2 = p2  p3 = p3  p4 = p4  vm1 = vm1
  None = None
  Claim = {c1, c2, c4}
  Pod = {p1, p2, p3, p4}
  VM = {vm1}
  NICs <- MCNICs
  UsersOf <- MCUsersOf
  VMOf <- MCVMOf
  Total = 3
  StatusLags = FALSE
SPECIFICATION Spec
INVARIANT TypeOK
 
 
 
