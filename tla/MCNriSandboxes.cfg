CONSTANTS
  p1 = p1  p2 = p2  s1 = s1  s2 = s2  s3 = s3  n1 = n1  n2 = n2
  None = None
  Pod = {p1}
  Sandbox = {s1, s2}
  Iface = {n1, n2}
  PodOf <- MCPodOf
  Overlap = FALSE
  LateStop = FALSE
SPECIFICATION Spec
SYMMETRY MCSymmetry
INVARIANT TypeOK
 
INVARIANT NoLeftoverPort
