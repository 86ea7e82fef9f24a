CONSTANTS
  p1 = p1  p2 = p2  s1 = s1  s2 = s2  s3 = s3  n1 = n1  n2 = n2
  None = None
  Pod = {p1}
  Sandbox = {s1}
  Iface = {n1}
  PodOf <- MCPodOf
  Overlap = TRUE
  LateStop = FALSE
SPECIFICATION Spec
INVARIANT NoLeftoverPort
