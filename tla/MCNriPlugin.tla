---------------------------- MODULE MCNriPlugin ----------------------------
(* Instances of NriPlugin: sandboxes s1 and s2 are of pod p1 (the second    *)
(* recreates the first), s3 is of p2.                                       *)
EXTENDS NriPlugin, TLC

CONSTANTS p1, p2, s1, s2, s3, n1, n2

MCPodOf == [s \in Sandbox |-> IF s = s3 THEN p2 ELSE p1]

\* The NICs of a pod, and the sandboxes of one pod, are interchangeable.
MCSymmetry == Permutations(Iface) \cup Permutations({s \in Sandbox : PodOf[s] = p1})

=============================================================================
