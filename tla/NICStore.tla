------------------------------ MODULE NICStore ------------------------------
(***************************************************************************)
(* The operations of the NIC store (pkg/plumbing/store.go), as functions    *)
(* of the store's two maps.                                                *)
(*                                                                         *)
(* byPod and attached map a pod UID to a list of Specs.  A Spec carries    *)
(* its pod, so each map is modelled as one set of Specs; the order inside  *)
(* a list only decides the order in which a sandbox's NICs are attached,   *)
(* and a caller takes them in every order.  Every operation runs under     *)
(* the store's own mutex and is one step.                                  *)
(***************************************************************************)

\* Add: a Spec for the same pod, claim and interface replaces the old one.
BugAdd(byPod, spec) ==   \* the old one is kept
  IF \E s \in byPod : s.pod = spec.pod /\ s.claim = spec.claim /\ s.iface = spec.iface
  THEN byPod ELSE byPod \cup {spec}
Add(byPod, spec) ==
  {s \in byPod : ~ /\ s.pod = spec.pod
                   /\ s.claim = spec.claim
                   /\ s.iface = spec.iface} \cup {spec}

\* Specs: the NICs of a pod.
Specs(byPod, pod) == {s \in byPod : s.pod = pod}

\* RemoveClaim: the NICs of a claim are forgotten, whatever pod has them.
RemoveClaim(byPod, claim) == {s \in byPod : s.claim # claim}

\* MarkAttached: a NIC is attached; a record of the pod for the same interface,
\* also one of an earlier sandbox, is replaced.
MarkAttached(attached, spec) ==
  {s \in attached : ~(s.pod = spec.pod /\ s.iface = spec.iface)} \cup {spec}

\* TakeAttached returns the attached NICs of a pod, Specs(attached, pod), and
\* leaves the others.
TakeAttached(attached, pod) == {s \in attached : s.pod # pod}

=============================================================================
