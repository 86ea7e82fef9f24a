--------------------------- MODULE AttachContract ---------------------------
(***************************************************************************)
(* What an Attacher (pkg/plumbing/plumbing.go) promises its caller about   *)
(* one NIC: Attach and Detach as calls that end with or without success,   *)
(* and the NIC as absent, partly there or wired.  OvsAttach implements it. *)
(***************************************************************************)

VARIABLES
  vmi,     \* is the pod a virt-launcher?
  netns,   \* does the netns of the sandbox exist?
  nic,     \* "none" (nothing is left), "partial" or "wired"
  call,    \* the call at work: "none", "attach" or "detach"
  answer   \* the last call, "attached" or "detached" if it succeeded

vars == <<vmi, netns, nic, call, answer>>

NicStates == {"none", "partial", "wired"}

Init ==
  /\ vmi \in BOOLEAN
  /\ netns = TRUE
  /\ nic = "none"
  /\ call = "none"
  /\ answer = "none"

\* A call begins and changes nothing yet.
Begin ==
  /\ call = "none"
  /\ call' \in {"attach", "detach"}
  /\ answer' = "none"
  /\ UNCHANGED <<vmi, netns, nic>>

\* Attach at work only adds: a NIC that is wired stays wired, so that repeating
\* an Attach that succeeded is a no-op.
AttachWorks ==
  /\ call = "attach"
  /\ nic' \in (IF nic = "wired" THEN {"wired"} ELSE {"partial", "wired"})
  /\ UNCHANGED <<vmi, netns, call, answer>>

\* A successful Attach has wired the NIC of a plain pod.
AttachSucceeds ==
  /\ call = "attach"
  /\ netns /\ ~vmi => nic' = "wired"
  /\ nic = "wired" => nic' = "wired"
  /\ nic' \in NicStates \ {"none"}
  /\ call' = "none"
  /\ answer' = "attached"
  /\ UNCHANGED <<vmi, netns>>

\* A failed Attach cleans up as far as it can.
AttachFails ==
  /\ call = "attach"
  /\ nic' \in NicStates
  /\ call' = "none"
  /\ UNCHANGED <<vmi, netns, answer>>

\* Detach at work, or failing, only removes.
DetachWorks ==
  /\ call = "detach"
  /\ nic' \in {nic, "partial", "none"}
  /\ nic = "none" => nic' = "none"
  /\ call' \in {"detach", "none"}
  /\ UNCHANGED <<vmi, netns, answer>>

DetachSucceeds ==
  /\ call = "detach"
  /\ nic' = "none"
  /\ call' = "none"
  /\ answer' = "detached"
  /\ UNCHANGED <<vmi, netns>>

\* DetachPodPorts, between two calls, of a NIC nobody has a record of.
Sweep ==
  /\ call = "none"
  /\ nic' \in {"partial", "none"}
  /\ nic = "none" => nic' = "none"
  /\ answer' = "none"
  /\ UNCHANGED <<vmi, netns, call>>

\* The runtime removes the sandbox, and the process ends, at any time.
DeleteNetns ==
  /\ netns
  /\ netns' = FALSE
  /\ nic' \in {"partial", "none"}
  /\ nic = "none" => nic' = "none"
  /\ UNCHANGED <<vmi, call, answer>>

Crash ==
  /\ call' = "none"
  /\ answer' = "none"
  /\ UNCHANGED <<vmi, netns, nic>>

Next ==
  \/ Begin \/ AttachWorks \/ AttachSucceeds \/ AttachFails
  \/ DetachWorks \/ DetachSucceeds \/ Sweep \/ DeleteNetns \/ Crash

Spec == Init /\ [][Next]_vars

=============================================================================
