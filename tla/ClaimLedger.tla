---------------------------- MODULE ClaimLedger ----------------------------
(***************************************************************************)
(* What kubelet may count on when it calls NodePrepareResources and        *)
(* NodeUnprepareResources (state.go): a ledger of the node's claims, in    *)
(* which a claim is entered for one pod in a single durable step, is told  *)
(* to kubelet only while it is entered for that pod, and is struck out     *)
(* only when no pod counts on it.  A crash, a restart, a failed write and  *)
(* a lost answer are not steps of it.  DeviceState implements it.          *)
(***************************************************************************)

CONSTANTS Claim, Pod, NIC

VARIABLES
  held,    \* the claims that are entered
  nics,    \* their NICs
  ready    \* ready[c]: the pods kubelet believes claim c to be prepared for

vars == <<held, nics, ready>>

Init ==
  /\ held = {}
  /\ nics = {}
  /\ ready = [c \in Claim |-> {}]

\* Every NIC of claim c in a set is one of pod p.
ForPod(specs, c, p) == \A s \in specs : s.claim = c => s.pod = p

\* kubelet is told of a claim that is entered for the pod, or is not.
Tell(c, p) ==
  \/ UNCHANGED ready
  \/ ForPod(nics', c, p) /\ ready' = [ready EXCEPT ![c] = @ \cup {p}]

\* Prepare of a new claim: all its NICs at once, for one pod.
Enter(c, p) ==
  /\ c \notin held
  /\ held' = held \cup {c}
  /\ nics \subseteq nics' /\ nics' \subseteq NIC
  /\ \A s \in nics' \ nics : s.claim = c /\ s.pod = p
  /\ Tell(c, p)

\* Prepare of a claim that is entered.
Repeat(c, p) ==
  /\ c \in held
  /\ UNCHANGED <<held, nics>>
  /\ Tell(c, p)

\* Pods stop to count on a claim.
Leave(c) ==
  /\ UNCHANGED <<held, nics>>
  /\ ready'[c] \subseteq ready[c]
  /\ ready' = [ready EXCEPT ![c] = ready'[c]]

\* Unprepare: a claim no pod counts on is struck out whole.
Strike(c) ==
  /\ ready[c] = {}
  /\ held' = held \ {c}
  /\ nics' = {s \in nics : s.claim # c}
  /\ UNCHANGED ready

\* An unreadable ledger is replaced by an empty one while a claim is unprepared.
Reset(c) ==
  /\ held' = {} /\ nics' = {}
  /\ ready' = [ready EXCEPT ![c] = {}]

Next ==
  \/ \E c \in Claim : Leave(c) \/ Strike(c) \/ Reset(c)
  \/ \E c \in Claim, p \in Pod : Enter(c, p) \/ Repeat(c, p)

Spec == Init /\ [][Next]_vars

=============================================================================
