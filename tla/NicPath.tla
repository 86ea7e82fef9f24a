------------------------------ MODULE NicPath ------------------------------
(***************************************************************************)
(* The way from a Subnet to the NICs of a claim: the devices that a node   *)
(* enumerates (internal/profiles/nic, internal/publisher), the claim that  *)
(* the scheduler allocates from them, the addresses that kube-ovn writes   *)
(* to the annotations of the pod, and the Prepare that waits for them      *)
(* (state.go, pkg/nicprepare, pkg/annotation).  Subnets, Vlans and the     *)
(* labels of the node change meanwhile.                                    *)
(*                                                                         *)
(* One claim of one pod; a NIC is told by its interface name.  What else   *)
(* Prepare does is in DeviceState.                                         *)
(***************************************************************************)
EXTENDS Naturals, Subnets

CONSTANTS
  Nic,
  SubnetOf,      \* SubnetOf[n]: the Subnet of the device allocated for n
  ProvidersOf,   \* ProvidersOf[s]: the dedicated providers the Subnet can have
  Long,          \* the providers too long for a device attribute
  Default,       \* the provider "ovn" of the primary NIC
  None,
  MaxDisturb     \* bound: number of changes of objects and of failed calls

Provider == UNION {ProvidersOf[s] : s \in Subnet}

\* What the annotations of a NIC are kept under: its provider, alone or with the
\* interface name.
Keys == {<<p, o>> : p \in Provider, o \in Nic \cup {None}}

\* A provider is named after its Subnet, so it never moves to another.
ASSUME NicPathAssumption ==
  /\ SubnetOf \in [Nic -> Subnet]
  /\ DOMAIN ProvidersOf = Subnet
  /\ \A s, t \in Subnet : s # t => ProvidersOf[s] \cap ProvidersOf[t] = {}
  /\ Default \notin Provider /\ "" \notin Provider
  /\ None \notin Provider \cup Nic \cup Keys \cup {Default, ""}
  /\ MaxDisturb \in Nat

VARIABLES
  spec,              \* spec[s]: the Subnet and its Vlan
  ready,             \* is the ProviderNetwork ready on the node?
  disturbed,         \* number of changes and failures so far
  driverResources,   \* the devices of the last refresh
  allocatable,       \* allocatable[s]: the provider attribute of the device; "" without
                     \* one, None without a device
  listed,            \* what a refresh has enumerated and not stored yet, or None
  allocated,         \* is the claim allocated?
  record,            \* record[n]: the provider kube-ovn recorded on the claim
  annotation,        \* annotation[n]: the key of the annotations of n on the pod
  call,              \* "idle", "called" or "resolving": Prepare
  carried,           \* carried[n]: record in the claim the call carries
  asked,             \* asked[n]: the provider n waits for
  stage,             \* stage[n]: how far resolveNIC has come
  found,             \* found[n]: the NIC whose annotations it read
  prepared           \* has Prepare returned the NICs?

objects == <<spec, ready>>
devices == <<driverResources, allocatable, listed>>
claim == <<allocated, record, annotation>>
prepare == <<call, carried, asked, stage, found, prepared>>
vars == <<objects, disturbed, devices, claim, prepare>>

Vlan == {"none", "missing", "untagged", "tagged"}
Device(s) == ProvidersOf[s] \cup {"", None}
Devices == {d \in [Subnet -> Provider \cup {"", None}] : \A s \in Subnet : d[s] \in Device(s)}
SubnetSpecs == {x \in [Subnet -> [provider : Provider \cup {Default}, vlan : Vlan]] :
            \A s \in Subnet : x[s].provider \in ProvidersOf[s] \cup {Default}}

TypeOK ==
  /\ spec \in SubnetSpecs
  /\ ready \in BOOLEAN
  /\ disturbed \in 0..MaxDisturb
  /\ driverResources \in Devices /\ allocatable \in Devices /\ listed \in Devices \cup {None}
  /\ allocated \in BOOLEAN
  /\ record \in [Nic -> Provider \cup {None}]
  /\ annotation \in [Nic -> Keys \cup {None}]
  /\ call \in {"idle", "called", "resolving"}
  /\ carried \in [Nic -> Provider \cup {None}]
  /\ asked \in [Nic -> Provider \cup {None}]
  /\ stage \in [Nic -> {"off", "wait", "mtu", "done", "failed"}]
  /\ found \in [Nic -> Nic \cup {None}]
  /\ prepared \in BOOLEAN

-----------------------------------------------------------------------------
(* Devices                                                                 *)

\* ParseSubnet fails while the Vlan is missing.  A Vlan without an id makes no
\* underlay Subnet.
ProviderNetworkOf(s) == IF spec[s].vlan = "tagged" THEN "pn" ELSE ""

\* Publishable, by its provider.
Publishable(s) == spec[s].provider # Default

\* Device leaves out an attribute that is too long.
ProviderAttr(s) == IF spec[s].provider \in Long THEN "" ELSE spec[s].provider

\* The pool of the Subnet is offered on this node: the snapshot has the Subnet, and
\* the node selector of the pool takes the node.
Offered(s) ==
  /\ spec[s].vlan # "missing"
  /\ Publishable(s)
  /\ ProviderNetworkOf(s) # "" => ready

\* EnumerateDevices: one Subnet that cannot be parsed fails it.
EnumerateFails == \E s \in Subnet : spec[s].vlan = "missing"
EnumerateDevices ==
  [s \in Subnet |-> IF Publishable(s) /\ (ProviderNetworkOf(s) # "" => ready)
                    THEN ProviderAttr(s) ELSE None]

Init ==
  /\ spec \in SubnetSpecs /\ ~EnumerateFails
  /\ ready \in BOOLEAN
  /\ disturbed = 0
  /\ driverResources = EnumerateDevices /\ allocatable = EnumerateDevices /\ listed = None
  /\ allocated = FALSE
  /\ record = [n \in Nic |-> None]
  /\ annotation = [n \in Nic |-> None]
  /\ call = "idle"
  /\ carried = [n \in Nic |-> None]
  /\ asked = [n \in Nic |-> None]
  /\ stage = [n \in Nic |-> "off"]
  /\ found = [n \in Nic |-> None]
  /\ prepared = FALSE

\* RefreshDevices enumerates without the lock ...
RefreshList ==
  /\ listed = None
  /\ ~EnumerateFails
  /\ listed' = EnumerateDevices
  /\ UNCHANGED <<objects, disturbed, driverResources, allocatable, claim, prepare>>

\* ... and stores the result with it, which Prepare holds while it resolves.
RefreshStore ==
  /\ listed # None
  /\ call # "resolving"
  /\ IF listed = driverResources THEN UNCHANGED <<driverResources, allocatable>>
     ELSE driverResources' = listed /\ allocatable' = listed
  /\ listed' = None
  /\ UNCHANGED <<objects, disturbed, claim, prepare>>

-----------------------------------------------------------------------------
(* The cluster                                                             *)

Disturb == disturbed < MaxDisturb /\ disturbed' = disturbed + 1

\* A Subnet gets another provider or Vlan, or its Vlan comes or goes.
EditSubnet(s) ==
  /\ Disturb
  /\ \/ \E p \in (ProvidersOf[s] \cup {Default}) \ {spec[s].provider} :
          spec' = [spec EXCEPT ![s].provider = p]
     \/ \E v \in Vlan \ {spec[s].vlan} : spec' = [spec EXCEPT ![s].vlan = v]
  /\ UNCHANGED <<ready, devices, claim, prepare>>

EditNode ==
  /\ Disturb
  /\ ready' = ~ready
  /\ UNCHANGED <<spec, devices, claim, prepare>>

\* The scheduler allocates the claim from devices that are offered on the node.
Schedule ==
  /\ ~allocated
  /\ \A n \in Nic : Offered(SubnetOf[n])
  /\ allocated' = TRUE
  /\ UNCHANGED <<objects, disturbed, devices, record, annotation, prepare>>

\* kube-ovn-controller takes the providers of the Subnets, records them on the
\* claim ...
Record ==
  /\ allocated
  /\ \A n \in Nic : record[n] = None /\ Publishable(SubnetOf[n])
  /\ record' = [n \in Nic |-> spec[SubnetOf[n]].provider]
  /\ UNCHANGED <<objects, disturbed, devices, allocated, annotation, prepare>>

\* ... and writes what it allocated to the pod: for a NIC alone on its provider
\* under the provider, else under the provider and the interface name.
Key(n) ==
  <<record[n], IF \E m \in Nic \ {n} : record[m] = record[n] THEN n ELSE None>>
Annotate ==
  /\ \A n \in Nic : record[n] # None /\ annotation[n] = None
  /\ annotation' = [n \in Nic |-> Key(n)]
  /\ UNCHANGED <<objects, disturbed, devices, allocated, record, prepare>>

-----------------------------------------------------------------------------
(* Prepare                                                                 *)

\* kubelet calls Prepare, again after a failure, with the claim as it is now.
Call ==
  /\ allocated /\ ~prepared
  /\ call = "idle"
  /\ call' = "called"
  /\ carried' = record
  /\ UNCHANGED <<objects, disturbed, devices, claim, asked, stage, found, prepared>>

Fail ==
  /\ call' = "idle"
  /\ UNCHANGED <<asked, stage, found>>

\* checkAllocatable: an unknown device makes Prepare enumerate the devices again,
\* which can take away one that was checked before.
Missing == \E n \in Nic : allocatable[SubnetOf[n]] = None

\* RequestIPAM: the provider of a NIC is the one recorded, else that of the device,
\* and has to be a dedicated one.
BugProviderOf(n, d) ==   \* the record is not read
  IF d[SubnetOf[n]] = "" THEN None ELSE d[SubnetOf[n]]
BugProviderCheck(n, d) ==   \* a device without the attribute is taken as well
  IF carried[n] # None THEN carried[n] ELSE d[SubnetOf[n]]
ProviderOf(n, d) ==
  IF carried[n] # None THEN carried[n]
  ELSE IF d[SubnetOf[n]] = "" THEN None ELSE d[SubnetOf[n]]

Begin ==
  /\ call = "called"
  /\ IF Missing /\ EnumerateFails THEN UNCHANGED allocatable /\ Fail
     ELSE /\ allocatable' = IF Missing THEN EnumerateDevices ELSE allocatable
          /\ \/ /\ \E n \in Nic : allocatable'[SubnetOf[n]] = None
                /\ Fail
             \/ /\ \A n \in Nic : allocatable[SubnetOf[n]] = None => allocatable'[SubnetOf[n]] # None
                /\ call' = "resolving"
                /\ asked' = [n \in Nic |-> ProviderOf(n, allocatable')]
                /\ stage' = [n \in Nic |-> IF asked'[n] = None THEN "failed" ELSE "wait"]
                /\ found' = [n \in Nic |-> None]
  /\ UNCHANGED <<objects, disturbed, driverResources, listed, claim, carried, prepared>>

\* WaitForAllocation: the annotations under "<provider>.<interface>" win over those
\* under the provider.
BugAnswers(n) ==   \* any annotation of the provider answers
  {m \in Nic : annotation[m] # None /\ annotation[m][1] = asked[n]}
Answers(n) ==
  LET under(key) == {m \in Nic : annotation[m] = key}
  IN IF under(<<asked[n], n>>) # {} THEN under(<<asked[n], n>>) ELSE under(<<asked[n], None>>)

Poll(n) ==
  /\ stage[n] = "wait"
  /\ \E m \in Answers(n) : found' = [found EXCEPT ![n] = m]
  /\ stage' = [stage EXCEPT ![n] = "mtu"]
  /\ UNCHANGED <<objects, disturbed, devices, claim, call, carried, asked, prepared>>

\* The wait times out, or a call to the API server fails.
PollFails(n) ==
  /\ \/ stage[n] = "wait" /\ Answers(n) = {} /\ UNCHANGED disturbed
     \/ stage[n] \in {"wait", "mtu"} /\ Disturb
  /\ stage' = [stage EXCEPT ![n] = "failed"]
  /\ UNCHANGED <<objects, devices, claim, call, carried, asked, found, prepared>>

\* SubnetMTU reads the Subnet again and, unless that has an MTU, its Vlan, which has
\* to be there.
SubnetMTU(n) ==
  /\ stage[n] = "mtu"
  /\ \/ stage' = [stage EXCEPT ![n] = "done"]
     \/ /\ spec[SubnetOf[n]].vlan = "missing"
        /\ stage' = [stage EXCEPT ![n] = "failed"]
  /\ UNCHANGED <<objects, disturbed, devices, claim, call, carried, asked, found, prepared>>

\* resolveNICs returns when every NIC is resolved, with any error.
Resolved ==
  /\ call = "resolving"
  /\ \A n \in Nic : stage[n] \in {"done", "failed"}
  /\ prepared' = \A n \in Nic : stage[n] = "done"
  /\ call' = "idle"
  /\ UNCHANGED <<objects, disturbed, devices, claim, carried, asked, stage, found>>

PrepareStep ==
  \/ Call \/ Begin \/ Resolved
  \/ \E n \in Nic : Poll(n) \/ PollFails(n) \/ SubnetMTU(n)

Next ==
  \/ PrepareStep
  \/ RefreshList \/ RefreshStore
  \/ Schedule \/ Record \/ Annotate
  \/ EditNode
  \/ \E s \in Subnet : EditSubnet(s)

Spec == Init /\ [][Next]_vars

\* kubelet retries, the controller works, and Prepare goes on.
FairSpec == Spec /\ WF_vars(PrepareStep) /\ WF_vars(Record) /\ WF_vars(Annotate)

-----------------------------------------------------------------------------
(* Properties                                                              *)

\* Every NIC that Prepare returns has the address that kube-ovn allocated for it,
\* not that of another NIC of the pod, also when the provider of its Subnet changed
\* between the refresh, the record and the annotation.
OwnAllocation == prepared => \A n \in Nic : found[n] = n

\* All devices of the claim are offered on the node, and it can enumerate them.
Sound == ~EnumerateFails /\ \A n \in Nic : Offered(SubnetOf[n])

\* An allocated claim is prepared in the end, unless a Subnet of it, or the Vlan of
\* any Subnet, is taken away: no failure, stale device, changed provider or lost
\* refresh keeps it waiting.
EventuallyPrepared == (allocated /\ Sound) ~> (prepared \/ ~Sound)

=============================================================================
