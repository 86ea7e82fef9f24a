--------------------- MODULE NicPathAndPublisherProofs ---------------------
(***************************************************************************)
(* NicPath for any Subnets, NICs, providers and bounds: no NIC gets the    *)
(* address of another.                                                     *)
(*                                                                         *)
(* The argument: a NIC only asks for a provider of its own Subnet (Asks),  *)
(* NICs of one Subnet were recorded with one provider (Recorded), and so   *)
(* share it and are told apart by the interface name in their keys         *)
(* (Annotated).  An answer is therefore the NIC's own (AnswersOwn).        *)
(*                                                                         *)
(* Publisher for any Subnets, any number of replicas and any bounds: the   *)
(* Events on the Subnets follow what the leader publishes.                 *)
(*                                                                         *)
(* FullIsTold needs to know why a Subnet in full[i] may be passed over in  *)
(* silence: because the last Event on it says SubnetFull (Said).  That     *)
(* stands only while nobody else records Events (Single), and the map of a *)
(* resting leader is that of its view (Known).                             *)
(***************************************************************************)
EXTENDS NicPath, Publisher, TLAPS

Recorded ==
  /\ \A n \in Nic : record[n] \in ProvidersOf[SubnetOf[n]] \cup {None}
  /\ \A m, n \in Nic : SubnetOf[m] = SubnetOf[n] => record[m] = record[n]

Carries == \A n \in Nic : carried[n] \in {None, record[n]}

Asks == \A n \in Nic : asked[n] \in ProvidersOf[SubnetOf[n]] \cup {None}

Annotated == \A n \in Nic : annotation[n] # None => record[n] # None /\ annotation[n] = Key(n)

Found ==
  /\ \A n \in Nic : stage[n] \in {"mtu", "done"} => found[n] = n
  /\ \A n \in Nic : stage[n] = "wait" => asked[n] # None
  /\ prepared => call = "idle" /\ \A n \in Nic : stage[n] = "done"

Inv == TypeOK /\ Recorded /\ Carries /\ Asks /\ Annotated /\ Found

-----------------------------------------------------------------------------

\* Whatever is enumerated is a list of devices.
LEMMA EnumerateType ==
  ASSUME TypeOK
  PROVE  EnumerateDevices \in Devices
<1>1. \A s \in Subnet : EnumerateDevices[s] \in Device(s)
  BY DEF EnumerateDevices, Device, ProviderAttr, Publishable, TypeOK, SubnetSpecs
<1>2. \A s \in Subnet : Device(s) \subseteq Provider \cup {"", None}
  BY DEF Device, Provider
<1> QED
  BY <1>1, <1>2 DEF Devices, EnumerateDevices

\* The providers of a Subnet are providers.
LEMMA ProviderType ==
  ASSUME NEW n \in Nic
  PROVE  SubnetOf[n] \in Subnet /\ ProvidersOf[SubnetOf[n]] \subseteq Provider
  BY NicPathAssumption DEF NicPathAssumption, Provider

\* An annotation that answers a NIC is its own.
LEMMA AnswersOwn ==
  ASSUME TypeOK, Recorded, Asks, Annotated, NEW n \in Nic, asked[n] # None, NEW m \in Answers(n)
  PROVE  m = n
<1>1. m \in Nic /\ annotation[m] \in {<<asked[n], n>>, <<asked[n], None>>}
  BY DEF Answers
<1>2. annotation[m] # None
  <2>1. asked[n] \in Provider
    BY ProviderType DEF Asks
  <2>2. annotation[m] \in Keys
    BY <1>1, <2>1 DEF Keys
  <2> QED
    BY <2>2, NicPathAssumption DEF NicPathAssumption
<1>3. record[m] # None /\ annotation[m] = Key(m)
  BY <1>1, <1>2 DEF Annotated
<1>4. record[m] = asked[n]
  BY <1>1, <1>3 DEF Key
<1>5. SubnetOf[m] = SubnetOf[n]
  <2>1. asked[n] \in ProvidersOf[SubnetOf[m]] /\ asked[n] \in ProvidersOf[SubnetOf[n]]
    BY <1>1, <1>3, <1>4 DEF Recorded, Asks
  <2> QED
    BY <1>1, <2>1, ProviderType, NicPathAssumption DEF NicPathAssumption
<1>6. record[n] = record[m]
  BY <1>1, <1>5 DEF Recorded
<1>7. SUFFICES ASSUME m # n PROVE FALSE
  OBVIOUS
<1>8. Key(m)[2] = m
  BY <1>1, <1>6, <1>7 DEF Key
<1>9. annotation[m][2] \in {n, None}
  BY <1>1
<1>10. None \notin Nic
  BY NicPathAssumption DEF NicPathAssumption
<1> QED
  BY <1>1, <1>3, <1>7, <1>8, <1>9, <1>10

-----------------------------------------------------------------------------

\* The provider a NIC asks for is one of its Subnet.
LEMMA ProviderOfType ==
  ASSUME TypeOK, Recorded, Carries, NEW n \in Nic, NEW d \in Devices
  PROVE  ProviderOf(n, d) \in ProvidersOf[SubnetOf[n]] \cup {None}
<1>1. d[SubnetOf[n]] \in Device(SubnetOf[n])
  BY ProviderType DEF Devices
<1>2. carried[n] \in ProvidersOf[SubnetOf[n]] \cup {None}
  BY DEF Carries, Recorded
<1> QED
  BY <1>1, <1>2 DEF ProviderOf, Device

\* Begin leaves a list of devices.
LEMMA BeginType ==
  ASSUME TypeOK, Begin
  PROVE  allocatable' \in Devices
  BY EnumerateType DEF Begin, TypeOK

\* What Begin makes the NICs ask for.
LEMMA BeginAsks ==
  ASSUME TypeOK, Recorded, Carries, Asks, Begin
  PROVE  /\ asked' \in [Nic -> Provider \cup {None}]
         /\ Asks'
<1>1. CASE UNCHANGED asked
  BY <1>1 DEF TypeOK, Asks
<1>2. CASE asked' = [n \in Nic |-> ProviderOf(n, allocatable')]
  <2>1. \A n \in Nic : asked'[n] \in ProvidersOf[SubnetOf[n]] \cup {None}
    BY <1>2, BeginType, ProviderOfType
  <2> QED
    BY <1>2, <2>1, ProviderType DEF Asks
<1> QED
  BY <1>1, <1>2 DEF Begin, Fail

\* The records of the moment are of the Subnets' providers.
LEMMA RecordType ==
  ASSUME TypeOK, Record
  PROVE  record' \in [Nic -> Provider \cup {None}] /\ Recorded'
<1>1. \A n \in Nic : spec[SubnetOf[n]].provider \in ProvidersOf[SubnetOf[n]]
  BY ProviderType DEF TypeOK, SubnetSpecs, Record, Publishable
<1> QED
  BY <1>1, ProviderType DEF Record, Recorded

\* A key is made of a provider and a NIC.
LEMMA KeyType ==
  ASSUME TypeOK, NEW n \in Nic, record[n] # None
  PROVE  Key(n) \in Keys
  BY DEF Key, Keys, TypeOK

\* The bound.
LEMMA DisturbType ==
  ASSUME disturbed \in 0..MaxDisturb, Disturb
  PROVE  disturbed' \in 0..MaxDisturb
<1>1. MaxDisturb \in Nat
  BY NicPathAssumption, Zenon DEF NicPathAssumption
<1> QED
  BY <1>1 DEF Disturb

\* A Subnet stays one when one of its fields is replaced.
LEMMA SpecType ==
  ASSUME spec \in SubnetSpecs, NEW s \in Subnet,
         NEW x \in [provider : ProvidersOf[s] \cup {Default}, vlan : Vlan]
  PROVE  [spec EXCEPT ![s] = x] \in SubnetSpecs
<1>1. ProvidersOf[s] \subseteq Provider
  BY DEF Provider
<1>2. x \in [provider : Provider \cup {Default}, vlan : Vlan]
  BY <1>1
<1>3. spec \in [Subnet -> [provider : Provider \cup {Default}, vlan : Vlan]]
  BY DEF SubnetSpecs
<1>4. [spec EXCEPT ![s] = x] \in [Subnet -> [provider : Provider \cup {Default}, vlan : Vlan]]
  BY <1>2, <1>3
<1>5. ASSUME NEW t \in Subnet
      PROVE  [spec EXCEPT ![s] = x][t].provider \in ProvidersOf[t] \cup {Default}
  <2>1. CASE t = s
    BY <1>3, <2>1
  <2>2. CASE t # s
    BY <1>3, <2>2 DEF SubnetSpecs
  <2> QED
    BY <2>1, <2>2
<1> QED
  BY <1>4, <1>5 DEF SubnetSpecs

\* Every step keeps the types.
LEMMA TypeNext ==
  ASSUME TypeOK, Recorded, Carries, Asks, Annotated, Found, [Next]_vars
  PROVE  TypeOK'
<1> USE NicPathAssumption DEF NicPathAssumption
<1>1. CASE Call
  BY <1>1 DEF Call, TypeOK, objects, devices, claim
<1>2. CASE Begin
  <2>1. /\ call' \in {"idle", "called", "resolving"}
        /\ stage' \in [Nic -> {"off", "wait", "mtu", "done", "failed"}]
        /\ found' \in [Nic -> Nic \cup {None}]
    <3>1. CASE Fail
      BY <3>1 DEF Fail, TypeOK
    <3>2. CASE /\ call' = "resolving"
               /\ stage' = [n \in Nic |-> IF asked'[n] = None THEN "failed" ELSE "wait"]
               /\ found' = [n \in Nic |-> None]
      BY <3>2
    <3> QED
      BY <1>2, <3>1, <3>2, Zenon DEF Begin
  <2>2. UNCHANGED <<objects, disturbed, driverResources, listed, claim, carried, prepared>>
    BY <1>2 DEF Begin
  <2> QED
    BY <1>2, <2>1, <2>2, BeginType, BeginAsks DEF TypeOK, objects, claim
<1>3. CASE Resolved
  <2>1. prepared' \in BOOLEAN
    BY <1>3, Zenon DEF Resolved
  <2> QED
    BY <1>3, <2>1 DEF Resolved, TypeOK, objects, devices, claim
<1>4. ASSUME NEW n \in Nic, Poll(n) PROVE TypeOK'
  <2>1. found' \in [Nic -> Nic \cup {None}]
    BY <1>4 DEF Poll, Answers, TypeOK
  <2> QED
    BY <1>4, <2>1 DEF Poll, TypeOK, objects, devices, claim
<1>5. ASSUME NEW n \in Nic, PollFails(n) PROVE TypeOK'
  <2>1. disturbed' \in 0..MaxDisturb
    BY <1>5, DisturbType DEF PollFails, TypeOK
  <2>2. stage' \in [Nic -> {"off", "wait", "mtu", "done", "failed"}]
    BY <1>5 DEF PollFails, TypeOK
  <2>3. UNCHANGED <<objects, devices, claim, call, carried, asked, found, prepared>>
    BY <1>5 DEF PollFails
  <2> QED
    BY <2>1, <2>2, <2>3 DEF TypeOK, objects, devices, claim
<1>6. ASSUME NEW n \in Nic, SubnetMTU(n) PROVE TypeOK'
  BY <1>6 DEF SubnetMTU, TypeOK, objects, devices, claim
<1>7. CASE RefreshList
  BY <1>7, EnumerateType DEF RefreshList, TypeOK, objects, claim, prepare
<1>8. CASE RefreshStore
  <2>1. driverResources' \in Devices /\ allocatable' \in Devices /\ listed' = None
    BY <1>8 DEF RefreshStore, TypeOK
  <2>2. UNCHANGED <<objects, disturbed, claim, prepare>>
    BY <1>8 DEF RefreshStore
  <2> QED
    BY <2>1, <2>2 DEF TypeOK, objects, claim, prepare
<1>9. CASE Schedule
  BY <1>9 DEF Schedule, TypeOK, objects, devices, prepare
<1>10. CASE Record
  BY <1>10, RecordType DEF Record, TypeOK, objects, devices, prepare
<1>11. CASE Annotate
  <2>1. \A n \in Nic : Key(n) \in Keys
    BY <1>11, KeyType DEF Annotate
  <2>2. annotation' \in [Nic -> Keys \cup {None}]
    BY <1>11, <2>1 DEF Annotate
  <2> QED
    BY <1>11, <2>2 DEF Annotate, TypeOK, objects, devices, prepare
<1>12. CASE EditNode
  <2>1. ready' \in BOOLEAN
    BY <1>12, Zenon DEF EditNode
  <2>2. disturbed' \in 0..MaxDisturb
    BY <1>12, DisturbType DEF EditNode, TypeOK
  <2>3. UNCHANGED <<spec, devices, claim, prepare>>
    BY <1>12 DEF EditNode
  <2> QED
    BY <2>1, <2>2, <2>3 DEF TypeOK, devices, claim, prepare
<1>13. ASSUME NEW s \in Subnet, EditSubnet(s) PROVE TypeOK'
  <2>1. spec' \in SubnetSpecs
    <3>1. spec \in SubnetSpecs
      BY DEF TypeOK
    <3>2. spec[s] \in [provider : ProvidersOf[s] \cup {Default}, vlan : Vlan]
      BY <3>1 DEF SubnetSpecs
    <3>3. ASSUME NEW p \in ProvidersOf[s] \cup {Default},
                 spec' = [spec EXCEPT ![s].provider = p]
          PROVE  spec' \in SubnetSpecs
      <4>1. [spec[s] EXCEPT !.provider = p] \in
              [provider : ProvidersOf[s] \cup {Default}, vlan : Vlan]
        BY <3>2
      <4> QED
        BY <3>1, <3>3, <4>1, SpecType
    <3>4. ASSUME NEW v \in Vlan, spec' = [spec EXCEPT ![s].vlan = v]
          PROVE  spec' \in SubnetSpecs
      <4>1. [spec[s] EXCEPT !.vlan = v] \in
              [provider : ProvidersOf[s] \cup {Default}, vlan : Vlan]
        BY <3>2
      <4> QED
        BY <3>1, <3>4, <4>1, SpecType
    <3> QED
      BY <1>13, <3>3, <3>4 DEF EditSubnet
  <2>2. disturbed' \in 0..MaxDisturb
    BY <1>13, DisturbType DEF EditSubnet, TypeOK
  <2>3. UNCHANGED <<ready, devices, claim, prepare>>
    BY <1>13 DEF EditSubnet
  <2> QED
    BY <2>1, <2>2, <2>3 DEF TypeOK, devices, claim, prepare
<1>14. CASE UNCHANGED vars
  BY <1>14 DEF vars, TypeOK, objects, devices, claim, prepare
<1> QED
  BY <1>1, <1>2, <1>3, <1>4, <1>5, <1>6, <1>7, <1>8, <1>9, <1>10, <1>11, <1>12, <1>13, <1>14
  DEF Next, PrepareStep

-----------------------------------------------------------------------------

\* The providers recorded, carried and asked for, and the keys, stay in step.
LEMMA KeysNext ==
  ASSUME TypeOK, Recorded, Carries, Asks, Annotated, [Next]_vars
  PROVE  Recorded' /\ Carries' /\ Asks' /\ Annotated'
<1>1. ASSUME UNCHANGED <<record, carried, asked, annotation>>
      PROVE  Recorded' /\ Carries' /\ Asks' /\ Annotated'
  BY <1>1 DEF Recorded, Carries, Asks, Annotated, Key
<1>2. CASE Call
  BY <1>2 DEF Call, claim, Recorded, Carries, Asks, Annotated, Key
<1>3. CASE Begin
  <2>1. UNCHANGED <<record, carried, annotation>>
    BY <1>3 DEF Begin, claim
  <2> QED
    BY <1>3, <2>1, BeginAsks DEF Recorded, Carries, Annotated, Key
<1>4. CASE Record
  <2>1. UNCHANGED <<carried, asked, annotation>> /\ \A n \in Nic : record[n] = None
    BY <1>4 DEF Record, prepare
  <2>2. \A n \in Nic : carried[n] = None /\ annotation[n] = None
    BY <2>1 DEF Carries, Annotated
  <2> QED
    BY <1>4, <2>1, <2>2, RecordType DEF Carries, Asks, Annotated
<1>5. CASE Annotate
  <2>1. UNCHANGED <<record, carried, asked>>
    BY <1>5 DEF Annotate, prepare
  <2>2. Annotated'
    BY <1>5, <2>1 DEF Annotate, Annotated, Key
  <2> QED
    BY <2>1, <2>2 DEF Recorded, Carries, Asks
<1>6. ASSUME NEW n \in Nic, Poll(n) \/ PollFails(n) \/ SubnetMTU(n)
      PROVE  UNCHANGED <<record, carried, asked, annotation>>
  BY <1>6 DEF Poll, PollFails, SubnetMTU, claim
<1>7. ASSUME Resolved \/ RefreshList \/ RefreshStore \/ Schedule \/ EditNode \/ UNCHANGED vars
      PROVE  UNCHANGED <<record, carried, asked, annotation>>
  BY <1>7, Zenon DEF Resolved, RefreshList, RefreshStore, Schedule, EditNode, vars, claim, prepare
<1>8. ASSUME NEW s \in Subnet, EditSubnet(s)
      PROVE  UNCHANGED <<record, carried, asked, annotation>>
  BY <1>8 DEF EditSubnet, claim, prepare
<1> QED
  BY <1>1, <1>2, <1>3, <1>4, <1>5, <1>6, <1>7, <1>8 DEF Next, PrepareStep

\* What a NIC found is its own, until the next call.
LEMMA FoundNext ==
  ASSUME TypeOK, Recorded, Carries, Asks, Annotated, Found, [Next]_vars
  PROVE  Found'
<1>1. ASSUME UNCHANGED <<call, asked, stage, found, prepared>> PROVE Found'
  BY <1>1 DEF Found
<1>2. CASE Call
  BY <1>2 DEF Call, Found
<1>3. CASE Begin
  <2>1. ~prepared /\ UNCHANGED prepared
    BY <1>3 DEF Begin, Found
  <2>2. CASE Fail
    BY <2>1, <2>2 DEF Fail, Found
  <2>3. CASE stage' = [n \in Nic |-> IF asked'[n] = None THEN "failed" ELSE "wait"]
    BY <2>1, <2>3 DEF Found
  <2> QED
    BY <1>3, <2>2, <2>3, Zenon DEF Begin
<1>4. CASE Resolved
  BY <1>4 DEF Resolved, Found
<1>5. ASSUME NEW n \in Nic, Poll(n) PROVE Found'
  <2>1. PICK m \in Answers(n) : found' = [found EXCEPT ![n] = m]
    BY <1>5, Zenon DEF Poll
  <2>2. m = n
    BY <1>5, <2>1, AnswersOwn DEF Poll, Found
  <2>3. /\ stage[n] = "wait" /\ stage' = [stage EXCEPT ![n] = "mtu"]
        /\ UNCHANGED <<call, asked, prepared>>
    BY <1>5 DEF Poll
  <2> QED
    BY <2>1, <2>2, <2>3 DEF Found, TypeOK
<1>6. ASSUME NEW n \in Nic, PollFails(n) PROVE Found'
  BY <1>6 DEF PollFails, Found, TypeOK
<1>7. ASSUME NEW n \in Nic, SubnetMTU(n) PROVE Found'
  BY <1>7 DEF SubnetMTU, Found, TypeOK
<1>8. ASSUME \/ RefreshList \/ RefreshStore \/ Schedule \/ Record \/ Annotate \/ EditNode
             \/ UNCHANGED vars
      PROVE  UNCHANGED <<call, asked, stage, found, prepared>>
  BY <1>8 DEF RefreshList, RefreshStore, Schedule, Record, Annotate, EditNode, vars, prepare
<1>9. ASSUME NEW s \in Subnet, EditSubnet(s)
      PROVE  UNCHANGED <<call, asked, stage, found, prepared>>
  BY <1>9 DEF EditSubnet, prepare
<1> QED
  BY <1>1, <1>2, <1>3, <1>4, <1>5, <1>6, <1>7, <1>8, <1>9 DEF Next, PrepareStep

\* The inductive invariant holds.
LEMMA Inductive == Spec => []Inv
<1>1. Init => Inv
  <2>1. SUFFICES ASSUME Init PROVE Inv
    OBVIOUS
  <2>2. EnumerateDevices \in Devices
    <3>1. \A s \in Subnet : EnumerateDevices[s] \in Device(s)
      BY <2>1 DEF EnumerateDevices, Device, ProviderAttr, Publishable, Init, SubnetSpecs
    <3>2. \A s \in Subnet : Device(s) \subseteq Provider \cup {"", None}
      BY DEF Device, Provider
    <3> QED
      BY <3>1, <3>2 DEF Devices, EnumerateDevices
  <2>3. allocated \in BOOLEAN /\ prepared \in BOOLEAN /\ ready \in BOOLEAN
    BY <2>1, Zenon DEF Init
  <2>4. TypeOK
    <3>1. MaxDisturb \in Nat
      BY NicPathAssumption, Zenon DEF NicPathAssumption
    <3>2. disturbed \in 0..MaxDisturb
      BY <2>1, <3>1 DEF Init
    <3> QED
      BY <2>1, <2>2, <2>3, <3>2 DEF Init, TypeOK
  <2>5. Recorded /\ Carries /\ Asks /\ Annotated /\ Found
    BY <2>1 DEF Init, Recorded, Carries, Asks, Annotated, Found
  <2> QED
    BY <2>4, <2>5 DEF Inv
<1>2. Inv /\ [Next]_vars => Inv'
  BY TypeNext, KeysNext, FoundNext DEF Inv
<1> QED
  BY <1>1, <1>2, PTL DEF Spec

\* Every variable keeps its type: a device only ever has a provider of its own Subnet,
\* and a NIC asks for the provider of a device or a record (EnumerateDevices, ApplyConfig).
THEOREM NicPathTypesAlways == Spec => []TypeOK
<1>1. Inv => TypeOK
  BY DEF Inv
<1> QED
  BY <1>1, Inductive, PTL

\* For any Subnets, NICs and providers: every NIC that Prepare returns has its own
\* address, whatever changed meanwhile (RequestIPAM, WaitForAllocation).
THEOREM OwnAllocationAlways == Spec => []OwnAllocation
<1>1. Inv => OwnAllocation
  BY DEF Inv, Found, OwnAllocation
<1> QED
  BY <1>1, Inductive, PTL

-----------------------------------------------------------------------------
(* Publisher                                                               *)

FullIn(v) == {s \in Subnet : v[s] = "full"}

\* Without an overlap there is one leader.
Single == ~overlap => \A i, j \in Replica : Leading(i) /\ Leading(j) => i = j

\* A replica that has not published yet knows of no full Subnet; one that waits
\* without a trigger knows those of its view.
Known ==
  \A i \in Replica :
    /\ ~Publishing(i) => full[i] = {}
    /\ term[i] = "wait" /\ ~trigger[i] => full[i] = FullIn(view[i])

\* The last Event on a Subnet that a replica knows to be full says so.
Said == ~overlap => \A i \in Replica : \A s \in full[i] : event[s] = "full"

PubInv == PublisherTypeOK /\ Single /\ Known /\ Said


\* A replica that starts has its type and no memory.
LEMMA RestartedType ==
  ASSUME PublisherTypeOK, NEW i \in Replica, Restarted(i)
  PROVE  /\ term' \in [Replica -> Stage]
         /\ view' \in [Replica -> Pool]
         /\ trigger' \in [Replica -> BOOLEAN]
         /\ full' \in [Replica -> SUBSET Subnet]
         /\ last' \in [Replica -> Pool]
         /\ wanted' \in [Replica -> Pool]
         /\ \A j \in Replica : ~Leading(j)' => full'[j] = {} /\ wanted'[j] = NoPool
<1>1. NoPool \in Pool
  BY DEF NoPool, Pool, Status
<1> QED
  BY <1>1 DEF PublisherTypeOK, Restarted, Stage, Leading

\* What update leaves has its type.
LEMMA UpdateType ==
  ASSUME PublisherTypeOK, NEW i \in Replica, update(i)
  PROVE  /\ full' \in [Replica -> SUBSET Subnet]
         /\ event' \in [Subnet -> {"none", "full", "available"}]
  BY DEF PublisherTypeOK, update

\* Every step keeps the types, and a candidate without memory.
LEMMA PubTypeNext ==
  ASSUME PublisherTypeOK, [PublisherNext]_publisherVars
  PROVE  PublisherTypeOK'
<1> USE PublisherAssumption DEF PublisherAssumption
<1>1. ASSUME NEW i \in Replica, Lead(i) PROVE PublisherTypeOK'
  <2>1. overlap' \in BOOLEAN
    BY <1>1, Zenon DEF Lead
  <2> QED
    BY <1>1, <2>1 DEF PublisherTypeOK, Lead, Stage, Leading, cluster
<1>2. ASSUME NEW i \in Replica, End(i) PROVE PublisherTypeOK'
  <2>1. Restarted(i)
    BY <1>2 DEF End
  <2> QED
    BY <1>2, <2>1, RestartedType DEF PublisherTypeOK, End, cluster
<1>3. ASSUME NEW i \in Replica, LeaseLost(i) PROVE PublisherTypeOK'
  <2>1. Restarted(i)
    BY <1>3 DEF LeaseLost
  <2> QED
    BY <1>3, <2>1, RestartedType DEF PublisherTypeOK, LeaseLost, cluster
<1>4. ASSUME LeaseExpires PROVE PublisherTypeOK'
  BY <1>4 DEF PublisherTypeOK, LeaseExpires, cluster, replica, Leading
<1>5. ASSUME NEW i \in Replica, Sync(i) PROVE PublisherTypeOK'
  BY <1>5 DEF PublisherTypeOK, Sync, cluster, Leading, Stage
<1>6. ASSUME NEW i \in Replica, OnChange(i) PROVE PublisherTypeOK'
  BY <1>6 DEF PublisherTypeOK, OnChange, cluster, Leading
<1>7. ASSUME NEW i \in Replica, First(i) PROVE PublisherTypeOK'
  <2>1. update(i)
    BY <1>7 DEF First
  <2>2. \A j \in Replica : ~Leading(j)' => full'[j] = {} /\ wanted'[j] = NoPool
    BY <1>7 DEF PublisherTypeOK, First, update, Leading
  <2> QED
    BY <1>7, <2>1, <2>2, UpdateType DEF PublisherTypeOK, First, cluster, Stage, resources
<1>8. ASSUME NEW i \in Replica, TakeTrigger(i) PROVE PublisherTypeOK'
  BY <1>8 DEF PublisherTypeOK, TakeTrigger, cluster, Leading, Stage
<1>9. ASSUME NEW i \in Replica, Refresh(i) PROVE PublisherTypeOK'
  <2>1. update(i)
    BY <1>9 DEF Refresh
  <2>2. \A j \in Replica : ~Leading(j)' => full'[j] = {} /\ wanted'[j] = NoPool
    BY <1>9 DEF PublisherTypeOK, Refresh, update, Leading
  <2> QED
    BY <1>9, <2>1, <2>2, UpdateType, Zenon DEF PublisherTypeOK, Refresh, cluster, Stage, resources
<1>10. ASSUME NEW i \in Replica, WriteSlices(i) PROVE PublisherTypeOK'
  BY <1>10 DEF PublisherTypeOK, WriteSlices, cluster, replica, Leading
<1>11. ASSUME NEW s \in Subnet, Change(s) PROVE PublisherTypeOK'
  BY <1>11 DEF PublisherTypeOK, Change, Pool, replica, Leading
<1>12. CASE UNCHANGED publisherVars
  BY <1>12 DEF PublisherTypeOK, publisherVars, cluster, replica, Leading
<1> QED
  BY <1>1, <1>2, <1>3, <1>4, <1>5, <1>6, <1>7, <1>8, <1>9, <1>10, <1>11, <1>12
  DEF PublisherNext, PublishStep


\* Only Lead makes a replica a leader.
LEMMA SingleNext ==
  ASSUME PublisherTypeOK, Single, [PublisherNext]_publisherVars
  PROVE  Single'
<1>1. ASSUME NEW i \in Replica, Lead(i) PROVE Single'
  <2>1. SUFFICES ASSUME ~overlap',
                        NEW a \in Replica, NEW b \in Replica, Leading(a)', Leading(b)'
                 PROVE a = b
    BY DEF Single
  <2>2. \A j \in Replica \ {i} : ~Leading(j)
    BY <1>1, <2>1, Zenon DEF Lead
  <2>3. \A j \in Replica \ {i} : term'[j] = term[j]
    BY <1>1 DEF Lead, PublisherTypeOK
  <2> QED
    BY <2>1, <2>2, <2>3 DEF Leading
<1>2. ASSUME overlap' = overlap, \A j \in Replica : Leading(j)' => Leading(j) PROVE Single'
  BY <1>2 DEF Single
<1>3. ASSUME NEW i \in Replica, End(i) \/ LeaseLost(i) PROVE Single'
  BY <1>2, <1>3 DEF End, LeaseLost, Restarted, Leading, PublisherTypeOK
<1>4. ASSUME NEW i \in Replica, PublishStep(i) PROVE Single'
  BY <1>2, <1>4 DEF PublishStep, Sync, OnChange, First, TakeTrigger, Refresh, WriteSlices,
    replica, Leading, PublisherTypeOK
<1>5. ASSUME LeaseExpires \/ (\E s \in Subnet : Change(s)) \/ UNCHANGED publisherVars PROVE Single'
  BY <1>2, <1>5 DEF LeaseExpires, Change, publisherVars, replica, Leading
<1> QED
  BY <1>1, <1>3, <1>4, <1>5 DEF PublisherNext

\* A refresh makes the map that of the view, and nothing else touches a map but the
\* end of its replica.
LEMMA KnownNext ==
  ASSUME PublisherTypeOK, Known, [PublisherNext]_publisherVars
  PROVE  Known'
<1>1. ASSUME NEW i \in Replica, First(i) \/ Refresh(i) PROVE Known'
  BY <1>1 DEF First, Refresh, update, Known, FullIn, PublisherTypeOK, Publishing
<1>2. ASSUME NEW i \in Replica, End(i) \/ LeaseLost(i) PROVE Known'
  BY <1>2 DEF End, LeaseLost, Restarted, Known, FullIn, PublisherTypeOK, Publishing
<1>3. ASSUME NEW i \in Replica, Lead(i) \/ Sync(i) \/ OnChange(i) \/ TakeTrigger(i) PROVE Known'
  BY <1>3 DEF Lead, Sync, OnChange, TakeTrigger, Known, FullIn, PublisherTypeOK, Publishing
<1>4. ASSUME UNCHANGED replica PROVE Known'
  BY <1>4 DEF replica, Known, FullIn, Publishing
<1>5. ASSUME NEW i \in Replica, WriteSlices(i) PROVE Known'
  BY <1>4, <1>5 DEF WriteSlices
<1>6. ASSUME LeaseExpires \/ (\E s \in Subnet : Change(s)) \/ UNCHANGED publisherVars PROVE Known'
  BY <1>4, <1>6 DEF LeaseExpires, Change, publisherVars
<1> QED
  BY <1>1, <1>2, <1>3, <1>5, <1>6 DEF PublisherNext, PublishStep

\* A Subnet enters a map with its Event, and no other replica takes it back.
LEMMA SaidNext ==
  ASSUME PublisherTypeOK, Single, Known, Said, [PublisherNext]_publisherVars
  PROVE  Said'
<1>1. ASSUME NEW i \in Replica, First(i) \/ Refresh(i) PROVE Said'
  <2>1. SUFFICES ASSUME ~overlap, NEW j \in Replica, NEW s \in full'[j] PROVE event'[s] = "full"
    BY <1>1 DEF Said, First, Refresh
  <2>2. Leading(i)
    BY <1>1 DEF First, Refresh, Leading
  <2>3. CASE j = i
    BY <1>1, <2>1, <2>3 DEF First, Refresh, update, Said, PublisherTypeOK
  <2>4. CASE j # i
    <3>1. full'[j] = full[j]
      BY <1>1, <2>4 DEF First, Refresh, update, PublisherTypeOK
    <3>2. ~Publishing(j)
      BY <2>1, <2>2, <2>4 DEF Single, Leading, Publishing
    <3> QED
      BY <2>1, <3>1, <3>2 DEF Known
  <2> QED
    BY <2>3, <2>4
<1>2. ASSUME NEW i \in Replica, End(i) \/ LeaseLost(i) PROVE Said'
  BY <1>2 DEF End, LeaseLost, Restarted, Said, PublisherTypeOK
<1>3. ASSUME UNCHANGED <<full, event>>, ~overlap' => ~overlap PROVE Said'
  BY <1>3 DEF Said
<1>4. ASSUME NEW i \in Replica, Lead(i) PROVE Said'
  BY <1>3, <1>4, Zenon DEF Lead
<1>5. ASSUME NEW i \in Replica, Sync(i) \/ OnChange(i) \/ TakeTrigger(i) \/ WriteSlices(i)
      PROVE Said'
  BY <1>3, <1>5 DEF Sync, OnChange, TakeTrigger, WriteSlices, replica
<1>6. ASSUME LeaseExpires \/ (\E s \in Subnet : Change(s)) \/ UNCHANGED publisherVars PROVE Said'
  BY <1>3, <1>6 DEF LeaseExpires, Change, publisherVars, replica
<1> QED
  BY <1>1, <1>2, <1>4, <1>5, <1>6 DEF PublisherNext, PublishStep

\* The inductive invariant holds.
LEMMA PubInductive == PublisherSpec => []PubInv
<1>1. PublisherInit => PubInv
  <2>1. NoPool \in Pool
    BY DEF NoPool, Pool, Status
  <2>2. PublisherInit => PublisherTypeOK
    <3> SUFFICES ASSUME PublisherInit PROVE PublisherTypeOK
      OBVIOUS
    <3>1. trigger \in [Replica -> BOOLEAN] /\ overlap \in BOOLEAN
      BY Zenon DEF PublisherInit
    <3>2. /\ changes \in 0..MaxChange /\ ends \in 0..MaxEnd
          /\ term \in [Replica -> Stage]
          /\ event \in [Subnet -> {"none", "full", "available"}]
      BY PublisherAssumption DEF PublisherAssumption, PublisherInit, Stage
    <3>3. /\ view \in [Replica -> Pool] /\ last \in [Replica -> Pool]
          /\ wanted \in [Replica -> Pool] /\ full \in [Replica -> SUBSET Subnet]
      BY <2>1, Zenon DEF PublisherInit
    <3>4. subnets \in Pool /\ slices \in Pool /\ lease \in Replica \cup {Nobody}
      BY <2>1, Zenon DEF PublisherInit
    <3>5. \A i \in Replica : full[i] = {} /\ wanted[i] = NoPool
      BY Zenon DEF PublisherInit
    <3> QED
      BY <3>1, <3>2, <3>3, <3>4, <3>5, Zenon DEF PublisherTypeOK
  <2>3. PublisherInit => \A i \in Replica : term[i] = "candidate" /\ full[i] = {}
    BY DEF PublisherInit
  <2>4. PublisherInit => Single /\ Known /\ Said
    BY <2>3 DEF Single, Known, Said, Leading, Publishing
  <2> QED
    BY <2>2, <2>4 DEF PubInv
<1>2. PubInv /\ [PublisherNext]_publisherVars => PubInv'
  BY PubTypeNext, SingleNext, KnownNext, SaidNext DEF PubInv
<1> QED
  BY <1>1, <1>2, PTL DEF PublisherSpec

\* Every variable keeps its type, and a candidate remembers nothing of an earlier term
\* (all of runPublisher and publish, over restarts and handovers).
THEOREM PublisherTypesAlways == PublisherSpec => []PublisherTypeOK
<1>1. PubInv => PublisherTypeOK
  BY DEF PubInv
<1> QED
  BY <1>1, PubInductive, PTL

\* For any replicas and Subnets: when the leader rests, the last Event on a full
\* Subnet says that it is full (fullSubnets.update, over restarts and handovers).
THEOREM FullIsToldAlways == PublisherSpec => []FullIsTold
<1>1. PubInv => FullIsTold
  BY DEF PubInv, FullIsTold, Rests, Known, Said, FullIn, PublisherTypeOK
<1> QED
  BY <1>1, PubInductive, PTL

\* For any replicas and Subnets: SubnetAvailable only follows SubnetFull.
THEOREM AvailableTakesBackAlways == PublisherSpec => AvailableTakesBack
<1> DEFINE Back == \A s \in Subnet :
             ~overlap /\ event[s] # event'[s] /\ event'[s] = "available" => event[s] = "full"
<1>1. PubInv /\ [PublisherNext]_publisherVars => Back
  <2>1. SUFFICES ASSUME PubInv, [PublisherNext]_publisherVars, NEW s \in Subnet,
                        ~overlap, event[s] # event'[s], event'[s] = "available"
                 PROVE event[s] = "full"
    OBVIOUS
  <2>2. PICK i \in Replica : First(i) \/ Refresh(i)
    <3>1. event' # event
      BY <2>1, Zenon
    <3>2. ASSUME NEW i \in Replica PROVE Lead(i) \/ End(i) \/ LeaseLost(i) => event' = event
      BY Zenon DEF Lead, End, LeaseLost
    <3>3. ASSUME NEW i \in Replica
          PROVE  Sync(i) \/ OnChange(i) \/ TakeTrigger(i) \/ WriteSlices(i) => event' = event
      BY Zenon DEF Sync, OnChange, TakeTrigger, WriteSlices
    <3>4. LeaseExpires \/ (\E n \in Subnet : Change(n)) \/ UNCHANGED publisherVars => event' = event
      BY Zenon DEF LeaseExpires, Change, publisherVars
    <3> QED
      BY <2>1, <3>1, <3>2, <3>3, <3>4, Zenon DEF PublisherNext, PublishStep
  <2>3. s \in full[i]
    BY <2>1, <2>2, Zenon DEF First, Refresh, update
  <2> QED
    BY <2>1, <2>3 DEF PubInv, Said
<1>2. PubInv /\ [PublisherNext]_publisherVars => [Back]_publisherVars
  BY <1>1
<1> QED
  BY <1>2, PubInductive, PTL DEF PublisherSpec, AvailableTakesBack

=============================================================================
