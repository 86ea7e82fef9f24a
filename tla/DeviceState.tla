---------------------------- MODULE DeviceState ----------------------------
(***************************************************************************)
(* The claim side of the kubelet plugin (DeviceState in                    *)
(* cmd/kube-ovn-dra-kubeletplugin/state.go): Prepare and Unprepare of the  *)
(* claims of a node, the three places that remember a prepared claim (the  *)
(* checkpoint file, the CDI spec file and the in-memory NIC store), the    *)
(* device list a claim is checked against, and a crash of the plugin       *)
(* between any two writes.                                                 *)
(*                                                                         *)
(* Prepare and Unprepare hold the state lock from their first to their     *)
(* last statement, and the plugin helper serves one call at a time, so at  *)
(* most one call is in flight: pc tells how far it has come.  A call is    *)
(* split where something else can observe or interrupt it: the wait for    *)
(* kube-ovn's allocation, each store update, each write of a file.         *)
(*                                                                         *)
(* The environment is kubelet with the pods of the node.  kubelet admits a *)
(* pod, prepares its claims (again after an error, a lost answer or its    *)
(* own restart), and once the pod's containers have stopped unprepares     *)
(* them until that succeeds; only then the pod ends in the API.            *)
(***************************************************************************)
EXTENDS NICStore

CONSTANTS
  Claim, Pod, Result, Device, Iface, Addr,
  VM,
  None,          \* no claim, no pod, no VM
  ResultsOf,     \* ResultsOf[c]: the driver's allocation results of claim c
  DeviceOf,      \* DeviceOf[r]: the device (Subnet) of a result
  IfaceOf,       \* IfaceOf[r]: the interface name its config gives it
  Recorded,      \* results whose subnet kube-ovn recorded on the claim
  Uses,          \* Uses[p]: the claims pod p names
  Local,         \* the pods scheduled to this node
  VMOf,          \* VMOf[p]: the KubeVirt VM of a virt-launcher pod, or None
  SharedOnNode   \* may two unfinished pods of the node use one claim?

ASSUME ConstantsAssumption ==
  /\ None \notin Claim \cup Pod \cup VM
  /\ ResultsOf \in [Claim -> SUBSET Result]
  /\ \A c, d \in Claim : c # d => ResultsOf[c] \cap ResultsOf[d] = {}
  /\ DeviceOf \in [Result -> Device]
  /\ IfaceOf \in [Result -> Iface]
  /\ Recorded \subseteq Result
  /\ Uses \in [Pod -> SUBSET Claim]
  /\ Local \subseteq Pod
  /\ VMOf \in [Pod -> VM \cup {None}]
  /\ SharedOnNode \in BOOLEAN

VARIABLES
  \* The plugin process and what its memory holds.
  up,               \* has NewDeviceState returned, and not crashed since?
  byPod,            \* the Specs of the NIC store
  driverResources,  \* the devices of the last refresh
  allocatable,      \* the devices Prepare accepts
  refresh,          \* a RefreshDevices in flight: {} or {what it enumerated}
  \* The call that holds the state lock.
  pc, cur, caller, refs, todo, built,
  \* Files of the node: they survive a crash.
  file,             \* the checkpoint: "absent", "ok" or "bad" (unreadable)
  prepared,         \* its claims
  saved,            \* the NIC Specs of its claims
  cdi,              \* the claims with a CDI spec file
  \* The cluster.
  subnets,          \* the devices EnumerateDevices finds
  phase,            \* phase[p]: a pod as kubelet sees it
  api,              \* pods the API server holds with a phase that is not final
  users,            \* users[c]: the pods kubelet's claim info lists
  ready,            \* ready[c]: the pods whose Prepare of c was answered without
                    \* an error, until kubelet unprepares the claim
  \* Observation only.
  wiped             \* claims a reset of an unreadable checkpoint dropped

memVars == <<byPod, driverResources, allocatable, refresh>>
callVars == <<pc, cur, caller, refs, todo, built>>
fileVars == <<file, prepared, saved, cdi>>
podVars == <<phase, api>>
kubeletVars == <<users, ready>>
vars == <<up, memVars, callVars, fileVars, subnets, podVars, kubeletVars, wiped>>

NIC == [claim : Claim, pod : Pod, iface : Iface, addr : Addr]

Step == {"idle", "resolve", "add", "cdi", "save", "uncdi", "unsave"}

TypeOK ==
  /\ up \in BOOLEAN
  /\ byPod \subseteq NIC
  /\ driverResources \subseteq Device
  /\ allocatable \subseteq Device
  /\ refresh \subseteq SUBSET Device
  /\ pc \in Step
  /\ cur \in Claim \cup {None}
  /\ caller \in Pod \cup {None}
  /\ refs \subseteq Pod
  /\ todo \subseteq Result
  /\ built \subseteq NIC
  /\ file \in {"absent", "ok", "bad"}
  /\ prepared \subseteq Claim
  /\ saved \subseteq NIC
  /\ cdi \subseteq Claim
  /\ subnets \subseteq Device
  /\ phase \in [Pod -> {"new", "live", "stopping", "gone"}]
  /\ api \subseteq Pod
  /\ users \in [Claim -> SUBSET Pod]
  /\ ready \in [Claim -> SUBSET Pod]
  /\ wiped \subseteq Claim

Init ==
  /\ up = FALSE
  /\ byPod = {}
  /\ driverResources = {}
  /\ allocatable = {}
  /\ refresh = {}
  /\ pc = "idle" /\ cur = None /\ caller = None
  /\ refs = {} /\ todo = {} /\ built = {}
  /\ file = "absent"
  /\ prepared = {}
  /\ saved = {}
  /\ cdi = {}
  /\ subnets \in SUBSET Device
  /\ phase = [p \in Pod |-> "new"]
  /\ api = {}
  /\ users = [c \in Claim |-> {}]
  /\ ready = [c \in Claim |-> {}]
  /\ wiped = {}

-----------------------------------------------------------------------------
(* Start and crash of the plugin                                           *)

\* NewDeviceState: the devices are enumerated, then the checkpoint is read
\* and its NICs are added back to the store (restoreNICs), or an empty one is
\* created.  An error anywhere (a failed enumeration, an unreadable
\* checkpoint) ends the process: the step does not happen.
BugNewDeviceState ==   \* the NICs of the checkpoint are not restored
  /\ ~up
  /\ file # "bad"
  /\ up' = TRUE
  /\ driverResources' = subnets
  /\ allocatable' = subnets
  /\ file' = "ok"
  /\ UNCHANGED <<byPod, refresh, callVars, prepared, saved, cdi, subnets, podVars,
                 kubeletVars, wiped>>
NewDeviceState ==
  /\ ~up
  /\ file # "bad"
  /\ up' = TRUE
  /\ driverResources' = subnets
  /\ allocatable' = subnets
  /\ byPod' = saved
  /\ file' = "ok"
  /\ UNCHANGED <<refresh, callVars, prepared, saved, cdi, subnets, podVars, kubeletVars, wiped>>

\* The process ends at any moment: memory and the call in flight are lost.
Crash ==
  /\ up
  /\ up' = FALSE
  /\ byPod' = {}
  /\ driverResources' = {}
  /\ allocatable' = {}
  /\ refresh' = {}
  /\ pc' = "idle" /\ cur' = None /\ caller' = None
  /\ refs' = {} /\ todo' = {} /\ built' = {}
  /\ UNCHANGED <<fileVars, subnets, podVars, kubeletVars, wiped>>

-----------------------------------------------------------------------------
(* Prepare                                                                 *)

\* End of a call: the lock is released.
Unlock ==
  /\ pc' = "idle" /\ cur' = None /\ caller' = None
  /\ refs' = {} /\ todo' = {} /\ built' = {}

\* kubelet calls for a pod it has admitted and whose containers have not
\* stopped, and lists the pod in its claim info before it calls.
MayPrepare(c, p) ==
  /\ up
  /\ pc = "idle"
  /\ p \in Local
  /\ c \in Uses[p]
  /\ phase[p] = "live"

Listed(c, p) == users' = [users EXCEPT ![c] = @ \cup {p}]

\* The answer of a call reaches kubelet, or it does not (a timeout, a pod that
\* was stopped meanwhile).
Answered(c, p) ==
  \/ UNCHANGED ready
  \/ phase[p] = "live" /\ ready' = [ready EXCEPT ![c] = @ \cup {p}]

\* The pods in the claim's ReservedFor when kubelet reads the claim: every
\* consumer, and those that are gone as long as they are still listed.
ReservedFor(c) ==
  LET consumers == {p \in Pod : c \in Uses[p] /\ phase[p] # "new"}
  IN {consumers \ released : released \in SUBSET (consumers \ api)}

\* checkAllocatable over the results of the claim: the devices are enumerated
\* again when one is not known, and only the list Prepare checks is replaced.
\* A device that was known and is missing now is noticed only when its result
\* comes after the unknown one, so the claim may pass or fail then.
Unknown(c) == {DeviceOf[r] : r \in ResultsOf[c]} \ allocatable
Enumerated(c) == IF Unknown(c) = {} THEN allocatable ELSE subnets
DevicesPass(c) == Unknown(c) \subseteq subnets
DevicesFail(c) ==
  /\ Unknown(c) # {}
  /\ \E r \in ResultsOf[c] : DeviceOf[r] \notin subnets

\* checkInterfaceNames: no interface name twice in the claim, and none that a
\* NIC of another claim of one of its pods has.
BugCheckInterfaceNames(c, pods) ==   \* the other claims of the pod are not looked at
  \A r, q \in ResultsOf[c] : IfaceOf[r] = IfaceOf[q] => r = q
checkInterfaceNames(c, pods) ==
  /\ \A r, q \in ResultsOf[c] : IfaceOf[r] = IfaceOf[q] => r = q
  /\ \A p \in pods : \A s \in Specs(byPod, p) :
       s.claim # c => \A r \in ResultsOf[c] : s.iface # IfaceOf[r]

\* The claim is in the checkpoint: its devices are returned, nothing is done.
PrepareCached(c, p) ==
  /\ MayPrepare(c, p)
  /\ file = "ok"
  /\ c \in prepared
  /\ Listed(c, p)
  /\ Answered(c, p)
  /\ UNCHANGED <<up, memVars, callVars, fileVars, subnets, podVars, wiped>>

\* Prepare fails before it waits for kube-ovn: the NRI plugin is not connected,
\* the checkpoint is unreadable, the claim's configs cannot be decoded or applied,
\* the devices cannot be enumerated, a device is unknown, or an interface name is
\* taken.
PrepareRefused(c, p) ==
  /\ MayPrepare(c, p)
  /\ Listed(c, p)
  /\ \/ file = "bad" /\ UNCHANGED allocatable
     \/ /\ file = "ok" /\ c \notin prepared
        /\ \/ UNCHANGED allocatable
           \/ DevicesFail(c) /\ allocatable' = subnets
           \/ DevicesPass(c) /\ allocatable' = Enumerated(c)
  /\ UNCHANGED <<up, byPod, driverResources, refresh, callVars, fileVars, subnets,
                 podVars, ready, wiped>>

\* Prepare reaches resolveNICs.  It keeps the lock while it waits.
PrepareBegin(c, p) ==
  /\ MayPrepare(c, p)
  /\ file = "ok"
  /\ c \notin prepared
  /\ Listed(c, p)
  /\ DevicesPass(c)
  /\ allocatable' = Enumerated(c)
  /\ \E pods \in ReservedFor(c) :
       /\ checkInterfaceNames(c, pods)
       /\ refs' = pods
  /\ pc' = IF ResultsOf[c] = {} THEN "cdi" ELSE "resolve"
  /\ cur' = c /\ caller' = p
  /\ todo' = ResultsOf[c]
  /\ built' = {}
  /\ UNCHANGED <<up, byPod, driverResources, refresh, fileVars, subnets, podVars,
                 ready, wiped>>

\* lookupPodForClaim: the consumers are the pods of ReservedFor the API server
\* still holds; several are accepted only if they are one VM's, and exactly one
\* must be on this node.
Consumers == refs \cap api
checkSharedClaim ==
  \A p, q \in Consumers : p # q => VMOf[p] # None /\ VMOf[p] = VMOf[q]
BugLookupPodForClaim(p) ==   \* the first pod of the node is taken
  checkSharedClaim /\ p \in Consumers \cap Local
lookupPodForClaim(p) == checkSharedClaim /\ Consumers \cap Local = {p}

\* RequestIPAM for one NIC: its pod is looked up and the address is what
\* kube-ovn allocated.  The NICs of a claim are resolved concurrently, so in
\* any order; after the last one they are added to the store.  The step is the
\* read of the pod that finds the allocation: pods only leave, and this one is
\* still there, so what the earlier reads of the consumers accepted still holds.
Resolve(r) ==
  /\ pc = "resolve"
  /\ r \in todo
  /\ DeviceOf[r] \in allocatable \/ r \in Recorded
  /\ \E p \in Pod, a \in Addr :
       /\ lookupPodForClaim(p)
       /\ built' = built \cup {[claim |-> cur, pod |-> p, iface |-> IfaceOf[r], addr |-> a]}
  /\ IF todo = {r}
     THEN pc' = "add" /\ todo' = ResultsOf[cur]
     ELSE todo' = todo \ {r} /\ UNCHANGED pc
  /\ UNCHANGED <<up, memVars, cur, caller, refs, fileVars, subnets, podVars,
                 kubeletVars, wiped>>

\* One NIC could not be resolved (no allocation in time, no pod, an API error):
\* the call fails.  The other NICs are waited for first, but resolving changes
\* nothing on the node.
ResolveFails ==
  /\ pc = "resolve"
  /\ Unlock
  /\ UNCHANGED <<up, memVars, fileVars, subnets, podVars, kubeletVars, wiped>>

\* prepareDevices hands the NICs to the store, one Add each.
AddNIC(r) ==
  /\ pc = "add"
  /\ r \in todo
  /\ \E s \in built : s.iface = IfaceOf[r] /\ byPod' = Add(byPod, s)
  /\ IF todo = {r} THEN pc' = "cdi" ELSE UNCHANGED pc
  /\ todo' = todo \ {r}
  /\ UNCHANGED <<up, driverResources, allocatable, refresh, cur, caller, refs, built,
                 fileVars, subnets, podVars, kubeletVars, wiped>>

\* The CDI spec file of the claim is written.
WriteCDI ==
  /\ pc = "cdi"
  /\ cdi' = cdi \cup {cur}
  /\ pc' = "save"
  /\ UNCHANGED <<up, memVars, cur, caller, refs, todo, built, file, prepared, saved,
                 subnets, podVars, kubeletVars, wiped>>

\* The checkpoint read at the start of the call is written back with the claim,
\* and kubelet gets the devices.
BugSaveCheckpoint ==   \* an empty checkpoint is filled instead of the one read
  /\ pc = "save"
  /\ file' = "ok"
  /\ prepared' = {cur}
  /\ saved' = built
  /\ wiped' = wiped \ {cur}
  /\ Answered(cur, caller)
  /\ Unlock
  /\ UNCHANGED <<up, memVars, cdi, subnets, podVars, users>>
BugSaveAfterUnlock ==   \* the claim is read after the call was reset
  /\ pc = "save"
  /\ file' = "ok"
  /\ Unlock
  /\ prepared' = prepared \cup {cur'}
  /\ saved' = saved \cup built
  /\ wiped' = wiped \ {cur}
  /\ Answered(cur, caller)
  /\ UNCHANGED <<up, memVars, cdi, subnets, podVars, users>>
SaveCheckpoint ==
  /\ pc = "save"
  /\ file' = "ok"
  /\ prepared' = prepared \cup {cur}
  /\ saved' = saved \cup built
  /\ wiped' = wiped \ {cur}
  /\ Answered(cur, caller)
  /\ Unlock
  /\ UNCHANGED <<up, memVars, cdi, subnets, podVars, users>>

\* Writing the CDI file or the checkpoint fails: the call returns an error, and
\* the store keeps the NICs.
PrepareWriteFails ==
  /\ pc \in {"cdi", "save"}
  /\ Unlock
  /\ UNCHANGED <<up, memVars, fileVars, subnets, podVars, kubeletVars, wiped>>

-----------------------------------------------------------------------------
(* Unprepare                                                               *)

\* kubelet calls once the containers of every pod in its claim info have
\* stopped, and forgets the claim info on success.
MayUnprepare(c) ==
  /\ up
  /\ pc = "idle"
  /\ users[c] # {}
  /\ \A p \in users[c] : phase[p] # "live"

\* The answer reaches kubelet or is lost.
Forgotten(c) == UNCHANGED users \/ users' = [users EXCEPT ![c] = {}]

\* kubelet stops counting on the claim before it calls.
Dropped(c) == ready' = [ready EXCEPT ![c] = {}]

\* The claim is not in the checkpoint: Unprepare returns without an error.
BugUnprepareUnknown(c) ==   \* an unknown claim is an error
  /\ MayUnprepare(c)
  /\ file = "ok"
  /\ c \notin prepared
  /\ Dropped(c)
  /\ UNCHANGED <<up, memVars, callVars, fileVars, subnets, podVars, users, wiped>>
UnprepareUnknown(c) ==
  /\ MayUnprepare(c)
  /\ file = "ok"
  /\ c \notin prepared
  /\ Forgotten(c)
  /\ Dropped(c)
  /\ UNCHANGED <<up, memVars, callVars, fileVars, subnets, podVars, wiped>>

\* The checkpoint cannot be read: an empty one replaces it, and the claim is
\* not in it.  If that write fails too, the call fails.
UnprepareResets(c) ==
  /\ MayUnprepare(c)
  /\ file = "bad"
  /\ Dropped(c)
  /\ \/ /\ file' = "ok" /\ prepared' = {} /\ saved' = {}
        /\ wiped' = wiped \cup prepared
        /\ Forgotten(c)
     \/ UNCHANGED <<file, prepared, saved, wiped, users>>
  /\ UNCHANGED <<up, memVars, callVars, cdi, subnets, podVars>>

\* unprepareDevices: the store forgets the claim.
UnprepareBegin(c) ==
  /\ MayUnprepare(c)
  /\ file = "ok"
  /\ c \in prepared
  /\ Dropped(c)
  /\ byPod' = RemoveClaim(byPod, c)
  /\ pc' = "uncdi" /\ cur' = c
  /\ UNCHANGED <<up, driverResources, allocatable, refresh, caller, refs, todo, built,
                 fileVars, subnets, podVars, users, wiped>>

\* The CDI spec file is deleted; a missing one is not an error.
BugDeleteCDI ==   \* the spec files of all claims are deleted
  /\ pc = "uncdi"
  /\ cdi' = {}
  /\ pc' = "unsave"
  /\ UNCHANGED <<up, memVars, cur, caller, refs, todo, built, file, prepared, saved,
                 subnets, podVars, kubeletVars, wiped>>
DeleteCDI ==
  /\ pc = "uncdi"
  /\ cdi' = cdi \ {cur}
  /\ pc' = "unsave"
  /\ UNCHANGED <<up, memVars, cur, caller, refs, todo, built, file, prepared, saved,
                 subnets, podVars, kubeletVars, wiped>>

\* The checkpoint is written back without the claim.
SaveWithout ==
  /\ pc = "unsave"
  /\ file' = "ok"
  /\ prepared' = prepared \ {cur}
  /\ saved' = {s \in saved : s.claim # cur}
  /\ Forgotten(cur)
  /\ Unlock
  /\ UNCHANGED <<up, memVars, cdi, subnets, podVars, ready, wiped>>

\* Deleting the CDI file or writing the checkpoint fails: an error is returned,
\* and kubelet calls again.
UnprepareWriteFails ==
  /\ pc \in {"uncdi", "unsave"}
  /\ Unlock
  /\ UNCHANGED <<up, memVars, fileVars, subnets, podVars, kubeletVars, wiped>>

-----------------------------------------------------------------------------
(* RefreshDevices                                                          *)

\* The devices are enumerated before the lock is taken ...
RefreshEnumerate ==
  /\ up
  /\ refresh = {}
  /\ refresh' = {subnets}
  /\ UNCHANGED <<up, byPod, driverResources, allocatable, callVars, fileVars, subnets,
                 podVars, kubeletVars, wiped>>

\* ... and compared with the devices of the last refresh under the lock.
RefreshApply ==
  /\ pc = "idle"
  /\ refresh' = {}
  /\ \E resources \in refresh :
       /\ driverResources' = resources
       /\ allocatable' = IF resources = driverResources THEN allocatable ELSE resources
  /\ UNCHANGED <<up, byPod, callVars, fileVars, subnets, podVars, kubeletVars, wiped>>

-----------------------------------------------------------------------------
(* The environment                                                         *)

\* A kube-ovn Subnet becomes a device or stops being one.
SubnetsChange ==
  /\ subnets' \in (SUBSET Device) \ {subnets}
  /\ UNCHANGED <<up, memVars, callVars, fileVars, podVars, kubeletVars, wiped>>

\* The checkpoint file becomes unreadable (a damaged disk block, a newer format
\* left behind by another version of the plugin).
DamageCheckpoint ==
  /\ file = "ok"
  /\ file' = "bad"
  /\ UNCHANGED <<up, memVars, callVars, prepared, saved, cdi, subnets, podVars,
                 kubeletVars, wiped>>

\* A pod is created and scheduled.  Unless SharedOnNode, no other pod of this
\* node that uses one of its claims is unfinished.
CreatePod(p) ==
  /\ phase[p] = "new"
  /\ SharedOnNode \/ p \notin Local
       \/ \A q \in Local : Uses[p] \cap Uses[q] # {} => phase[q] \in {"new", "gone"}
  /\ phase' = [phase EXCEPT ![p] = "live"]
  /\ api' = api \cup {p}
  /\ UNCHANGED <<up, memVars, callVars, fileVars, subnets, kubeletVars, wiped>>

\* The pod is deleted or its containers exit; a forced deletion removes it from
\* the API server at once.
StopPod(p) ==
  /\ phase[p] = "live"
  /\ phase' = [phase EXCEPT ![p] = "stopping"]
  /\ api' = api \/ api' = api \ {p}
  /\ UNCHANGED <<up, memVars, callVars, fileVars, subnets, kubeletVars, wiped>>

\* Of several pods that use a claim, one that has stopped is taken off kubelet's
\* claim info without a call.
DropUser(c, p) ==
  /\ p \in users[c]
  /\ phase[p] = "stopping"
  /\ \E q \in users[c] : phase[q] = "live"
  /\ users' = [users EXCEPT ![c] = @ \ {p}]
  /\ ready' = [ready EXCEPT ![c] = @ \ {p}]
  /\ UNCHANGED <<up, memVars, callVars, fileVars, subnets, podVars, wiped>>

\* Its claims are unprepared: the pod ends.
EndPod(p) ==
  /\ phase[p] = "stopping"
  /\ \A c \in Claim : p \notin users[c]
  /\ phase' = [phase EXCEPT ![p] = "gone"]
  /\ api' = api \ {p}
  /\ UNCHANGED <<up, memVars, callVars, fileVars, subnets, kubeletVars, wiped>>

-----------------------------------------------------------------------------

Next ==
  \/ NewDeviceState
  \/ Crash
  \/ \E c \in Claim, p \in Pod : PrepareCached(c, p)
  \/ \E c \in Claim, p \in Pod : PrepareRefused(c, p)
  \/ \E c \in Claim, p \in Pod : PrepareBegin(c, p)
  \/ \E r \in Result : Resolve(r)
  \/ ResolveFails
  \/ \E r \in Result : AddNIC(r)
  \/ WriteCDI
  \/ SaveCheckpoint
  \/ PrepareWriteFails
  \/ \E c \in Claim : UnprepareUnknown(c)
  \/ \E c \in Claim : UnprepareResets(c)
  \/ \E c \in Claim : UnprepareBegin(c)
  \/ DeleteCDI
  \/ SaveWithout
  \/ UnprepareWriteFails
  \/ RefreshEnumerate
  \/ RefreshApply
  \/ SubnetsChange
  \/ DamageCheckpoint
  \/ \E p \in Pod : CreatePod(p)
  \/ \E p \in Pod : StopPod(p)
  \/ \E c \in Claim, p \in Pod : DropUser(c, p)
  \/ \E p \in Pod : EndPod(p)

Spec == Init /\ [][Next]_vars

\* The next step of the call in flight.
CallStep ==
  \/ \E r \in Result : Resolve(r) \/ AddNIC(r)
  \/ ResolveFails \/ WriteCDI \/ SaveCheckpoint \/ PrepareWriteFails
  \/ DeleteCDI \/ SaveWithout \/ UnprepareWriteFails

\* The plugin is restarted when it ends, a call makes progress (the wait for an
\* allocation has a deadline), kubelet repeats a failing Unprepare and ends the
\* pod after it, and no write fails every time.
Fairness ==
  /\ WF_vars(NewDeviceState)
  /\ WF_vars(CallStep)
  /\ \A c \in Claim : SF_vars(UnprepareUnknown(c) /\ users' # users)
  /\ \A c \in Claim : SF_vars(UnprepareBegin(c))
  /\ SF_vars(DeleteCDI)
  /\ SF_vars(SaveWithout /\ users' # users)
  /\ \A c \in Claim, p \in Pod : WF_vars(DropUser(c, p))
  /\ \A p \in Pod : WF_vars(EndPod(p))

FairSpec == Spec /\ Fairness

-----------------------------------------------------------------------------
(* Properties                                                              *)

\* Every NIC of claim c is among the Specs of a set, for pod p.
HasNICs(specs, c, p) ==
  \A r \in ResultsOf[c] : \E s \in specs : s.claim = c /\ s.pod = p /\ s.iface = IfaceOf[r]

\* A pod whose Prepare kubelet saw succeed finds every NIC of the claim in the
\* store while the plugin runs, also after crashes and failed writes:
\* RunPodSandbox and Synchronize attach what the store holds, so a missing Spec
\* is a pod that starts without its NIC.  The claims that a reset of an
\* unreadable checkpoint dropped are the exception.
PreparedIsServed ==
  up => \A c \in Claim \ wiped : \A p \in ready[c] : HasNICs(byPod, c, p)

\* Such a claim survives a crash at any moment: the checkpoint has all its NICs
\* for that pod, and its CDI spec file exists for the containers kubelet may
\* still start.
PreparedIsDurable ==
  \A c \in Claim \ wiped : \A p \in ready[c] :
    c \in prepared /\ c \in cdi /\ HasNICs(saved, c, p)

\* What is attached before a restart is what is attached after it: the store
\* has no Spec for such a pod (an address of an earlier, failed Prepare, say)
\* other than the checkpointed ones.
RestartKeepsSpecs ==
  \A s \in byPod : s.claim \notin wiped /\ s.pod \in ready[s.claim] => s \in saved

\* No two NICs of a pod in the store share an interface name, across its claims,
\* failed calls and restarts: the second could not be renamed in the pod's netns
\* (checkInterfaceNames looks at the store only, never at the checkpoint).
NoIfaceClash ==
  \A s, t \in byPod : s.pod = t.pod /\ s.iface = t.iface => s = t

\* A checkpointed claim belongs to one pod, although every NIC looks its pod up
\* by itself while pods come and go.
OnePodPerClaim ==
  \A s, t \in saved : s.claim = t.claim => s.pod = t.pod

\* The ledger of the node is its checkpoint: it is written once per call, after
\* everything else, and everything else is made anew from it.
Ledger == INSTANCE ClaimLedger WITH held <- prepared, nics <- saved

\* Whatever fails, crashes or is repeated, kubelet sees a ledger: a claim is
\* entered in one durable step for one pod, kubelet is told of it only while it is
\* entered for the pod it asks for, and a claim that a pod counts on is not struck
\* out but by the reset of an unreadable checkpoint (Prepare, Unprepare).
KeepsLedger == Ledger!Spec

\* A pod that has stopped ends: kubelet's Unprepare of each of its claims
\* succeeds in the end, whatever failed before, as long as the checkpoint can be
\* read.
StoppedPodEnds ==
  [](file # "bad") => \A p \in Pod : phase[p] = "stopping" ~> phase[p] = "gone"

=============================================================================
