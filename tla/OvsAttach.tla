----------------------------- MODULE OvsAttach -----------------------------
(***************************************************************************)
(* Attach and Detach of one NIC in one sandbox (pkg/plumbing/plumbing.go   *)
(* and plumbing_linux.go), one step per change they make in the kernel, in *)
(* OVS or in the process, with a failure or a crash possible at each.      *)
(* What a failed or interrupted call leaves is what the next one finds.    *)
(*                                                                         *)
(* The caller is the sandbox handler: it attaches whenever it likes (an    *)
(* event, Synchronize or a retry), records what was attached, detaches     *)
(* what is recorded, and sweeps the OVS ports of the pod.  NriPlugin has   *)
(* its control.                                                            *)
(***************************************************************************)
EXTENDS Naturals

CONSTANTS
  OwnDHCP,       \* the NIC has an IPv4 address, and its Subnet no DHCP of OVN
  MaxCrash       \* bound: how often the process ends

ASSUME AttachAssumption == OwnDHCP \in BOOLEAN /\ MaxCrash \in Nat

VARIABLES
  kubeVirtVMI,   \* Spec.KubeVirtVMI: is the pod a virt-launcher?
  netns,      \* does the netns of the sandbox exist?
  host,       \* the host end of the veth pair: "absent", "down", "up"
  peer,       \* the pod end: "none", "host" (in the host netns), "moved" (in the
              \* pod, not renamed), "iface" (has IfaceName), "aside" (renamed for
              \* the tap), "slave" (of the bridge)
  conf,       \* is the pod end configured (MAC, MTU, addresses, routes)?
  bridge,     \* does the bridge of the VM exist?
  tap,        \* the tap of the VM, named IfaceName: "none", "free", "slave"
  fdb,        \* does the bridge forward the MAC of the VM to the tap?
  port,       \* is the host end a port of br-int?
  dhcp,       \* ovsAttacher.dhcpServers: does the NIC have a server?
  pc,         \* the next step of the call at work, or "idle"
  attached,   \* NICStore: is the NIC recorded as attached?
  answer,     \* observation: the last call, "attached" or "detached" if it succeeded
  crashes     \* number of crashes so far

pair == <<host, peer, conf>>
vm == <<bridge, tap, fdb>>
caller == <<attached, answer>>
env == <<kubeVirtVMI, crashes>>
vars == <<netns, pair, vm, port, dhcp, pc, caller, env>>

AttachSteps == {"create", "up", "move", "name", "configure", "ovs", "rename",
                "bridge", "tap", "enslave", "forward", "dhcp"}
DetachSteps == {"stop_dhcp", "del_tap", "del_bridge", "del_port", "del_veth"}

TypeOK ==
  /\ kubeVirtVMI \in BOOLEAN
  /\ netns \in BOOLEAN
  /\ host \in {"absent", "down", "up"}
  /\ peer \in {"none", "host", "moved", "iface", "aside", "slave"}
  /\ host = "absent" <=> peer = "none"
  /\ conf \in BOOLEAN
  /\ bridge \in BOOLEAN
  /\ tap \in {"none", "free", "slave"}
  /\ fdb \in BOOLEAN
  /\ port \in BOOLEAN
  /\ dhcp \in BOOLEAN
  /\ pc \in {"idle"} \cup AttachSteps \cup DetachSteps
  /\ attached \in BOOLEAN
  /\ answer \in {"none", "attached", "detached"}
  /\ crashes \in 0..MaxCrash

Init ==
  /\ kubeVirtVMI \in BOOLEAN
  /\ netns = TRUE
  /\ host = "absent" /\ peer = "none" /\ conf = FALSE
  /\ bridge = FALSE /\ tap = "none" /\ fdb = FALSE
  /\ port = FALSE
  /\ dhcp = FALSE
  /\ pc = "idle"
  /\ attached = FALSE
  /\ answer = "none"
  /\ crashes = 0

\* The link named IfaceName in the netns is a veth end or the tap.
HasIfaceName == peer = "iface" \/ tap # "none"

\* cleanupHostVeth removes the pair with both ends.  In Attach its error is
\* dropped.
BugNoPair == host' = "absent" /\ UNCHANGED <<peer, conf>>   \* the pod end stays
NoPair == host' = "absent" /\ peer' = "none" /\ conf' = FALSE
BugBestEffort == UNCHANGED pair   \* the pair is left for the retry
BestEffortCleanup == NoPair \/ UNCHANGED pair

-----------------------------------------------------------------------------
(* Attach                                                                  *)

Attach ==
  /\ pc = "idle"
  /\ pc' = "create"
  /\ answer' = "none"
  /\ UNCHANGED <<netns, pair, vm, port, dhcp, attached, env>>

\* createVethPair: LinkAdd, unless the host end is there.
BugCreateVeth ==   \* a pair from before is made anew
  /\ pc = "create"
  /\ host' = "down" /\ peer' = "host" /\ conf' = FALSE
  /\ pc' = "up"
  /\ UNCHANGED <<netns, vm, port, dhcp, caller, env>>
CreateVeth ==
  /\ pc = "create"
  /\ \/ /\ host # "absent"
        /\ pc' = "move"
        /\ UNCHANGED pair
     \/ /\ host = "absent"
        /\ host' = "down" /\ peer' = "host" /\ conf' = FALSE
        /\ pc' = "up"
     \/ /\ host = "absent"
        /\ pc' = "idle"
        /\ UNCHANGED pair
  /\ UNCHANGED <<netns, vm, port, dhcp, caller, env>>

\* createVethPair: LinkSetUp.  Its failure cleans nothing up.
SetHostUp ==
  /\ pc = "up"
  /\ \/ host' = "up" /\ pc' = "move"
     \/ host' = host /\ pc' = "idle"
  /\ UNCHANGED <<netns, peer, conf, vm, port, dhcp, caller, env>>

\* A step of Attach fails before the NIC is a port of OVS.
AttachFails(step) ==
  /\ pc = step
  /\ BestEffortCleanup
  /\ pc' = "idle"
  /\ UNCHANGED <<netns, vm, port, dhcp, caller, env>>

\* moveIntoNetns: LinkSetNsFd, unless IfaceName is there.
MoveIntoNetns ==
  /\ pc = "move" /\ netns
  /\ \/ /\ HasIfaceName
        /\ pc' = "configure"
        /\ UNCHANGED peer
     \/ /\ ~HasIfaceName /\ peer = "host"
        /\ peer' = "moved"
        /\ pc' = "name"
  /\ UNCHANGED <<netns, host, conf, vm, port, dhcp, caller, env>>

\* moveIntoNetns: LinkSetName.
Rename ==
  /\ pc = "name" /\ netns
  /\ peer' = "iface"
  /\ pc' = "configure"
  /\ UNCHANGED <<netns, host, conf, vm, port, dhcp, caller, env>>

\* configurePodIface: the tap of an earlier Attach is left as it is.
BugConfigurePodIface ==   \* an interface that is up is taken as configured
  /\ pc = "configure" /\ netns /\ HasIfaceName
  /\ conf' = IF tap # "none" \/ host = "up" THEN conf ELSE TRUE
  /\ pc' = "ovs"
  /\ UNCHANGED <<netns, host, peer, vm, port, dhcp, caller, env>>
ConfigurePodIface ==
  /\ pc = "configure" /\ netns /\ HasIfaceName
  /\ conf' = IF tap # "none" THEN conf ELSE TRUE
  /\ pc' = "ovs"
  /\ UNCHANGED <<netns, host, peer, vm, port, dhcp, caller, env>>

\* The call succeeds, and the caller records the NIC (MarkAttached).
AttachOK ==
  /\ pc' = "idle"
  /\ attached' = TRUE
  /\ answer' = "attached"

\* attachToOVS: one ovs-vsctl transaction.
AttachToOVS ==
  /\ pc = "ovs"
  /\ port' = TRUE
  /\ IF kubeVirtVMI THEN pc' = "rename" /\ UNCHANGED caller ELSE AttachOK
  /\ UNCHANGED <<netns, pair, vm, dhcp, env>>

\* A command that is killed by its deadline can have added the port.
AttachToOVSFails ==
  /\ pc = "ovs"
  /\ port' \in {port, TRUE}
  /\ BestEffortCleanup
  /\ pc' = "idle"
  /\ UNCHANGED <<netns, vm, dhcp, caller, env>>

-----------------------------------------------------------------------------
(* wireVMIBridge                                                           *)

\* The veth makes room for the tap; a tap from before skips to the DHCP server.
RenameAside ==
  /\ pc = "rename" /\ netns /\ HasIfaceName
  /\ IF tap # "none" THEN pc' = "dhcp" /\ UNCHANGED peer
                     ELSE pc' = "bridge" /\ peer' = "aside"
  /\ UNCHANGED <<netns, host, conf, vm, port, dhcp, caller, env>>

AddBridge ==
  /\ pc = "bridge" /\ netns
  /\ bridge' = TRUE
  /\ pc' = "tap"
  /\ UNCHANGED <<netns, pair, tap, fdb, port, dhcp, caller, env>>

AddTap ==
  /\ pc = "tap" /\ netns
  /\ tap' = "free"
  /\ pc' = "enslave"
  /\ UNCHANGED <<netns, pair, bridge, fdb, port, dhcp, caller, env>>

\* Both ports are enslaved and set up.
Enslave ==
  /\ pc = "enslave" /\ netns
  /\ peer' = "slave"
  /\ tap' = "slave"
  /\ pc' = "forward"
  /\ UNCHANGED <<netns, host, conf, bridge, fdb, port, dhcp, caller, env>>

\* Learning is off, and the MAC of the VM is a static entry of the tap.
Forward ==
  /\ pc = "forward" /\ netns
  /\ fdb' = TRUE
  /\ pc' = "dhcp"
  /\ UNCHANGED <<netns, pair, bridge, tap, port, dhcp, caller, env>>

\* newNetnsUDP4FilterListener: a listener needs the netns and the bridge in it.
CanListen == netns /\ bridge

\* ensureVMIDHCPServer: a server that runs is kept.
EnsureVMIDHCPServer ==
  /\ pc = "dhcp"
  /\ OwnDHCP /\ ~dhcp => CanListen
  /\ dhcp' = OwnDHCP
  /\ AttachOK
  /\ UNCHANGED <<netns, pair, vm, port, env>>

\* What a failing step of wireVMIBridge can have done: nothing, or its first part.
WireFails ==
  /\ \/ pc = "rename" /\ UNCHANGED vm
     \/ pc = "bridge" /\ bridge' \in {bridge, netns} /\ UNCHANGED <<tap, fdb>>
     \/ pc = "tap" /\ tap' \in {tap, IF netns THEN "free" ELSE tap} /\ UNCHANGED <<bridge, fdb>>
     \/ pc = "enslave" /\ tap' \in {tap, IF netns THEN "slave" ELSE tap} /\ UNCHANGED <<bridge, fdb>>
     \/ pc \in {"forward", "dhcp"} /\ UNCHANGED vm
  /\ port' \in {port, FALSE}
  /\ \/ NoPair
     \/ /\ peer' \in {peer} \cup (IF pc = "enslave" /\ netns THEN {"slave"} ELSE {})
        /\ UNCHANGED <<host, conf>>
  /\ pc' = "idle"
  /\ UNCHANGED <<netns, dhcp, caller, env>>

-----------------------------------------------------------------------------
(* Detach                                                                  *)

\* The caller detaches what is recorded, and has no record from then on.
Detach ==
  /\ pc = "idle"
  /\ attached
  /\ attached' = FALSE
  /\ answer' = "none"
  /\ pc' = IF kubeVirtVMI THEN "stop_dhcp" ELSE "del_port"
  /\ UNCHANGED <<netns, pair, vm, port, dhcp, env>>

\* stopVMIDHCPServer; without a netns there is nothing else in it to remove.
BugStopVMIDHCPServer ==   \* the server is stopped only while the netns is there
  /\ pc = "stop_dhcp"
  /\ dhcp' = IF netns THEN FALSE ELSE dhcp
  /\ pc' \in (IF netns THEN {"del_tap"} ELSE {"del_port"}) \cup (IF dhcp THEN {"idle"} ELSE {})
  /\ UNCHANGED <<netns, pair, vm, port, caller, env>>
StopVMIDHCPServer ==
  /\ pc = "stop_dhcp"
  /\ dhcp' = FALSE
  /\ pc' \in (IF netns THEN {"del_tap"} ELSE {"del_port"}) \cup (IF dhcp THEN {"idle"} ELSE {})
  /\ UNCHANGED <<netns, pair, vm, port, caller, env>>

\* unwireVMIBridge deletes the tap and the bridge, if they are there.
DeleteTap ==
  /\ pc = "del_tap"
  /\ \/ tap' = "none" /\ fdb' = FALSE /\ pc' = "del_bridge"
     \/ tap # "none" /\ pc' = "idle" /\ UNCHANGED <<tap, fdb>>
  /\ UNCHANGED <<netns, pair, bridge, port, dhcp, caller, env>>

BugDeleteBridge ==   \* only the tap is removed
  /\ pc = "del_bridge"
  /\ pc' = "del_port"
  /\ UNCHANGED <<netns, pair, vm, port, dhcp, caller, env>>
DeleteBridge ==
  /\ pc = "del_bridge"
  /\ \/ /\ bridge' = FALSE
        /\ peer' = IF peer = "slave" THEN "aside" ELSE peer
        /\ pc' = "del_port"
     \/ bridge /\ pc' = "idle" /\ UNCHANGED <<bridge, peer>>
  /\ UNCHANGED <<netns, host, conf, tap, fdb, port, dhcp, caller, env>>

\* detachFromOVS.
DeletePort ==
  /\ pc = "del_port"
  /\ \/ port' = FALSE /\ pc' = "del_veth"
     \/ port' \in {port, FALSE} /\ pc' = "idle"
  /\ UNCHANGED <<netns, pair, vm, dhcp, caller, env>>

\* cleanupHostVeth.
DeleteVeth ==
  /\ pc = "del_veth"
  /\ \/ NoPair /\ answer' = "detached"
     \/ host # "absent" /\ UNCHANGED <<pair, answer>>
  /\ pc' = "idle"
  /\ UNCHANGED <<netns, vm, port, dhcp, attached, env>>

\* DetachPodPorts, with a port to remove.
DetachPodPorts ==
  /\ pc = "idle"
  /\ port /\ ~attached
  /\ port' = FALSE
  /\ BestEffortCleanup
  /\ answer' = "none"
  /\ UNCHANGED <<netns, vm, dhcp, pc, attached, env>>

-----------------------------------------------------------------------------
(* The node                                                                *)

\* The sandbox goes: its netns takes every link in it along, and a pair with one.
DeleteNetns ==
  /\ netns
  /\ netns' = FALSE
  /\ IF peer \in {"none", "host"} THEN UNCHANGED pair ELSE NoPair
  /\ bridge' = FALSE /\ tap' = "none" /\ fdb' = FALSE
  /\ UNCHANGED <<port, dhcp, pc, caller, env>>

Crash ==
  /\ crashes < MaxCrash
  /\ crashes' = crashes + 1
  /\ pc' = "idle"
  /\ dhcp' = FALSE
  /\ attached' = FALSE
  /\ answer' = "none"
  /\ UNCHANGED <<netns, pair, vm, port, kubeVirtVMI>>

-----------------------------------------------------------------------------

\* The steps that take a call forward.
AttachStep ==
  \/ CreateVeth \/ SetHostUp \/ MoveIntoNetns \/ Rename \/ ConfigurePodIface
  \/ AttachToOVS \/ RenameAside \/ AddBridge \/ AddTap \/ Enslave \/ Forward
  \/ EnsureVMIDHCPServer
AttachFailure ==
  \/ AttachFails("move") \/ AttachFails("name") \/ AttachFails("configure")
  \/ AttachToOVSFails \/ WireFails
DetachStep == StopVMIDHCPServer \/ DeleteTap \/ DeleteBridge \/ DeletePort \/ DeleteVeth

Next ==
  \/ Attach \/ AttachStep \/ AttachFailure
  \/ Detach \/ DetachStep \/ DetachPodPorts
  \/ DeleteNetns \/ Crash

Spec == Init /\ [][Next]_vars

\* A call that was begun ends, the caller repeats a failed attach (retryFailed,
\* kubelet), and no step fails every time it is tried.
FairSpec ==
  /\ Spec
  /\ WF_vars(AttachStep \/ AttachFailure \/ DetachStep)
  /\ SF_vars(Attach)
  /\ SF_vars(CreateVeth /\ pc' # "idle") /\ SF_vars(SetHostUp /\ pc' # "idle")
  /\ SF_vars(MoveIntoNetns) /\ SF_vars(Rename) /\ SF_vars(ConfigurePodIface)
  /\ SF_vars(AttachToOVS) /\ SF_vars(RenameAside) /\ SF_vars(AddBridge) /\ SF_vars(AddTap)
  /\ SF_vars(Enslave) /\ SF_vars(Forward) /\ SF_vars(EnsureVMIDHCPServer)
  /\ SF_vars(AttachFailure /\ NoPair)

-----------------------------------------------------------------------------
(* What the caller sees of a NIC                                           *)

Wired ==
  /\ host # "absent" /\ conf /\ port
  /\ IF kubeVirtVMI THEN peer = "slave" /\ tap = "slave" /\ fdb ELSE peer = "iface"

Nothing == host = "absent" /\ ~port /\ ~bridge /\ tap = "none"

Nic == IF Wired THEN "wired" ELSE IF Nothing THEN "none" ELSE "partial"
Call == IF pc \in AttachSteps THEN "attach" ELSE IF pc \in DetachSteps THEN "detach" ELSE "none"

Contract == INSTANCE AttachContract WITH vmi <- kubeVirtVMI, nic <- Nic, call <- Call

-----------------------------------------------------------------------------
(* Properties                                                              *)

\* OvsAttach keeps the contract of an Attacher: each of its steps, failures and
\* crashes is a step of AttachContract or is not visible to the caller.  An Attach
\* that is repeated never disturbs a NIC that is wired unless it fails ("a retried
\* Attach for an already-plumbed iface is a no-op"), Detach only removes, nothing
\* changes between two calls, and an answer is true when it is given.
KeepsContract == Contract!Spec

\* After a successful Attach a plain pod has the interface, configured, and the
\* host end is a port of br-int, whatever earlier attempts left behind (the
\* idempotency of createVethPair, moveIntoNetns and configurePodIface).
AttachedIsWired ==
  answer = "attached" /\ netns /\ ~kubeVirtVMI
    => host # "absent" /\ peer = "iface" /\ conf /\ port

\* A successful Detach leaves nothing: no port, no pair, no device in the netns
\* and no DHCP server, even if the netns went away in between.
DetachedLeavesNothing ==
  answer = "detached" => ~port /\ host = "absent" /\ ~bridge /\ tap = "none" /\ ~dhcp

\* A DHCP server always has a record from which a Detach will stop it: no failed
\* attach, repeated attach or failed detach leaves a server behind for good.
ServerHasRecord == dhcp => attached \/ pc = "stop_dhcp"

\* An Attach that is repeated succeeds in the end: no failure or crash leaves the
\* node in a state in which every further attempt fails.
AttachConverges == []<>(answer = "attached" \/ ~netns)

\* Attacher: "Must be idempotent"; wireVMIBridge takes a tap for "a retried call
\* after a previous success".  After a successful Attach the VM has its datapath.
AttachedVMIsWired ==
  answer = "attached" /\ netns /\ kubeVirtVMI
    => peer = "slave" /\ tap = "slave" /\ fdb /\ port

=============================================================================
