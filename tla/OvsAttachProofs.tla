--------------------------- MODULE OvsAttachProofs ---------------------------
(***************************************************************************)
(* What a successful Attach and a successful Detach promise, for any       *)
(* number of failures and crashes.                                         *)
(***************************************************************************)
EXTENDS OvsAttach, TLAPS

(* Types.  The provers take the flags and the names apart: Zenon has the    *)
(* Booleans, SMT the arithmetic.                                           *)

FlagsOK ==
  /\ kubeVirtVMI \in BOOLEAN /\ netns \in BOOLEAN /\ conf \in BOOLEAN /\ bridge \in BOOLEAN
  /\ fdb \in BOOLEAN /\ port \in BOOLEAN /\ dhcp \in BOOLEAN /\ attached \in BOOLEAN

NamesOK ==
  /\ host \in {"absent", "down", "up"}
  /\ peer \in {"none", "host", "moved", "iface", "aside", "slave"}
  /\ host = "absent" <=> peer = "none"
  /\ tap \in {"none", "free", "slave"}
  /\ pc \in {"idle"} \cup AttachSteps \cup DetachSteps
  /\ answer \in {"none", "attached", "detached"}
  /\ crashes \in 0..MaxCrash

\* The pod end is where the step at work left it, while the netns is there.  A
\* step that names or moves the end of a pair finds one.
PeerStands ==
  /\ pc = "up" => peer = "host"
  /\ pc = "name" /\ netns => peer = "moved"
  /\ pc \in {"bridge", "tap", "enslave"} /\ netns => peer = "aside"

LEMMA FlagsNext == FlagsOK /\ [Next]_vars => FlagsOK'
<1> SUFFICES ASSUME FlagsOK, [Next]_vars PROVE FlagsOK'
  OBVIOUS
<1> USE DEF FlagsOK, env
<1>1. CASE Attach
  BY <1>1, Zenon DEF Attach, pair, vm
<1>2. CASE CreateVeth
  BY <1>2, Zenon DEF CreateVeth, pair, vm, caller
<1>3. CASE SetHostUp
  BY <1>3, Zenon DEF SetHostUp, vm, caller
<1>4. CASE MoveIntoNetns
  BY <1>4, Zenon DEF MoveIntoNetns, HasIfaceName, vm, caller
<1>5. CASE Rename
  BY <1>5, Zenon DEF Rename, vm, caller
<1>6. CASE ConfigurePodIface
  BY <1>6, Zenon DEF ConfigurePodIface, HasIfaceName, vm, caller
<1>7. CASE AttachToOVS
  BY <1>7, Zenon DEF AttachToOVS, AttachOK, pair, vm, caller
<1>8. CASE RenameAside
  BY <1>8, Zenon DEF RenameAside, HasIfaceName, vm, caller
<1>9. CASE AddBridge
  BY <1>9, Zenon DEF AddBridge, pair, caller
<1>10. CASE AddTap
  BY <1>10, Zenon DEF AddTap, pair, caller
<1>11. CASE Enslave
  BY <1>11, Zenon DEF Enslave, caller
<1>12. CASE Forward
  BY <1>12, Zenon DEF Forward, pair, caller
<1>13. CASE EnsureVMIDHCPServer
  BY <1>13, AttachAssumption, Zenon DEF AttachAssumption, EnsureVMIDHCPServer, AttachOK, pair, vm
<1>14. CASE \E step \in {"move", "name", "configure"} : AttachFails(step)
  BY <1>14, Zenon DEF AttachFails, BestEffortCleanup, NoPair, pair, vm, caller
<1>15. CASE AttachToOVSFails
  BY <1>15, Zenon DEF AttachToOVSFails, BestEffortCleanup, NoPair, pair, vm, caller
<1>16. CASE WireFails
  BY <1>16, Zenon DEF WireFails, NoPair, vm, caller
<1>17. CASE Detach
  BY <1>17, Zenon DEF Detach, pair, vm
<1>18. CASE StopVMIDHCPServer
  BY <1>18, Zenon DEF StopVMIDHCPServer, pair, vm, caller
<1>19. CASE DeleteTap
  BY <1>19, Zenon DEF DeleteTap, pair, caller
<1>20. CASE DeleteBridge
  BY <1>20, Zenon DEF DeleteBridge, caller
<1>21. CASE DeletePort
  BY <1>21, Zenon DEF DeletePort, pair, vm, caller
<1>22. CASE DeleteVeth
  BY <1>22, Zenon DEF DeleteVeth, NoPair, pair, vm
<1>23. CASE DetachPodPorts
  BY <1>23, Zenon DEF DetachPodPorts, BestEffortCleanup, NoPair, pair, vm
<1>24. CASE DeleteNetns
  BY <1>24, Zenon DEF DeleteNetns, NoPair, pair, caller
<1>25. CASE Crash
  BY <1>25, Zenon DEF Crash, pair, vm
<1>26. CASE UNCHANGED vars
  BY <1>26, Zenon DEF vars, pair, vm, caller
<1>27. QED
  BY <1>1, <1>2, <1>3, <1>4, <1>5, <1>6, <1>7, <1>8, <1>9, <1>10, <1>11, <1>12, <1>13,
     <1>14, <1>15, <1>16, <1>17, <1>18, <1>19, <1>20, <1>21, <1>22, <1>23, <1>24,
     <1>25, <1>26 DEF Next, AttachStep, AttachFailure, DetachStep

LEMMA NamesNext == NamesOK /\ PeerStands /\ [Next]_vars => NamesOK' /\ PeerStands'
<1> SUFFICES ASSUME NamesOK, PeerStands, [Next]_vars PROVE NamesOK' /\ PeerStands'
  OBVIOUS
<1> USE AttachAssumption DEF AttachAssumption, NamesOK, PeerStands, env, AttachSteps, DetachSteps
<1>1. CASE Attach
  BY <1>1 DEF Attach, pair, vm
<1>2. CASE CreateVeth
  BY <1>2 DEF CreateVeth, pair, vm, caller
<1>3. CASE SetHostUp
  BY <1>3 DEF SetHostUp, vm, caller
<1>4. CASE MoveIntoNetns
  BY <1>4 DEF MoveIntoNetns, HasIfaceName, vm, caller
<1>5. CASE Rename
  BY <1>5 DEF Rename, vm, caller
<1>6. CASE ConfigurePodIface
  BY <1>6 DEF ConfigurePodIface, HasIfaceName, vm, caller
<1>7. CASE AttachToOVS
  BY <1>7 DEF AttachToOVS, AttachOK, pair, vm, caller
<1>8. CASE RenameAside
  BY <1>8 DEF RenameAside, HasIfaceName, vm, caller
<1>9. CASE AddBridge
  BY <1>9 DEF AddBridge, pair, caller
<1>10. CASE AddTap
  BY <1>10 DEF AddTap, pair, caller
<1>11. CASE Enslave
  BY <1>11 DEF Enslave, caller
<1>12. CASE Forward
  BY <1>12 DEF Forward, pair, caller
<1>13. CASE EnsureVMIDHCPServer
  BY <1>13 DEF EnsureVMIDHCPServer, AttachOK, pair, vm
<1>14. CASE \E step \in {"move", "name", "configure"} : AttachFails(step)
  BY <1>14 DEF AttachFails, BestEffortCleanup, NoPair, pair, vm, caller
<1>15. CASE AttachToOVSFails
  BY <1>15 DEF AttachToOVSFails, BestEffortCleanup, NoPair, pair, vm, caller
<1>16. CASE WireFails
  BY <1>16 DEF WireFails, NoPair, vm, caller
<1>17. CASE Detach
  BY <1>17 DEF Detach, pair, vm
<1>18. CASE StopVMIDHCPServer
  BY <1>18 DEF StopVMIDHCPServer, pair, vm, caller
<1>19. CASE DeleteTap
  BY <1>19 DEF DeleteTap, pair, caller
<1>20. CASE DeleteBridge
  BY <1>20 DEF DeleteBridge, caller
<1>21. CASE DeletePort
  BY <1>21 DEF DeletePort, pair, vm, caller
<1>22. CASE DeleteVeth
  BY <1>22 DEF DeleteVeth, NoPair, pair, vm
<1>23. CASE DetachPodPorts
  BY <1>23 DEF DetachPodPorts, BestEffortCleanup, NoPair, pair, vm
<1>24. CASE DeleteNetns
  BY <1>24 DEF DeleteNetns, NoPair, pair, caller
<1>25. CASE Crash
  BY <1>25 DEF Crash, pair, vm
<1>26. CASE UNCHANGED vars
  BY <1>26 DEF vars, pair, vm, caller
<1>27. QED
  BY <1>1, <1>2, <1>3, <1>4, <1>5, <1>6, <1>7, <1>8, <1>9, <1>10, <1>11, <1>12, <1>13,
     <1>14, <1>15, <1>16, <1>17, <1>18, <1>19, <1>20, <1>21, <1>22, <1>23, <1>24,
     <1>25, <1>26 DEF Next, AttachStep, AttachFailure, DetachStep

\* Every variable keeps its type, and a pair has both ends or none.
THEOREM TypeCorrect == Spec => []TypeOK
<1>1. Init => FlagsOK
  BY Zenon DEF Init, FlagsOK
<1>2. Init => NamesOK /\ PeerStands
  BY AttachAssumption DEF AttachAssumption, Init, NamesOK, PeerStands, AttachSteps, DetachSteps
<1>3. FlagsOK /\ NamesOK => TypeOK
  BY Zenon DEF FlagsOK, NamesOK, TypeOK
<1>4. QED
  BY <1>1, <1>2, <1>3, FlagsNext, NamesNext, PTL DEF Spec

-----------------------------------------------------------------------------
(* Detach                                                                  *)

\* A netns that is gone has taken its devices along.
GoneNetns == ~netns => ~bridge /\ tap = "none"

\* What Detach has removed before each of its steps.
DetachProgress ==
  /\ pc \in {"del_tap", "del_bridge", "del_port", "del_veth"} => ~dhcp
  /\ pc \in {"del_bridge", "del_port", "del_veth"} => tap = "none"
  /\ pc \in {"del_port", "del_veth"} => ~bridge
  /\ pc = "del_veth" => ~port

\* A plain pod has no device of a VM and none of its steps.
PlainPod ==
  ~kubeVirtVMI =>
    /\ ~bridge /\ tap = "none" /\ ~dhcp
    /\ pc \notin {"rename", "bridge", "tap", "enslave", "forward", "dhcp",
                  "stop_dhcp", "del_tap", "del_bridge"}
    /\ peer \notin {"aside", "slave"}

DetachInv ==
  /\ GoneNetns
  /\ DetachProgress
  /\ PlainPod
  /\ ServerHasRecord
  /\ answer # "none" => pc = "idle"
  /\ DetachedLeavesNothing

LEMMA DetachInvNext == TypeOK /\ DetachInv /\ [Next]_vars => DetachInv'
<1> SUFFICES ASSUME TypeOK, DetachInv, [Next]_vars PROVE DetachInv'
  OBVIOUS
<1> USE AttachAssumption DEF AttachAssumption, TypeOK, env, AttachSteps, DetachSteps, DetachInv,
      GoneNetns, DetachProgress, PlainPod, ServerHasRecord, DetachedLeavesNothing
<1>1. CASE Attach
  BY <1>1 DEF Attach, pair, vm
<1>2. CASE CreateVeth
  BY <1>2 DEF CreateVeth, pair, vm, caller
<1>3. CASE SetHostUp
  BY <1>3 DEF SetHostUp, vm, caller
<1>4. CASE MoveIntoNetns
  BY <1>4 DEF MoveIntoNetns, HasIfaceName, vm, caller
<1>5. CASE Rename
  BY <1>5 DEF Rename, vm, caller
<1>6. CASE ConfigurePodIface
  BY <1>6 DEF ConfigurePodIface, HasIfaceName, vm, caller
<1>7. CASE AttachToOVS
  BY <1>7 DEF AttachToOVS, AttachOK, pair, vm, caller
<1>8. CASE RenameAside
  BY <1>8 DEF RenameAside, HasIfaceName, vm, caller
<1>9. CASE AddBridge
  BY <1>9 DEF AddBridge, pair, caller
<1>10. CASE AddTap
  BY <1>10 DEF AddTap, pair, caller
<1>11. CASE Enslave
  BY <1>11 DEF Enslave, caller
<1>12. CASE Forward
  BY <1>12 DEF Forward, pair, caller
<1>13. CASE EnsureVMIDHCPServer
  BY <1>13 DEF EnsureVMIDHCPServer, AttachOK, pair, vm
<1>14. CASE \E step \in {"move", "name", "configure"} : AttachFails(step)
  BY <1>14 DEF AttachFails, BestEffortCleanup, NoPair, pair, vm, caller
<1>15. CASE AttachToOVSFails
  BY <1>15 DEF AttachToOVSFails, BestEffortCleanup, NoPair, pair, vm, caller
<1>16. CASE WireFails
  BY <1>16 DEF WireFails, NoPair, vm, caller
<1>17. CASE Detach
  BY <1>17 DEF Detach, pair, vm
<1>18. CASE StopVMIDHCPServer
  BY <1>18 DEF StopVMIDHCPServer, pair, vm, caller
<1>19. CASE DeleteTap
  BY <1>19 DEF DeleteTap, pair, caller
<1>20. CASE DeleteBridge
  BY <1>20 DEF DeleteBridge, caller
<1>21. CASE DeletePort
  BY <1>21 DEF DeletePort, pair, vm, caller
<1>22. CASE DeleteVeth
  BY <1>22 DEF DeleteVeth, NoPair, pair, vm
<1>23. CASE DetachPodPorts
  BY <1>23 DEF DetachPodPorts, BestEffortCleanup, NoPair, pair, vm
<1>24. CASE DeleteNetns
  BY <1>24 DEF DeleteNetns, NoPair, pair, caller
<1>25. CASE Crash
  BY <1>25 DEF Crash, pair, vm
<1>26. CASE UNCHANGED vars
  BY <1>26 DEF vars, pair, vm, caller
<1>27. QED
  BY <1>1, <1>2, <1>3, <1>4, <1>5, <1>6, <1>7, <1>8, <1>9, <1>10, <1>11, <1>12, <1>13,
     <1>14, <1>15, <1>16, <1>17, <1>18, <1>19, <1>20, <1>21, <1>22, <1>23, <1>24, <1>25,
     <1>26 DEF Next, AttachStep, AttachFailure, DetachStep

LEMMA DetachInvAlways == Spec => []DetachInv
<1>1. Init => DetachInv
  BY DEF Init, DetachInv, GoneNetns, DetachProgress, PlainPod, ServerHasRecord,
         DetachedLeavesNothing
<1>2. QED
  BY <1>1, DetachInvNext, TypeCorrect, PTL DEF Spec

\* A Detach that returns nil has left no port, no pair, no device and no server.
THEOREM DetachComplete == Spec => []DetachedLeavesNothing
<1>1. DetachInv => DetachedLeavesNothing
  BY DEF DetachInv
<1>2. QED
  BY <1>1, DetachInvAlways, PTL

\* The record from which a DHCP server will be stopped is there while it runs.
THEOREM ServerStopped == Spec => []ServerHasRecord
<1>1. DetachInv => ServerHasRecord
  BY DEF DetachInv
<1>2. QED
  BY <1>1, DetachInvAlways, PTL

-----------------------------------------------------------------------------
(* Attach of a plain pod                                                   *)

\* What Attach has reached before each of its later steps.
AttachProgress ==
  ~kubeVirtVMI =>
    /\ pc \in {"configure", "ovs"} /\ netns => peer = "iface"
    /\ pc = "ovs" /\ netns => conf

LEMMA AttachInvNext ==
  TypeOK /\ DetachInv /\ AttachProgress /\ AttachedIsWired /\ [Next]_vars
    => AttachProgress' /\ AttachedIsWired'
<1> SUFFICES ASSUME TypeOK, DetachInv, AttachProgress, AttachedIsWired, [Next]_vars
             PROVE  AttachProgress' /\ AttachedIsWired'
  OBVIOUS
<1> USE DEF TypeOK, env, AttachSteps, DetachSteps, DetachInv, PlainPod, AttachProgress,
      AttachedIsWired
<1>1. CASE Attach
  BY <1>1 DEF Attach, pair, vm
<1>2. CASE CreateVeth
  BY <1>2 DEF CreateVeth, pair, vm, caller
<1>3. CASE SetHostUp
  BY <1>3 DEF SetHostUp, vm, caller
<1>4. CASE MoveIntoNetns
  BY <1>4 DEF MoveIntoNetns, HasIfaceName, vm, caller
<1>5. CASE Rename
  BY <1>5 DEF Rename, vm, caller
<1>6. CASE ConfigurePodIface
  BY <1>6 DEF ConfigurePodIface, HasIfaceName, vm, caller
<1>7. CASE AttachToOVS
  BY <1>7 DEF AttachToOVS, AttachOK, pair, vm, caller
<1>8. CASE RenameAside
  BY <1>8 DEF RenameAside, HasIfaceName, vm, caller
<1>9. CASE AddBridge
  BY <1>9 DEF AddBridge, pair, caller
<1>10. CASE AddTap
  BY <1>10 DEF AddTap, pair, caller
<1>11. CASE Enslave
  BY <1>11 DEF Enslave, caller
<1>12. CASE Forward
  BY <1>12 DEF Forward, pair, caller
<1>13. CASE EnsureVMIDHCPServer
  BY <1>13 DEF EnsureVMIDHCPServer, AttachOK, pair, vm
<1>14. CASE \E step \in {"move", "name", "configure"} : AttachFails(step)
  BY <1>14 DEF AttachFails, BestEffortCleanup, NoPair, pair, vm, caller
<1>15. CASE AttachToOVSFails
  BY <1>15 DEF AttachToOVSFails, BestEffortCleanup, NoPair, pair, vm, caller
<1>16. CASE WireFails
  BY <1>16 DEF WireFails, NoPair, vm, caller
<1>17. CASE Detach
  BY <1>17 DEF Detach, pair, vm
<1>18. CASE StopVMIDHCPServer
  BY <1>18 DEF StopVMIDHCPServer, pair, vm, caller
<1>19. CASE DeleteTap
  BY <1>19 DEF DeleteTap, pair, caller
<1>20. CASE DeleteBridge
  BY <1>20 DEF DeleteBridge, caller
<1>21. CASE DeletePort
  BY <1>21 DEF DeletePort, pair, vm, caller
<1>22. CASE DeleteVeth
  BY <1>22 DEF DeleteVeth, NoPair, pair, vm
<1>23. CASE DetachPodPorts
  BY <1>23 DEF DetachPodPorts, BestEffortCleanup, NoPair, pair, vm
<1>24. CASE DeleteNetns
  BY <1>24 DEF DeleteNetns, NoPair, pair, caller
<1>25. CASE Crash
  BY <1>25 DEF Crash, pair, vm
<1>26. CASE UNCHANGED vars
  BY <1>26 DEF vars, pair, vm, caller
<1>27. QED
  BY <1>1, <1>2, <1>3, <1>4, <1>5, <1>6, <1>7, <1>8, <1>9, <1>10, <1>11, <1>12, <1>13,
     <1>14, <1>15, <1>16, <1>17, <1>18, <1>19, <1>20, <1>21, <1>22, <1>23, <1>24, <1>25,
     <1>26 DEF Next, AttachStep, AttachFailure, DetachStep

\* In a plain pod, an Attach that returns nil has left a named and configured
\* interface and its OVS port, whatever earlier attempts and crashes left behind.
THEOREM AttachComplete == Spec => []AttachedIsWired
<1>1. Init => AttachProgress /\ AttachedIsWired
  BY DEF Init, AttachProgress, AttachedIsWired
<1>2. QED
  BY <1>1, AttachInvNext, DetachInvAlways, TypeCorrect, PTL DEF Spec

-----------------------------------------------------------------------------
(* OvsAttach implements AttachContract                                     *)

\* wireVMIBridge works on a NIC that is a port of OVS.
PortStands == pc \in {"rename", "bridge", "tap", "enslave", "forward", "dhcp"} => port

LEMMA PortNext == PortStands /\ [Next]_vars => PortStands'
<1> SUFFICES ASSUME PortStands, [Next]_vars PROVE PortStands'
  OBVIOUS
<1> USE DEF PortStands, env
<1>1. CASE Attach
  BY <1>1 DEF Attach, pair, vm
<1>2. CASE CreateVeth
  BY <1>2 DEF CreateVeth, pair, vm, caller
<1>3. CASE SetHostUp
  BY <1>3 DEF SetHostUp, vm, caller
<1>4. CASE MoveIntoNetns
  BY <1>4 DEF MoveIntoNetns, HasIfaceName, vm, caller
<1>5. CASE Rename
  BY <1>5 DEF Rename, vm, caller
<1>6. CASE ConfigurePodIface
  BY <1>6 DEF ConfigurePodIface, HasIfaceName, vm, caller
<1>7. CASE AttachToOVS
  BY <1>7 DEF AttachToOVS, AttachOK, pair, vm, caller
<1>8. CASE RenameAside
  BY <1>8 DEF RenameAside, HasIfaceName, vm, caller
<1>9. CASE AddBridge
  BY <1>9 DEF AddBridge, pair, caller
<1>10. CASE AddTap
  BY <1>10 DEF AddTap, pair, caller
<1>11. CASE Enslave
  BY <1>11 DEF Enslave, caller
<1>12. CASE Forward
  BY <1>12 DEF Forward, pair, caller
<1>13. CASE EnsureVMIDHCPServer
  BY <1>13 DEF EnsureVMIDHCPServer, AttachOK, pair, vm
<1>14. CASE \E step \in {"move", "name", "configure"} : AttachFails(step)
  BY <1>14 DEF AttachFails, BestEffortCleanup, NoPair, pair, vm, caller
<1>15. CASE AttachToOVSFails
  BY <1>15 DEF AttachToOVSFails, BestEffortCleanup, NoPair, pair, vm, caller
<1>16. CASE WireFails
  BY <1>16 DEF WireFails, NoPair, vm, caller
<1>17. CASE Detach
  BY <1>17 DEF Detach, pair, vm
<1>18. CASE StopVMIDHCPServer
  BY <1>18 DEF StopVMIDHCPServer, pair, vm, caller
<1>19. CASE DeleteTap
  BY <1>19 DEF DeleteTap, pair, caller
<1>20. CASE DeleteBridge
  BY <1>20 DEF DeleteBridge, caller
<1>21. CASE DeletePort
  BY <1>21 DEF DeletePort, pair, vm, caller
<1>22. CASE DeleteVeth
  BY <1>22 DEF DeleteVeth, NoPair, pair, vm
<1>23. CASE DetachPodPorts
  BY <1>23 DEF DetachPodPorts, BestEffortCleanup, NoPair, pair, vm
<1>24. CASE DeleteNetns
  BY <1>24 DEF DeleteNetns, NoPair, pair, caller
<1>25. CASE Crash
  BY <1>25 DEF Crash, pair, vm
<1>26. CASE UNCHANGED vars
  BY <1>26 DEF vars, pair, vm, caller
<1>27. QED
  BY <1>1, <1>2, <1>3, <1>4, <1>5, <1>6, <1>7, <1>8, <1>9, <1>10, <1>11, <1>12, <1>13,
     <1>14, <1>15, <1>16, <1>17, <1>18, <1>19, <1>20, <1>21, <1>22, <1>23, <1>24, <1>25,
     <1>26 DEF Next, AttachStep, AttachFailure, DetachStep

ContractInv == TypeOK /\ PeerStands /\ PortStands /\ DetachInv /\ AttachProgress

LEMMA ContractNext == ContractInv /\ [Next]_vars => [Contract!Next]_(Contract!vars)
<1> SUFFICES ASSUME ContractInv, [Next]_vars PROVE [Contract!Next]_(Contract!vars)
  OBVIOUS
<1> USE DEF ContractInv, TypeOK, PeerStands, PortStands, DetachInv, GoneNetns, DetachProgress,
      PlainPod, AttachProgress, env, AttachSteps, DetachSteps, Nic, Call, Wired, Nothing
<1>1. ASSUME Attach
      PROVE  Contract!Begin
  BY <1>1 DEF Attach, pair, vm,
     Contract!Begin
<1>2. ASSUME CreateVeth
      PROVE  Contract!AttachWorks \/ Contract!AttachFails \/ UNCHANGED Contract!vars
  BY <1>2 DEF CreateVeth, pair, vm, caller,
     Contract!AttachWorks, Contract!AttachFails, Contract!vars, Contract!NicStates
<1>3. ASSUME SetHostUp
      PROVE  Contract!AttachWorks \/ Contract!AttachFails \/ UNCHANGED Contract!vars
  BY <1>3 DEF SetHostUp, vm, caller,
     Contract!AttachWorks, Contract!AttachFails, Contract!vars, Contract!NicStates
<1>4. ASSUME MoveIntoNetns
      PROVE  Contract!AttachWorks \/ UNCHANGED Contract!vars
  BY <1>4 DEF MoveIntoNetns, HasIfaceName, vm, caller,
     Contract!AttachWorks, Contract!vars
<1>5. ASSUME Rename
      PROVE  Contract!AttachWorks \/ UNCHANGED Contract!vars
  BY <1>5 DEF Rename, vm, caller,
     Contract!AttachWorks, Contract!vars
<1>6. ASSUME ConfigurePodIface
      PROVE  Contract!AttachWorks \/ UNCHANGED Contract!vars
  BY <1>6 DEF ConfigurePodIface, HasIfaceName, vm, caller,
     Contract!AttachWorks, Contract!vars
<1>7. ASSUME AttachToOVS
      PROVE  Contract!AttachWorks \/ Contract!AttachSucceeds \/ UNCHANGED Contract!vars
  BY <1>7 DEF AttachToOVS, AttachOK, pair, vm, caller,
     Contract!AttachWorks, Contract!AttachSucceeds, Contract!vars, Contract!NicStates
<1>8. ASSUME RenameAside
      PROVE  Contract!AttachWorks \/ UNCHANGED Contract!vars
  BY <1>8 DEF RenameAside, HasIfaceName, vm, caller,
     Contract!AttachWorks, Contract!vars
<1>9. ASSUME AddBridge
      PROVE  Contract!AttachWorks \/ UNCHANGED Contract!vars
  BY <1>9 DEF AddBridge, pair, caller,
     Contract!AttachWorks, Contract!vars
<1>10. ASSUME AddTap
      PROVE  Contract!AttachWorks \/ UNCHANGED Contract!vars
  BY <1>10 DEF AddTap, pair, caller,
     Contract!AttachWorks, Contract!vars
<1>11. ASSUME Enslave
      PROVE  Contract!AttachWorks \/ UNCHANGED Contract!vars
  BY <1>11 DEF Enslave, caller,
     Contract!AttachWorks, Contract!vars
<1>12. ASSUME Forward
      PROVE  Contract!AttachWorks \/ UNCHANGED Contract!vars
  BY <1>12 DEF Forward, pair, caller,
     Contract!AttachWorks, Contract!vars
<1>13. ASSUME EnsureVMIDHCPServer
      PROVE  Contract!AttachSucceeds
  BY <1>13 DEF EnsureVMIDHCPServer, AttachOK, pair, vm,
     Contract!AttachSucceeds, Contract!NicStates
<1>14. ASSUME \E step \in {"move", "name", "configure"} : AttachFails(step)
      PROVE  Contract!AttachFails
  BY <1>14 DEF AttachFails, BestEffortCleanup, NoPair, pair, vm, caller,
     Contract!AttachFails, Contract!NicStates
<1>15. ASSUME AttachToOVSFails
      PROVE  Contract!AttachFails
  BY <1>15 DEF AttachToOVSFails, BestEffortCleanup, NoPair, pair, vm, caller,
     Contract!AttachFails, Contract!NicStates
<1>16. ASSUME WireFails
      PROVE  Contract!AttachFails
  BY <1>16 DEF WireFails, NoPair, vm, caller,
     Contract!AttachFails, Contract!NicStates
<1>17. ASSUME Detach
      PROVE  Contract!Begin
  BY <1>17 DEF Detach, pair, vm,
     Contract!Begin
<1>18. ASSUME StopVMIDHCPServer
      PROVE  Contract!DetachWorks \/ UNCHANGED Contract!vars
  BY <1>18 DEF StopVMIDHCPServer, pair, vm, caller,
     Contract!DetachWorks, Contract!vars
<1>19. ASSUME DeleteTap
      PROVE  Contract!DetachWorks \/ UNCHANGED Contract!vars
  BY <1>19 DEF DeleteTap, pair, caller,
     Contract!DetachWorks, Contract!vars
<1>20. ASSUME DeleteBridge
      PROVE  Contract!DetachWorks \/ UNCHANGED Contract!vars
  BY <1>20 DEF DeleteBridge, caller,
     Contract!DetachWorks, Contract!vars
<1>21. ASSUME DeletePort
      PROVE  Contract!DetachWorks \/ UNCHANGED Contract!vars
  <2>1. (port' <=> port) \/ ~port'
    BY <1>21, Zenon DEF DeletePort
  <2>2. /\ pc = "del_port" /\ pc' \in {"del_veth", "idle"}
        /\ UNCHANGED <<netns, pair, vm, caller, env>>
    BY <1>21, Zenon DEF DeletePort
  <2>3. QED
    BY <2>1, <2>2 DEF pair, vm, caller, Contract!DetachWorks
<1>22. ASSUME DeleteVeth
      PROVE  Contract!DetachWorks \/ Contract!DetachSucceeds \/ UNCHANGED Contract!vars
  BY <1>22 DEF DeleteVeth, NoPair, pair, vm,
     Contract!DetachWorks, Contract!DetachSucceeds, Contract!vars
<1>23. ASSUME DetachPodPorts
      PROVE  Contract!Sweep
  BY <1>23 DEF DetachPodPorts, BestEffortCleanup, NoPair, pair, vm,
     Contract!Sweep
<1>24. ASSUME DeleteNetns
      PROVE  Contract!DeleteNetns
  BY <1>24 DEF DeleteNetns, NoPair, pair, caller,
     Contract!DeleteNetns
<1>25. ASSUME Crash
      PROVE  Contract!Crash
  BY <1>25 DEF Crash, pair, vm,
     Contract!Crash
<1>26. ASSUME UNCHANGED vars
      PROVE  UNCHANGED Contract!vars
  BY <1>26 DEF vars, pair, vm, caller,
     Contract!vars
<1>27. QED
  BY <1>1, <1>2, <1>3, <1>4, <1>5, <1>6, <1>7, <1>8, <1>9, <1>10, <1>11, <1>12, <1>13,
     <1>14, <1>15, <1>16, <1>17, <1>18, <1>19, <1>20, <1>21, <1>22, <1>23, <1>24, <1>25,
     <1>26
     DEF Next, AttachStep, AttachFailure, DetachStep, Contract!Next, Contract!vars

\* Every behaviour of Attach, Detach, their failures and crashes is one of the
\* contract: for the caller each call is atomic but for a NIC that is "partial".
THEOREM Implements == Spec => KeepsContract
<1>1. Init => Contract!Init
  BY DEF Init, Contract!Init, Nic, Call, Wired, Nothing, AttachSteps, DetachSteps
<1>2. Init => NamesOK /\ PeerStands /\ PortStands /\ AttachProgress /\ AttachedIsWired
  BY AttachAssumption DEF AttachAssumption, Init, NamesOK, PeerStands, PortStands,
     AttachProgress, AttachedIsWired
<1>3. QED
  BY <1>1, <1>2, NamesNext, PortNext, AttachInvNext, ContractNext, TypeCorrect, DetachInvAlways,
     PTL DEF Spec, KeepsContract, Contract!Spec, ContractInv

=============================================================================
