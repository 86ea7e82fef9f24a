------------------------- MODULE DeviceStateProofs -------------------------
(***************************************************************************)
(* Theorems about DeviceState, for every set of claims, pods and devices.   *)
(*                                                                         *)
(* The invariants are proved in layers, each from the ones before it:      *)
(*   TypeInv   the type invariant, and what the call in flight has set;    *)
(*   OneInv    the NICs of a call are all looked up to the same pod;       *)
(*   PodInv    what kubelet guarantees when no two unfinished pods of the  *)
(*             node use one claim (~SharedOnNode);                         *)
(*   CallInv   how far the call in flight has got with the NICs;           *)
(*   DiskInv   the checkpoint agrees with kubelet's claim info, and the    *)
(*             store with the checkpoint.                                  *)
(***************************************************************************)
EXTENDS DeviceState, TLAPS

Preparing == {"resolve", "add", "cdi", "save"}
Unpreparing == {"uncdi", "unsave"}

TypeInv ==
  /\ TypeOK
  /\ pc # "idle" => up /\ cur \in Claim
  /\ pc \in Preparing => caller \in Pod
  /\ pc \in {"resolve", "add"} => todo \subseteq ResultsOf[cur]

LEMMA TypeInit == Init => TypeInv
BY ConstantsAssumption, Zenon DEF Init, TypeInv, TypeOK, Step, Preparing

LEMMA TypeNext == TypeInv /\ [Next]_vars => TypeInv'
<1> SUFFICES ASSUME TypeInv, [Next]_vars PROVE TypeInv'
  OBVIOUS
<1> USE ConstantsAssumption DEF TypeInv, TypeOK, Step, Preparing, NIC,
        memVars, callVars, fileVars, podVars, kubeletVars, Unlock
<1>1. CASE NewDeviceState
  BY <1>1 DEF NewDeviceState
<1>2. CASE Crash
  BY <1>2, Zenon DEF Crash
<1>3. ASSUME NEW c \in Claim, NEW p \in Pod, PrepareCached(c, p) PROVE TypeInv'
  BY <1>3 DEF PrepareCached, MayPrepare, Listed, Answered
<1>4. ASSUME NEW c \in Claim, NEW p \in Pod, PrepareRefused(c, p) PROVE TypeInv'
  BY <1>4 DEF PrepareRefused, MayPrepare, Listed, Enumerated
<1>5. ASSUME NEW c \in Claim, NEW p \in Pod, PrepareBegin(c, p) PROVE TypeInv'
  BY <1>5 DEF PrepareBegin, MayPrepare, Listed, Enumerated, ReservedFor
<1>6. ASSUME NEW r \in Result, Resolve(r) PROVE TypeInv'
  BY <1>6 DEF Resolve
<1>7. CASE ResolveFails
  BY <1>7 DEF ResolveFails
<1>8. ASSUME NEW r \in Result, AddNIC(r) PROVE TypeInv'
  BY <1>8 DEF AddNIC, Add
<1>9. CASE WriteCDI
  BY <1>9 DEF WriteCDI
<1>10. CASE SaveCheckpoint
  BY <1>10 DEF SaveCheckpoint, Answered
<1>11. CASE PrepareWriteFails
  BY <1>11 DEF PrepareWriteFails
<1>12. ASSUME NEW c \in Claim, UnprepareUnknown(c) PROVE TypeInv'
  BY <1>12 DEF UnprepareUnknown, MayUnprepare, Forgotten, Dropped
<1>13. ASSUME NEW c \in Claim, UnprepareResets(c) PROVE TypeInv'
  BY <1>13 DEF UnprepareResets, MayUnprepare, Forgotten, Dropped
<1>14. ASSUME NEW c \in Claim, UnprepareBegin(c) PROVE TypeInv'
  BY <1>14 DEF UnprepareBegin, MayUnprepare, Dropped, RemoveClaim
<1>15. CASE DeleteCDI
  BY <1>15 DEF DeleteCDI
<1>16. CASE SaveWithout
  BY <1>16 DEF SaveWithout, Forgotten
<1>17. CASE UnprepareWriteFails
  BY <1>17 DEF UnprepareWriteFails
<1>18. CASE RefreshEnumerate
  BY <1>18 DEF RefreshEnumerate
<1>19. CASE RefreshApply
  BY <1>19 DEF RefreshApply
<1>20. CASE SubnetsChange
  BY <1>20 DEF SubnetsChange
<1>21. CASE DamageCheckpoint
  BY <1>21 DEF DamageCheckpoint
<1>22. ASSUME NEW p \in Pod, CreatePod(p) PROVE TypeInv'
  BY <1>22 DEF CreatePod
<1>23. ASSUME NEW p \in Pod, StopPod(p) PROVE TypeInv'
  BY <1>23 DEF StopPod
<1>24. ASSUME NEW c \in Claim, NEW p \in Pod, DropUser(c, p) PROVE TypeInv'
  BY <1>24 DEF DropUser
<1>25. ASSUME NEW p \in Pod, EndPod(p) PROVE TypeInv'
  BY <1>25 DEF EndPod
<1>26. CASE UNCHANGED vars
  BY <1>26 DEF vars
<1> HIDE DEF TypeInv
<1> QED
  BY <1>1, <1>2, <1>3, <1>4, <1>5, <1>6, <1>7, <1>8, <1>9, <1>10, <1>11, <1>12, <1>13,
     <1>14, <1>15, <1>16, <1>17, <1>18, <1>19, <1>20, <1>21, <1>22, <1>23, <1>24, <1>25,
     <1>26 DEF Next

\* Type correctness: every variable keeps its type, whatever interleaving of
\* calls, crashes, failed writes and pod events there is.
THEOREM TypeCorrect == Spec => []TypeOK
<1>1. Spec => []TypeInv
  BY TypeInit, TypeNext, PTL DEF Spec
<1>2. TypeInv => TypeOK
  BY DEF TypeInv
<1> QED
  BY <1>1, <1>2, PTL

-----------------------------------------------------------------------------
(* One pod per claim                                                       *)

\* Nothing is left of a call that has ended, and the claim of a Prepare that
\* runs is not in the checkpoint.
FreshCall ==
  /\ pc \notin Preparing => built = {} /\ refs = {}
  /\ pc \in Preparing => cur \notin prepared
  /\ \A s \in built : s.claim = cur

\* The consumers seen by the first lookup of a call can only become fewer.
OneLookup ==
  /\ \A p \in refs : phase[p] # "new"
  /\ \A s, t \in built : s.pod = t.pod
  /\ pc = "resolve" => \A s \in built : Consumers \cap Local \subseteq {s.pod}

SavedIsListed == \A s \in saved : s.claim \in prepared

OneInv == FreshCall /\ OneLookup /\ SavedIsListed /\ OnePodPerClaim

LEMMA OneInit == Init => OneInv
BY DEF Init, OneInv, FreshCall, OneLookup, SavedIsListed, OnePodPerClaim, Preparing

LEMMA OneNext == TypeInv /\ OneInv /\ [Next]_vars => OneInv'
<1> SUFFICES ASSUME TypeInv, OneInv, [Next]_vars PROVE OneInv'
  OBVIOUS
<1> USE ConstantsAssumption DEF TypeInv, TypeOK, Step, Preparing, NIC, Unlock,
        OneInv, FreshCall, OneLookup, SavedIsListed, OnePodPerClaim, Consumers,
        memVars, callVars, fileVars, podVars, kubeletVars
<1>1. CASE NewDeviceState
  BY <1>1 DEF NewDeviceState
<1>2. CASE Crash
  BY <1>2 DEF Crash
<1>3. ASSUME NEW c \in Claim, NEW p \in Pod, PrepareCached(c, p) PROVE OneInv'
  BY <1>3 DEF PrepareCached
<1>4. ASSUME NEW c \in Claim, NEW p \in Pod, PrepareRefused(c, p) PROVE OneInv'
  BY <1>4 DEF PrepareRefused
<1>5. ASSUME NEW c \in Claim, NEW p \in Pod, PrepareBegin(c, p) PROVE OneInv'
  BY <1>5 DEF PrepareBegin, MayPrepare, ReservedFor
<1>6. ASSUME NEW r \in Result, Resolve(r) PROVE OneInv'
  <2>1. PICK p \in Pod, a \in Addr :
          /\ Consumers \cap Local = {p}
          /\ built' = built \cup {[claim |-> cur, pod |-> p, iface |-> IfaceOf[r], addr |-> a]}
    BY <1>6 DEF Resolve, lookupPodForClaim
  <2>2. \A s \in built : s.pod = p
    BY <1>6, <2>1, Zenon DEF Resolve
  <2>3. \A s \in built' : s.pod = p /\ s.claim = cur
    BY <2>1, <2>2
  <2>4. Consumers' = Consumers /\ pc' \in {"resolve", "add"}
    BY <1>6 DEF Resolve
  <2> QED
    BY <1>6, <2>1, <2>3, <2>4 DEF Resolve
<1>7. CASE ResolveFails
  BY <1>7 DEF ResolveFails
<1>8. ASSUME NEW r \in Result, AddNIC(r) PROVE OneInv'
  BY <1>8 DEF AddNIC
<1>9. CASE WriteCDI
  BY <1>9 DEF WriteCDI
<1>10. CASE SaveCheckpoint
  <2>1. /\ pc = "save" /\ prepared' = prepared \cup {cur} /\ saved' = saved \cup built
        /\ pc' = "idle" /\ built' = {} /\ refs' = {}
    BY <1>10 DEF SaveCheckpoint
  <2>2. OnePodPerClaim' /\ SavedIsListed'
    BY <2>1
  <2> QED
    BY <2>1, <2>2
<1>11. CASE PrepareWriteFails
  BY <1>11 DEF PrepareWriteFails
<1>12. ASSUME NEW c \in Claim, UnprepareUnknown(c) PROVE OneInv'
  BY <1>12 DEF UnprepareUnknown
<1>13. ASSUME NEW c \in Claim, UnprepareResets(c) PROVE OneInv'
  BY <1>13 DEF UnprepareResets, MayUnprepare
<1>14. ASSUME NEW c \in Claim, UnprepareBegin(c) PROVE OneInv'
  BY <1>14 DEF UnprepareBegin, MayUnprepare
<1>15. CASE DeleteCDI
  BY <1>15 DEF DeleteCDI
<1>16. CASE SaveWithout
  BY <1>16 DEF SaveWithout
<1>17. CASE UnprepareWriteFails
  BY <1>17 DEF UnprepareWriteFails
<1>18. CASE RefreshEnumerate
  BY <1>18 DEF RefreshEnumerate
<1>19. CASE RefreshApply
  BY <1>19 DEF RefreshApply
<1>20. CASE SubnetsChange
  BY <1>20 DEF SubnetsChange
<1>21. CASE DamageCheckpoint
  BY <1>21 DEF DamageCheckpoint
<1>22. ASSUME NEW p \in Pod, CreatePod(p) PROVE OneInv'
  BY <1>22 DEF CreatePod
<1>23. ASSUME NEW p \in Pod, StopPod(p) PROVE OneInv'
  BY <1>23 DEF StopPod
<1>24. ASSUME NEW c \in Claim, NEW p \in Pod, DropUser(c, p) PROVE OneInv'
  BY <1>24 DEF DropUser
<1>25. ASSUME NEW p \in Pod, EndPod(p) PROVE OneInv'
  BY <1>25 DEF EndPod
<1>26. CASE UNCHANGED vars
  BY <1>26 DEF vars
<1> HIDE DEF TypeInv, OneInv
<1> QED
  BY <1>1, <1>2, <1>3, <1>4, <1>5, <1>6, <1>7, <1>8, <1>9, <1>10, <1>11, <1>12, <1>13,
     <1>14, <1>15, <1>16, <1>17, <1>18, <1>19, <1>20, <1>21, <1>22, <1>23, <1>24, <1>25,
     <1>26 DEF Next

\* A checkpointed claim has the NICs of one pod, also when pods share claims on
\* the node: the pods that lookupPodForClaim finds for the NICs of one call
\* cannot differ, because the list of consumers was read once and pods only
\* leave the API server.
THEOREM OnePod == Spec => []OnePodPerClaim
<1>1. Spec => [](TypeInv /\ OneInv)
  BY TypeInit, TypeNext, OneInit, OneNext, PTL DEF Spec
<1>2. OneInv => OnePodPerClaim
  BY DEF OneInv
<1> QED
  BY <1>1, <1>2, PTL

-----------------------------------------------------------------------------
(* Pods and kubelet's claim info                                           *)

Unfinished(p) == phase[p] \in {"live", "stopping"}

\* An unfinished pod of the node has its claims for itself.
Alone ==
  \A p, q \in Local :
    Unfinished(p) /\ Unfinished(q) /\ Uses[p] \cap Uses[q] # {} => p = q

ApiOK ==
  \A p \in Pod : (p \in api => Unfinished(p)) /\ (phase[p] = "live" => p \in api)

UsersOK ==
  \A c \in Claim : \A p \in users[c] : p \in Local /\ c \in Uses[p] /\ Unfinished(p)

ReadyOK == \A c \in Claim : ready[c] \subseteq users[c]

\* The claim of the call keeps its user, and an Unprepare runs only while no
\* user needs the claim.
CallerOK ==
  /\ pc \in Preparing => caller \in users[cur]
  /\ pc \in Unpreparing => ready[cur] = {} /\ \A p \in users[cur] : phase[p] # "live"

PodInv == Alone /\ ApiOK /\ UsersOK /\ ReadyOK /\ CallerOK

LEMMA PodInit == Init => PodInv
BY ConstantsAssumption DEF Init, PodInv, Alone, ApiOK, UsersOK, ReadyOK, CallerOK, Unfinished,
   Preparing, Unpreparing

\* Two users of a claim are the same pod.
LEMMA OneUser ==
  ASSUME PodInv, NEW c \in Claim, NEW p \in Local, NEW q \in Local,
         c \in Uses[p], Unfinished(p), c \in Uses[q], Unfinished(q)
  PROVE  p = q
BY DEF PodInv, Alone

LEMMA PodStep ==
  ASSUME [Next]_vars
  PROVE  \/ UNCHANGED <<phase, api>>
         \/ \E p \in Pod : CreatePod(p) \/ StopPod(p) \/ EndPod(p)
<1>1. CASE \E c \in Claim, p \in Pod : PrepareCached(c, p) \/ PrepareRefused(c, p)
                                       \/ PrepareBegin(c, p) \/ DropUser(c, p)
  BY <1>1, Zenon DEF PrepareCached, PrepareRefused, PrepareBegin, DropUser, podVars
<1>3. CASE \/ \E r \in Result : Resolve(r) \/ AddNIC(r)
           \/ \E c \in Claim : UnprepareUnknown(c) \/ UnprepareResets(c) \/ UnprepareBegin(c)
  BY <1>3, Zenon DEF Resolve, AddNIC, UnprepareUnknown, UnprepareResets, UnprepareBegin, podVars
<1>2. CASE \/ NewDeviceState \/ Crash \/ ResolveFails \/ WriteCDI \/ SaveCheckpoint
           \/ PrepareWriteFails \/ DeleteCDI \/ SaveWithout \/ UnprepareWriteFails
           \/ RefreshEnumerate \/ RefreshApply \/ SubnetsChange \/ DamageCheckpoint
           \/ UNCHANGED vars
  BY <1>2, Zenon DEF NewDeviceState, Crash, ResolveFails, WriteCDI, SaveCheckpoint,
     PrepareWriteFails, DeleteCDI, SaveWithout, UnprepareWriteFails, RefreshEnumerate,
     RefreshApply, SubnetsChange, DamageCheckpoint, vars, podVars
<1> QED
  BY <1>1, <1>2, <1>3 DEF Next

\* What kubelet knows of a claim is changed by calls for the claim only.
LEMMA KubeletStep ==
  ASSUME [Next]_vars
  PROVE  \/ UNCHANGED <<users, ready>>
         \/ \E c \in Claim, p \in Pod : \/ PrepareCached(c, p) \/ PrepareRefused(c, p)
                                        \/ PrepareBegin(c, p) \/ DropUser(c, p)
         \/ \E c \in Claim : UnprepareUnknown(c) \/ UnprepareResets(c) \/ UnprepareBegin(c)
         \/ SaveCheckpoint
         \/ SaveWithout
<1>1. CASE \/ \E r \in Result : Resolve(r) \/ AddNIC(r)
           \/ \E p \in Pod : CreatePod(p) \/ StopPod(p) \/ EndPod(p)
  BY <1>1, Zenon DEF Resolve, AddNIC, CreatePod, StopPod, EndPod, kubeletVars
<1>2. CASE \/ NewDeviceState \/ Crash \/ ResolveFails \/ WriteCDI \/ PrepareWriteFails
           \/ DeleteCDI \/ UnprepareWriteFails \/ RefreshEnumerate \/ RefreshApply
           \/ SubnetsChange \/ DamageCheckpoint \/ UNCHANGED vars
  BY <1>2 DEF NewDeviceState, Crash, ResolveFails, WriteCDI, PrepareWriteFails, DeleteCDI,
     UnprepareWriteFails, RefreshEnumerate, RefreshApply, SubnetsChange, DamageCheckpoint,
     vars, kubeletVars
<1> QED
  BY <1>1, <1>2 DEF Next

LEMMA AloneNext ==
  ASSUME ~SharedOnNode, TypeInv, PodInv, [Next]_vars
  PROVE  Alone' /\ ApiOK'
<1> USE DEF Alone, ApiOK, Unfinished, PodInv
<1>1. phase \in [Pod -> {"new", "live", "stopping", "gone"}] /\ Local \subseteq Pod
  BY ConstantsAssumption DEF TypeInv, TypeOK
<1>2. CASE UNCHANGED <<phase, api>>
  BY <1>2
<1>3. ASSUME NEW p \in Pod, CreatePod(p) PROVE Alone' /\ ApiOK'
  <2>1. Alone'
    BY <1>1, <1>3 DEF CreatePod
  <2>2. ApiOK'
    BY <1>1, <1>3 DEF CreatePod
  <2> QED
    BY <2>1, <2>2
<1>4. ASSUME NEW p \in Pod, StopPod(p) PROVE Alone' /\ ApiOK'
  <2>1. Alone'
    BY <1>1, <1>4 DEF StopPod
  <2>2. ApiOK'
    BY <1>1, <1>4 DEF StopPod
  <2> QED
    BY <2>1, <2>2
<1>5. ASSUME NEW p \in Pod, EndPod(p) PROVE Alone' /\ ApiOK'
  <2>1. Alone'
    BY <1>1, <1>5 DEF EndPod
  <2>2. ApiOK'
    BY <1>1, <1>5 DEF EndPod
  <2> QED
    BY <2>1, <2>2
<1> HIDE DEF Alone, ApiOK
<1> QED
  BY <1>2, <1>3, <1>4, <1>5, PodStep

\* A pod becomes a user of a claim by a Prepare, and stops being one by an
\* Unprepare or because another pod still uses the claim.
LEMMA NewUser ==
  ASSUME TypeInv, [Next]_vars, NEW c \in Claim, NEW p \in users'[c], p \notin users[c]
  PROVE  MayPrepare(c, p) /\ UNCHANGED phase
<1> USE DEF TypeInv, TypeOK
<1>1. ASSUME NEW d \in Claim, NEW q \in Pod,
             PrepareCached(d, q) \/ PrepareRefused(d, q) \/ PrepareBegin(d, q)
      PROVE  MayPrepare(c, p) /\ UNCHANGED phase
  <2>1. MayPrepare(d, q) /\ Listed(d, q) /\ UNCHANGED phase
    BY <1>1, Zenon DEF PrepareCached, PrepareRefused, PrepareBegin, podVars
  <2>2. d = c /\ q = p
    BY <2>1, Zenon DEF Listed
  <2> QED
    BY <2>1, <2>2
<1>2. ASSUME NEW d \in Claim, NEW q \in Pod, DropUser(d, q) PROVE FALSE
  BY <1>2, Zenon DEF DropUser
<1>3. ASSUME NEW d \in Claim, UnprepareUnknown(d) \/ UnprepareResets(d) \/ UnprepareBegin(d)
      PROVE FALSE
  BY <1>3, Zenon DEF UnprepareUnknown, UnprepareResets, UnprepareBegin, Forgotten
<1>4. ~SaveCheckpoint /\ ~SaveWithout
  BY Zenon DEF SaveCheckpoint, SaveWithout, Forgotten
<1> QED
  BY <1>1, <1>2, <1>3, <1>4, KubeletStep

LEMMA UsersNext ==
  ASSUME TypeInv, PodInv, [Next]_vars
  PROVE  UsersOK'
<1> SUFFICES ASSUME NEW c \in Claim, NEW p \in users'[c]
             PROVE  p \in Local /\ c \in Uses[p] /\ Unfinished(p)'
  BY Zenon DEF UsersOK
<1>1. CASE p \notin users[c]
  BY <1>1, NewUser DEF MayPrepare, Unfinished
<1>2. CASE p \in users[c]
  <2>1. p \in Local /\ c \in Uses[p] /\ Unfinished(p)
    BY <1>2 DEF PodInv, UsersOK
  <2>2. phase \in [Pod -> {"new", "live", "stopping", "gone"}]
    BY DEF TypeInv, TypeOK
  <2>3. ASSUME NEW q \in Pod, CreatePod(q) \/ StopPod(q) \/ EndPod(q) PROVE Unfinished(p)'
    <3>1. CreatePod(q) \/ EndPod(q) => q # p
      BY <1>2, <2>1 DEF CreatePod, EndPod, Unfinished
    <3>2. p \in Pod /\ (phase'[p] = phase[p] \/ phase'[p] = "stopping")
      BY <2>1, <2>2, <2>3, <3>1, ConstantsAssumption, Zenon DEF CreatePod, StopPod, EndPod
    <3> QED
      BY <2>1, <3>2 DEF Unfinished
  <2> QED
    BY <2>1, <2>3, PodStep DEF Unfinished
<1> QED
  BY <1>1, <1>2, Zenon

LEMMA NoDrop ==
  ASSUME TypeInv, PodInv, NEW c \in Claim, NEW p \in Pod
  PROVE  ~DropUser(c, p)
<1> SUFFICES ASSUME DropUser(c, p) PROVE FALSE
  OBVIOUS
<1>1. PICK q \in users[c] : phase[q] = "live"
  BY DEF DropUser
<1>2. /\ p \in users[c] /\ phase[p] = "stopping"
      /\ p \in Local /\ c \in Uses[p] /\ Unfinished(p)
      /\ q \in Local /\ c \in Uses[q] /\ Unfinished(q)
  BY <1>1 DEF DropUser, PodInv, UsersOK
<1> QED
  BY <1>1, <1>2, OneUser

LEMMA ReadyNext ==
  ASSUME TypeInv, PodInv, [Next]_vars
  PROVE  ReadyOK'
<1> USE DEF ReadyOK
<1>1. /\ users \in [Claim -> SUBSET Pod] /\ ready \in [Claim -> SUBSET Pod]
      /\ \A c \in Claim : ready[c] \subseteq users[c]
  BY DEF TypeInv, TypeOK, PodInv
<1>2. CASE UNCHANGED <<users, ready>>
  BY <1>1, <1>2
<1>3. ASSUME NEW c \in Claim, NEW p \in Pod, PrepareCached(c, p) PROVE ReadyOK'
  BY <1>1, <1>3 DEF PrepareCached, Listed, Answered
<1>4. ASSUME NEW c \in Claim, NEW p \in Pod, PrepareRefused(c, p) \/ PrepareBegin(c, p)
      PROVE ReadyOK'
  <2>1. Listed(c, p) /\ UNCHANGED ready
    BY <1>4 DEF PrepareRefused, PrepareBegin
  <2> QED
    BY <1>1, <2>1 DEF Listed
<1>5. ASSUME NEW c \in Claim, UnprepareUnknown(c) \/ UnprepareResets(c) \/ UnprepareBegin(c)
      PROVE ReadyOK'
  <2>1. Dropped(c) /\ Forgotten(c)
    BY <1>5 DEF UnprepareUnknown, UnprepareResets, UnprepareBegin, Forgotten
  <2> QED
    BY <1>1, <2>1 DEF Dropped, Forgotten
<1>6. CASE SaveCheckpoint
  <2>1. caller \in users[cur] /\ cur \in Claim /\ Answered(cur, caller) /\ UNCHANGED users
    BY <1>6 DEF SaveCheckpoint, PodInv, CallerOK, Preparing, TypeInv
  <2> QED
    BY <1>1, <2>1 DEF Answered
<1>7. CASE SaveWithout
  <2>1. ready[cur] = {} /\ cur \in Claim /\ Forgotten(cur) /\ UNCHANGED ready
    BY <1>7 DEF SaveWithout, PodInv, CallerOK, Unpreparing, TypeInv
  <2> QED
    BY <1>1, <2>1 DEF Forgotten
<1> HIDE DEF ReadyOK
<1> QED
  BY <1>2, <1>3, <1>4, <1>5, <1>6, <1>7, NoDrop, KubeletStep

\* A call that holds the lock keeps it, its claim and its caller, until it ends.
LEMMA LockStep ==
  ASSUME [Next]_vars, pc # "idle", pc' # "idle"
  PROVE  /\ UNCHANGED <<cur, caller, users, ready>> \/ \E c \in Claim, p \in Pod : DropUser(c, p)
         /\ (pc \in Preparing) = (pc' \in Preparing)
         /\ (pc \in Unpreparing) = (pc' \in Unpreparing)
<1> USE DEF Preparing, Unpreparing
<1>1. ~ \/ \E c \in Claim, p \in Pod : PrepareCached(c, p) \/ PrepareRefused(c, p)
                                       \/ PrepareBegin(c, p)
        \/ \E c \in Claim : UnprepareUnknown(c) \/ UnprepareResets(c) \/ UnprepareBegin(c)
  <2>1. ~ \E c \in Claim, p \in Pod : MayPrepare(c, p)
    BY DEF MayPrepare
  <2>2. ~ \E c \in Claim : MayUnprepare(c)
    BY DEF MayUnprepare
  <2> QED
    BY <2>1, <2>2, Zenon DEF PrepareCached, PrepareRefused, PrepareBegin, UnprepareUnknown,
       UnprepareResets, UnprepareBegin
<1>2. CASE Crash \/ ResolveFails \/ SaveCheckpoint \/ PrepareWriteFails \/ SaveWithout
             \/ UnprepareWriteFails
  BY <1>2, Zenon DEF Crash, ResolveFails, SaveCheckpoint, PrepareWriteFails, SaveWithout,
     UnprepareWriteFails, Unlock
<1>3. ASSUME NEW r \in Result, Resolve(r) \/ AddNIC(r)
      PROVE  /\ UNCHANGED <<cur, caller, users, ready>>
             /\ pc \in Preparing /\ pc' \in Preparing
  BY <1>3, Zenon DEF Resolve, AddNIC, kubeletVars
<1>6. CASE WriteCDI \/ DeleteCDI
  BY <1>6 DEF WriteCDI, DeleteCDI, kubeletVars
<1>4. CASE \/ NewDeviceState \/ RefreshEnumerate \/ RefreshApply \/ SubnetsChange
           \/ DamageCheckpoint \/ UNCHANGED vars
           \/ \E p \in Pod : CreatePod(p) \/ StopPod(p) \/ EndPod(p)
  BY <1>4, Zenon DEF NewDeviceState, RefreshEnumerate, RefreshApply, SubnetsChange,
     DamageCheckpoint, vars, CreatePod, StopPod, EndPod, callVars, kubeletVars
<1>5. CASE \E c \in Claim, p \in Pod : DropUser(c, p)
  BY <1>5, Zenon DEF DropUser, callVars
<1>7. CASE \E r \in Result : Resolve(r) \/ AddNIC(r)
  BY <1>3, <1>7
<1> QED
  BY <1>1, <1>2, <1>4, <1>5, <1>6, <1>7, Zenon DEF Next

LEMMA CallerNext ==
  ASSUME TypeInv, PodInv, [Next]_vars
  PROVE  CallerOK'
<1>1. CASE pc' = "idle"
  BY <1>1 DEF CallerOK, Preparing, Unpreparing
<1>2. CASE pc # "idle" /\ pc' # "idle"
  <2>1. UNCHANGED <<cur, caller, users, ready>>
    BY <1>2, LockStep, NoDrop
  <2>2. cur \in Claim /\ \A p \in users[cur] : phase[p] # "live" => phase'[p] # "live"
    <3>1. cur \in Claim
      BY <1>2 DEF TypeInv
    <3>2. \A p \in users[cur] : p \in Pod /\ phase[p] # "new"
      BY <3>1 DEF PodInv, UsersOK, Unfinished, TypeInv, TypeOK
    <3>3. phase \in [Pod -> {"new", "live", "stopping", "gone"}]
      BY DEF TypeInv, TypeOK
    <3> QED
      BY <3>1, <3>2, <3>3, PodStep DEF CreatePod, StopPod, EndPod
  <2> QED
    BY <1>2, <2>1, <2>2, LockStep, Zenon DEF PodInv, CallerOK
<1>3. CASE pc = "idle" /\ pc' # "idle"
  <2>1. ASSUME NEW c \in Claim, NEW p \in Pod, PrepareBegin(c, p) PROVE CallerOK'
    BY <2>1, Zenon DEF PrepareBegin, Listed, CallerOK, Unpreparing, TypeInv, TypeOK
  <2>2. ASSUME NEW c \in Claim, UnprepareBegin(c) PROVE CallerOK'
    BY <2>2, Zenon DEF UnprepareBegin, MayUnprepare, Dropped, CallerOK, Preparing, podVars,
       TypeInv, TypeOK
  <2>3. \/ \E c \in Claim, p \in Pod : PrepareBegin(c, p)
        \/ \E c \in Claim : UnprepareBegin(c)
    <3>1. ~UNCHANGED pc
      BY <1>3
    <3>2. ~ \/ \E c \in Claim, p \in Pod : PrepareCached(c, p) \/ PrepareRefused(c, p)
                                           \/ DropUser(c, p)
            \/ \E c \in Claim : UnprepareUnknown(c) \/ UnprepareResets(c)
            \/ \E r \in Result : Resolve(r) \/ AddNIC(r)
            \/ \E p \in Pod : CreatePod(p) \/ StopPod(p) \/ EndPod(p)
      BY <1>3, <3>1, Zenon DEF PrepareCached, PrepareRefused, DropUser, UnprepareUnknown,
         UnprepareResets, Resolve, AddNIC, CreatePod, StopPod, EndPod, callVars
    <3>3. ~ \/ NewDeviceState \/ Crash \/ ResolveFails \/ WriteCDI \/ SaveCheckpoint
            \/ PrepareWriteFails \/ DeleteCDI \/ SaveWithout \/ UnprepareWriteFails
            \/ RefreshEnumerate \/ RefreshApply \/ SubnetsChange \/ DamageCheckpoint
            \/ UNCHANGED vars
      BY <1>3, <3>1, Zenon DEF NewDeviceState, Crash, ResolveFails, WriteCDI, SaveCheckpoint,
         PrepareWriteFails, DeleteCDI, SaveWithout, UnprepareWriteFails,
         RefreshEnumerate, RefreshApply, SubnetsChange, DamageCheckpoint, vars, callVars,
         Unlock
    <3> QED
      BY <3>2, <3>3 DEF Next
  <2> QED
    BY <2>1, <2>2, <2>3
<1> QED
  BY <1>1, <1>2, <1>3

LEMMA PodNext == ~SharedOnNode /\ TypeInv /\ PodInv /\ [Next]_vars => PodInv'
BY AloneNext, UsersNext, ReadyNext, CallerNext DEF PodInv

-----------------------------------------------------------------------------
(* The call in flight                                                      *)

Named(c, i) == \E r \in ResultsOf[c] : IfaceOf[r] = i
Pending(i) == \E r \in todo : IfaceOf[r] = i

\* The consumers all name the claim, whose interface names are distinct.
ClaimOK ==
  /\ \A p \in refs : cur \in Uses[p]
  /\ \A r, q \in ResultsOf[cur] : IfaceOf[r] = IfaceOf[q] => r = q

\* The NICs of the call are the caller's, with distinct names of the claim ...
BuiltIsCallers ==
  /\ \A s \in built : s.pod = caller /\ Named(cur, s.iface)
  /\ \A s, t \in built : s.iface = t.iface => s = t

\* ... one for each result that is resolved.
BuiltIsComplete ==
  /\ \A r \in ResultsOf[cur] :
       (pc = "resolve" /\ r \in todo) \/ \E s \in built : s.iface = IfaceOf[r]
  /\ pc = "resolve" => \A s \in built : ~Pending(s.iface)
  /\ pc \in {"cdi", "save"} => todo = {}

BuiltOK == pc \in Preparing => ClaimOK /\ BuiltIsCallers /\ BuiltIsComplete

LEMMA CallInit == Init => BuiltOK
BY DEF Init, BuiltOK, Preparing

LEMMA CallNext ==
  TypeInv /\ OneInv /\ PodInv /\ BuiltOK /\ [Next]_vars => BuiltOK'
<1> SUFFICES ASSUME TypeInv, OneInv, PodInv, BuiltOK, [Next]_vars PROVE BuiltOK'
  OBVIOUS
<1>1. CASE UNCHANGED callVars
  BY <1>1 DEF BuiltOK, ClaimOK, BuiltIsCallers, BuiltIsComplete, callVars, Pending
<1>2. CASE pc' \notin Preparing
  BY <1>2 DEF BuiltOK
<1>3. ASSUME NEW c \in Claim, NEW p \in Pod, PrepareBegin(c, p) PROVE BuiltOK'
  <2>1. /\ cur' = c /\ built' = {} /\ todo' = ResultsOf[c]
        /\ pc' = IF ResultsOf[c] = {} THEN "cdi" ELSE "resolve"
    BY <1>3 DEF PrepareBegin
  <2>2. PICK pods \in ReservedFor(c) : checkInterfaceNames(c, pods) /\ refs' = pods
    BY <1>3 DEF PrepareBegin
  <2>3. ClaimOK'
    BY <2>1, <2>2, Zenon DEF ClaimOK, ReservedFor, checkInterfaceNames
  <2>4. BuiltIsCallers' /\ BuiltIsComplete'
    BY <2>1, Zenon DEF BuiltIsCallers, BuiltIsComplete
  <2> QED
    BY <2>3, <2>4 DEF BuiltOK
<1>4. ASSUME NEW r \in Result, Resolve(r) PROVE BuiltOK'
  <2>1. PICK p \in Pod, a \in Addr :
          /\ Consumers \cap Local = {p}
          /\ built' = built \cup {[claim |-> cur, pod |-> p, iface |-> IfaceOf[r], addr |-> a]}
    BY <1>4, Zenon DEF Resolve, lookupPodForClaim
  <2>2. /\ pc = "resolve" /\ pc \in Preparing /\ cur \in Claim
        /\ todo \subseteq ResultsOf[cur] /\ r \in todo /\ r \in ResultsOf[cur]
        /\ UNCHANGED <<cur, caller, refs>>
    BY <1>4, Zenon DEF Resolve, Preparing, TypeInv
  <2>3. p = caller
    <3>1. p \in Local /\ p \in refs /\ p \in api
      BY <2>1 DEF Consumers
    <3>2. cur \in Uses[p] /\ Unfinished(p)
      BY <2>2, <3>1, Zenon DEF BuiltOK, ClaimOK, PodInv, ApiOK
    <3>3. caller \in Local /\ cur \in Uses[caller] /\ Unfinished(caller)
      BY <2>2 DEF PodInv, CallerOK, UsersOK
    <3> QED
      BY <2>2, <3>1, <3>2, <3>3, OneUser
  <2> DEFINE nic == [claim |-> cur, pod |-> p, iface |-> IfaceOf[r], addr |-> a]
  <2>4. built' = built \cup {nic} /\ nic.pod = caller /\ nic.iface = IfaceOf[r]
    BY <2>1, <2>3
  <2> HIDE DEF nic
  <2>5. \A s \in built : s.iface # IfaceOf[r]
    BY <2>2 DEF BuiltOK, BuiltIsComplete, Pending
  <2>6. BuiltIsCallers'
    <3>1. Named(cur, nic.iface)
      BY <2>2, <2>4 DEF Named
    <3> QED
      BY <2>2, <2>4, <2>5, <3>1, Zenon DEF BuiltOK, BuiltIsCallers
  <2>7. \A q \in ResultsOf[cur] : q \in todo \ {r} \/ \E s \in built' : s.iface = IfaceOf[q]
    BY <2>2, <2>4 DEF BuiltOK, BuiltIsComplete
  <2>8. BuiltIsComplete'
    <3>1. CASE todo = {r}
      <4>1. pc' = "add"
        BY <1>4, <3>1, Zenon DEF Resolve
      <4> QED
        BY <2>2, <2>7, <3>1, <4>1 DEF BuiltIsComplete
    <3>2. CASE todo # {r}
      <4>1. pc' = "resolve" /\ todo' = todo \ {r}
        BY <1>4, <3>2, Zenon DEF Resolve
      <4>2. \A s \in built : ~Pending(s.iface)'
        BY <2>2, <4>1, Zenon DEF BuiltOK, BuiltIsComplete, Pending
      <4>3. ~Pending(IfaceOf[r])'
        BY <2>2, <4>1 DEF BuiltOK, ClaimOK, Pending
      <4>4. \A s \in built' : ~Pending(s.iface)'
        BY <2>4, <4>2, <4>3
      <4> QED
        BY <2>2, <2>7, <4>1, <4>4 DEF BuiltIsComplete
    <3> QED
      BY <3>1, <3>2
  <2> QED
    BY <2>2, <2>6, <2>8 DEF BuiltOK, ClaimOK
<1>5. ASSUME NEW r \in Result, AddNIC(r) PROVE BuiltOK'
  BY <1>5, Zenon DEF AddNIC, BuiltOK, ClaimOK, BuiltIsCallers, BuiltIsComplete, Preparing
<1>6. CASE WriteCDI
  BY <1>6, Zenon DEF WriteCDI, BuiltOK, ClaimOK, BuiltIsCallers, BuiltIsComplete, Preparing
<1>7. CASE Crash \/ ResolveFails \/ SaveCheckpoint \/ PrepareWriteFails
            \/ DeleteCDI \/ SaveWithout \/ UnprepareWriteFails
            \/ \E c \in Claim : UnprepareBegin(c)
  BY <1>2, <1>7, Zenon DEF Crash, ResolveFails, SaveCheckpoint, PrepareWriteFails, DeleteCDI,
     SaveWithout, UnprepareWriteFails, UnprepareBegin, Unlock, Preparing
<1>8. CASE \/ NewDeviceState \/ RefreshEnumerate \/ RefreshApply
           \/ SubnetsChange \/ DamageCheckpoint
           \/ \E p \in Pod : CreatePod(p) \/ StopPod(p) \/ EndPod(p)
           \/ \E c \in Claim, p \in Pod : PrepareCached(c, p) \/ PrepareRefused(c, p)
                                          \/ DropUser(c, p)
           \/ \E c \in Claim : UnprepareUnknown(c) \/ UnprepareResets(c)
  BY <1>1, <1>8, Zenon DEF NewDeviceState, RefreshEnumerate, RefreshApply, SubnetsChange,
     DamageCheckpoint, CreatePod, StopPod, EndPod, PrepareCached, PrepareRefused,
     DropUser, UnprepareUnknown, UnprepareResets
<1>9. CASE UNCHANGED vars
  BY <1>1, <1>9 DEF vars
<1> QED
  BY <1>3, <1>4, <1>5, <1>6, <1>7, <1>8, <1>9 DEF Next

-----------------------------------------------------------------------------
(* The checkpoint and the store                                            *)

\* kubelet may still start containers of p, or counts on c being prepared.
Needed(c, p) == phase[p] = "live" \/ p \in ready[c]

\* A checkpointed claim has a user, and its NICs are that user's, one for every
\* result, no two with the same name.
SavedOK ==
  /\ \A c \in prepared : users[c] # {}
  /\ \A s \in saved : s.pod \in users[s.claim] /\ Named(s.claim, s.iface)
  /\ \A c \in prepared : \A p \in users[c] : HasNICs(saved, c, p)
  /\ \A s, t \in saved : s.pod = t.pod /\ s.iface = t.iface => s = t

CdiOK ==
  /\ \A c \in prepared : \A p \in users[c] : Needed(c, p) => c \in cdi
  /\ pc = "save" => cur \in cdi

ReadyIsSaved == \A c \in Claim \ wiped : ready[c] # {} => c \in prepared

\* The store holds the checkpointed NICs that are needed, and no other NIC of a
\* checkpointed claim and its user.
StoreOK ==
  /\ \A s \in byPod : Named(s.claim, s.iface)
  /\ \A s \in saved : up /\ Needed(s.claim, s.pod) => s \in byPod
  /\ \A s \in byPod :
       s.claim \in prepared /\ s.pod \in users[s.claim] => s \in saved

\* No other claim of the caller has one of the interface names of the call, in
\* the store or in the checkpoint.
NamesFree ==
  pc \in Preparing =>
    \A s \in byPod \cup saved : s.pod = caller /\ s.claim # cur => ~Named(cur, s.iface)

\* What is in the store for the call's claim and pod is what the call built, up
\* to the results that are still to be added.
AddingOK ==
  pc \in {"add", "cdi", "save"} =>
    /\ \A s \in built : s \in byPod \/ Pending(s.iface)
    /\ \A s \in byPod :
         s.claim = cur /\ s.pod = caller => s \in built \/ Pending(s.iface)

DiskInv ==
  SavedOK /\ CdiOK /\ ReadyIsSaved /\ StoreOK /\ NamesFree /\ AddingOK /\ NoIfaceClash

LEMMA DiskInit == Init => DiskInv
BY Zenon DEF Init, DiskInv, SavedOK, CdiOK, ReadyIsSaved, StoreOK, NamesFree, AddingOK,
   NoIfaceClash, Preparing

\* A pod that may prepare a checkpointed claim is already its only user.
LEMMA KnownUser ==
  ASSUME TypeInv, PodInv, SavedOK, NEW c \in prepared, NEW p \in Pod, MayPrepare(c, p)
  PROVE  users[c] = {p}
<1>1. c \in Claim /\ p \in Local /\ c \in Uses[p] /\ Unfinished(p)
  BY DEF TypeInv, TypeOK, MayPrepare, Unfinished
<1>2. \A q \in users[c] : q = p
  BY <1>1, OneUser, Zenon DEF PodInv, UsersOK
<1> QED
  BY <1>1, <1>2, Zenon DEF SavedOK

\* The checkpoint gains a claim in SaveCheckpoint only, and loses claims whole.
LEMMA SavedStep ==
  ASSUME OneInv, [Next]_vars
  PROVE  \/ SaveCheckpoint
         \/ prepared' \subseteq prepared /\ saved' = {s \in saved : s.claim \in prepared'}
<1> USE DEF OneInv, SavedIsListed
<1>1. CASE UNCHANGED <<prepared, saved>>
  BY <1>1
<1>2. CASE SaveWithout
  BY <1>2 DEF SaveWithout
<1>3. ASSUME NEW c \in Claim, UnprepareResets(c)
      PROVE prepared' \subseteq prepared /\ saved' = {s \in saved : s.claim \in prepared'}
  BY <1>1, <1>3 DEF UnprepareResets
<1>4. CASE \E c \in Claim, p \in Pod : PrepareCached(c, p) \/ PrepareRefused(c, p)
                                       \/ PrepareBegin(c, p) \/ DropUser(c, p)
  BY <1>1, <1>4, Zenon DEF PrepareCached, PrepareRefused, PrepareBegin, DropUser, fileVars
<1>6. CASE \/ \E r \in Result : Resolve(r) \/ AddNIC(r)
           \/ \E c \in Claim : UnprepareUnknown(c) \/ UnprepareBegin(c)
           \/ \E p \in Pod : CreatePod(p) \/ StopPod(p) \/ EndPod(p)
  BY <1>1, <1>6, Zenon DEF Resolve, AddNIC, UnprepareUnknown, UnprepareBegin, CreatePod, StopPod,
     EndPod, fileVars
<1>5. CASE \/ NewDeviceState \/ Crash \/ ResolveFails \/ WriteCDI \/ PrepareWriteFails
           \/ DeleteCDI \/ UnprepareWriteFails \/ RefreshEnumerate \/ RefreshApply
           \/ SubnetsChange \/ DamageCheckpoint \/ UNCHANGED vars
  BY <1>1, <1>5, Zenon DEF NewDeviceState, Crash, ResolveFails, WriteCDI, PrepareWriteFails,
     DeleteCDI, UnprepareWriteFails, RefreshEnumerate, RefreshApply, SubnetsChange,
     DamageCheckpoint, vars, fileVars
<1> QED
  BY <1>2, <1>3, <1>4, <1>5, <1>6 DEF Next

\* The user of a checkpointed claim stays until the claim has left the
\* checkpoint, and does not become needed again.
LEMMA UserStep ==
  ASSUME TypeInv, PodInv, SavedOK, [Next]_vars, ~SaveCheckpoint,
         NEW c \in prepared, c \in prepared'
  PROVE  users'[c] = users[c] /\ \A p \in users[c] : Needed(c, p)' => Needed(c, p)
<1>0. c \in Claim
  BY Zenon DEF TypeInv, TypeOK
<1>1. CASE UNCHANGED <<users, ready, phase>>
  BY <1>1 DEF Needed
<1>2. ASSUME NEW d \in Claim, NEW p \in Pod, PrepareCached(d, p)
      PROVE UNCHANGED <<users, phase>> /\ ready'[c] \subseteq ready[c] \cup users[c]
            /\ \A q \in users[c] : Needed(c, q)' => Needed(c, q)
  <2>1. users[d] = {p} /\ phase[p] = "live"
    BY <1>2, KnownUser, Zenon DEF PrepareCached, MayPrepare
  <2>2. UNCHANGED <<users, phase>>
    BY <1>2, <2>1, Zenon DEF PrepareCached, Listed, podVars, TypeInv, TypeOK
  <2>3. CASE ready' = ready
    BY <2>2, <2>3 DEF Needed
  <2>4. CASE ready' = [ready EXCEPT ![d] = @ \cup {p}]
    BY <1>0, <2>1, <2>2, <2>4 DEF Needed, TypeInv, TypeOK
  <2> QED
    BY <1>2, <2>3, <2>4, <2>2, Zenon DEF PrepareCached, Answered
<1>3. ASSUME NEW d \in Claim, NEW p \in Pod, PrepareRefused(d, p) \/ PrepareBegin(d, p)
      PROVE users'[c] = users[c] /\ UNCHANGED <<ready, phase>>
  <2>1. MayPrepare(d, p) /\ Listed(d, p) /\ UNCHANGED <<ready, phase>>
    BY <1>3, Zenon DEF PrepareRefused, PrepareBegin, podVars
  <2>2. CASE d = c
    BY <1>0, <2>1, <2>2, KnownUser, Zenon DEF Listed, TypeInv, TypeOK
  <2>3. CASE d # c
    BY <1>0, <2>1, <2>3, Zenon DEF Listed, TypeInv, TypeOK
  <2> QED
    BY <2>1, <2>2, <2>3, Zenon
<1>4. ASSUME NEW d \in Claim, UnprepareUnknown(d) \/ UnprepareResets(d) \/ UnprepareBegin(d)
      PROVE users'[c] = users[c] /\ ready'[c] \subseteq ready[c] /\ phase' = phase
  <2>1. UnprepareUnknown(d) => d # c
    BY DEF UnprepareUnknown
  <2>2. UnprepareResets(d) => UNCHANGED users
    BY DEF UnprepareResets
  <2> QED
    BY <1>0, <1>4, <2>1, <2>2, Zenon DEF UnprepareUnknown, UnprepareResets, UnprepareBegin,
       Forgotten, Dropped, podVars, TypeInv, TypeOK
<1>5. ASSUME SaveWithout PROVE users'[c] = users[c] /\ UNCHANGED <<ready, phase>>
  BY <1>0, <1>5, Zenon DEF SaveWithout, Forgotten, podVars, TypeInv, TypeOK
<1>6. ASSUME NEW p \in Pod, CreatePod(p) \/ StopPod(p) \/ EndPod(p)
      PROVE UNCHANGED <<users, ready>> /\ \A q \in users[c] : phase'[q] = "live" => phase[q] = "live"
  <2>1. \A q \in users[c] : q \in Pod /\ phase[q] # "new"
    BY <1>0, Zenon DEF PodInv, UsersOK, Unfinished, TypeInv, TypeOK
  <2>2. phase \in [Pod -> {"new", "live", "stopping", "gone"}]
    BY DEF TypeInv, TypeOK
  <2> QED
    BY <1>6, <2>1, <2>2 DEF CreatePod, StopPod, EndPod, kubeletVars
<1>7. ASSUME NEW d \in Claim, NEW p \in Pod, DropUser(d, p) PROVE FALSE
  BY <1>7, NoDrop
<1>8. CASE \/ NewDeviceState \/ Crash \/ ResolveFails \/ WriteCDI \/ PrepareWriteFails
           \/ DeleteCDI \/ UnprepareWriteFails \/ RefreshEnumerate \/ RefreshApply
           \/ SubnetsChange \/ DamageCheckpoint \/ UNCHANGED vars
           \/ \E r \in Result : Resolve(r) \/ AddNIC(r)
  BY <1>1, <1>8, Zenon DEF NewDeviceState, Crash, ResolveFails, WriteCDI, PrepareWriteFails,
     DeleteCDI, UnprepareWriteFails, RefreshEnumerate, RefreshApply, SubnetsChange,
     DamageCheckpoint, vars, Resolve, AddNIC, podVars, kubeletVars
<1>9. CASE \/ \E d \in Claim, p \in Pod : PrepareRefused(d, p) \/ PrepareBegin(d, p)
           \/ SaveWithout
  BY <1>3, <1>5, <1>9 DEF Needed
<1>10. CASE \E d \in Claim : UnprepareUnknown(d) \/ UnprepareResets(d) \/ UnprepareBegin(d)
  BY <1>4, <1>10 DEF Needed
<1>11. CASE \E p \in Pod : CreatePod(p) \/ StopPod(p) \/ EndPod(p)
  BY <1>6, <1>11 DEF Needed
<1> QED
  BY <1>2, <1>7, <1>8, <1>9, <1>10, <1>11, Zenon DEF Next

\* The store gains NICs from the checkpoint, at a start, or from the call.
LEMMA StoreGains ==
  ASSUME [Next]_vars
  PROVE  \/ NewDeviceState
         \/ \E r \in Result : AddNIC(r)
         \/ byPod' \subseteq byPod
<1>1. CASE \/ \E c \in Claim, p \in Pod : PrepareCached(c, p) \/ PrepareRefused(c, p)
                                          \/ PrepareBegin(c, p) \/ DropUser(c, p)
           \/ \E r \in Result : Resolve(r)
           \/ \E c \in Claim : UnprepareUnknown(c) \/ UnprepareResets(c) \/ UnprepareBegin(c)
           \/ \E p \in Pod : CreatePod(p) \/ StopPod(p) \/ EndPod(p)
  BY <1>1, Zenon DEF PrepareCached, PrepareRefused, PrepareBegin, DropUser, Resolve,
     UnprepareUnknown, UnprepareResets, UnprepareBegin, RemoveClaim, CreatePod, StopPod,
     EndPod, memVars
<1>2. CASE \/ Crash \/ ResolveFails \/ WriteCDI \/ SaveCheckpoint \/ PrepareWriteFails
           \/ DeleteCDI \/ SaveWithout \/ UnprepareWriteFails \/ RefreshEnumerate
           \/ RefreshApply \/ SubnetsChange \/ DamageCheckpoint \/ UNCHANGED vars
  BY <1>2, Zenon DEF Crash, ResolveFails, WriteCDI, SaveCheckpoint, PrepareWriteFails,
     DeleteCDI, SaveWithout, UnprepareWriteFails, RefreshEnumerate, RefreshApply,
     SubnetsChange, DamageCheckpoint, vars, memVars
<1> QED
  BY <1>1, <1>2 DEF Next

\* A NIC leaves the store when the plugin crashes, when its claim is unprepared,
\* or when the call replaces it.
LEMMA StoreLoses ==
  ASSUME [Next]_vars, NEW s \in byPod, up'
  PROVE  \/ s \in byPod'
         \/ NewDeviceState
         \/ pc = "add" /\ \E t \in built : s.claim = t.claim
         \/ \E c \in Claim : UnprepareBegin(c) /\ s.claim = c
<1>1. CASE UNCHANGED byPod
  BY <1>1, Zenon
<1>2. ASSUME NEW r \in Result, AddNIC(r)
      PROVE s \in byPod' \/ (pc = "add" /\ \E t \in built : s.claim = t.claim)
  <2>1. PICK nic \in built : byPod' = Add(byPod, nic)
    BY <1>2 DEF AddNIC
  <2>2. s \in byPod' \/ s.claim = nic.claim
    BY <2>1 DEF Add
  <2>3. pc = "add"
    BY <1>2 DEF AddNIC
  <2> QED
    BY <2>2, <2>3
<1>3. ASSUME NEW c \in Claim, UnprepareBegin(c) PROVE s \in byPod' \/ s.claim = c
  BY <1>3 DEF UnprepareBegin, RemoveClaim
<1>4. ~Crash
  BY DEF Crash
<1>5. CASE \/ \E c \in Claim, p \in Pod : PrepareCached(c, p) \/ PrepareRefused(c, p)
                                          \/ PrepareBegin(c, p) \/ DropUser(c, p)
           \/ \E r \in Result : Resolve(r)
           \/ \E c \in Claim : UnprepareUnknown(c) \/ UnprepareResets(c)
           \/ \E p \in Pod : CreatePod(p) \/ StopPod(p) \/ EndPod(p)
  BY <1>1, <1>5, Zenon DEF PrepareCached, PrepareRefused, PrepareBegin, DropUser, Resolve,
     UnprepareUnknown, UnprepareResets, CreatePod, StopPod, EndPod, memVars
<1>6. CASE \/ ResolveFails \/ WriteCDI \/ SaveCheckpoint \/ PrepareWriteFails
           \/ DeleteCDI \/ SaveWithout \/ UnprepareWriteFails \/ RefreshEnumerate
           \/ RefreshApply \/ SubnetsChange \/ DamageCheckpoint \/ UNCHANGED vars
  BY <1>1, <1>6, Zenon DEF ResolveFails, WriteCDI, SaveCheckpoint, PrepareWriteFails,
     DeleteCDI, SaveWithout, UnprepareWriteFails, RefreshEnumerate, RefreshApply,
     SubnetsChange, DamageCheckpoint, vars, memVars
<1> QED
  BY <1>2, <1>3, <1>4, <1>5, <1>6, Zenon DEF Next

\* What a Prepare that reaches its last write has: its caller is the only user
\* of the claim, and its NICs are complete and in the store.
LEMMA AtSave ==
  ASSUME TypeInv, OneInv, PodInv, BuiltOK, AddingOK, pc = "save"
  PROVE  /\ cur \in Claim \ prepared /\ users[cur] = {caller}
         /\ \A s \in built : s.claim = cur /\ s.pod = caller /\ s \in byPod
                             /\ Named(cur, s.iface)
         /\ \A s \in byPod : s.claim = cur /\ s.pod = caller => s \in built
         /\ \A s, t \in built : s.iface = t.iface => s = t
         /\ HasNICs(built, cur, caller)
<1>1. pc \in Preparing /\ todo = {} /\ cur \in Claim \ prepared /\ caller \in users[cur]
  BY Zenon DEF Preparing, BuiltOK, BuiltIsComplete, OneInv, FreshCall, TypeInv, PodInv, CallerOK
<1>2. \A i : ~Pending(i)
  BY <1>1, Zenon DEF Pending
<1>3. users[cur] = {caller}
  <2>1. \A q \in users[cur] : q \in Local /\ cur \in Uses[q] /\ Unfinished(q)
    BY <1>1 DEF PodInv, UsersOK
  <2> QED
    BY <1>1, <2>1, OneUser
<1>4. \A s \in built : s.claim = cur
  BY DEF OneInv, FreshCall
<1>5. /\ \A s \in built : s.pod = caller /\ Named(cur, s.iface)
      /\ \A s, t \in built : s.iface = t.iface => s = t
      /\ \A r \in ResultsOf[cur] : \E s \in built : s.iface = IfaceOf[r]
  BY <1>1 DEF BuiltOK, BuiltIsCallers, BuiltIsComplete
<1>6. /\ \A s \in built : s \in byPod
      /\ \A s \in byPod : s.claim = cur /\ s.pod = caller => s \in built
  BY <1>2 DEF AddingOK
<1>7. HasNICs(built, cur, caller)
  BY <1>4, <1>5 DEF HasNICs
<1> QED
  BY <1>1, <1>3, <1>4, <1>5, <1>6, <1>7, Zenon

LEMMA SavedNext ==
  ASSUME TypeInv, OneInv, PodInv, BuiltOK, DiskInv, [Next]_vars
  PROVE  SavedOK'
<1> USE DEF DiskInv
<1>1. CASE SaveCheckpoint
  <2>1. /\ pc = "save" /\ UNCHANGED users
        /\ prepared' = prepared \cup {cur} /\ saved' = saved \cup built
    BY <1>1 DEF SaveCheckpoint
  <2>2. \A s \in saved : s.claim \in prepared
    BY DEF OneInv, SavedIsListed
  <2>3. \A c \in prepared' : users'[c] # {}
    BY <2>1, AtSave, Zenon DEF SavedOK
  <2>4. \A s \in saved' : s.pod \in users'[s.claim] /\ Named(s.claim, s.iface)
    BY <2>1, AtSave, Zenon DEF SavedOK
  <2>5. \A c \in prepared' : \A p \in users'[c] : HasNICs(saved', c, p)
    <3>1. \A c \in prepared : \A p \in users'[c] : HasNICs(saved', c, p)
      BY <2>1 DEF SavedOK, HasNICs
    <3>2. HasNICs(saved', cur, caller)
      BY <2>1, AtSave DEF HasNICs
    <3> QED
      BY <2>1, <3>1, <3>2, AtSave, Zenon
  <2>6. \A s, t \in saved' : s.pod = t.pod /\ s.iface = t.iface => s = t
    <3>1. \A s \in saved, t \in built : ~(s.pod = t.pod /\ s.iface = t.iface)
      BY <2>1, <2>2, AtSave, Zenon DEF NamesFree, Preparing
    <3>2. \A s, t \in built : s.pod = t.pod /\ s.iface = t.iface => s = t
      BY <2>1, AtSave
    <3>3. \A s, t \in saved : s.pod = t.pod /\ s.iface = t.iface => s = t
      BY DEF SavedOK
    <3> QED
      BY <2>1, <3>1, <3>2, <3>3
  <2> QED
    BY <2>3, <2>4, <2>5, <2>6, Zenon DEF SavedOK
<1>2. CASE ~SaveCheckpoint
  <2>1. prepared' \subseteq prepared /\ saved' = {s \in saved : s.claim \in prepared'}
    BY <1>2, SavedStep
  <2>2. \A c \in prepared' : c \in prepared /\ users'[c] = users[c]
    BY <1>2, <2>1, UserStep
  <2>3. \A c \in prepared' : \A p \in users'[c] : HasNICs(saved', c, p)
    BY <2>1, <2>2 DEF SavedOK, HasNICs
  <2> QED
    BY <2>1, <2>2, <2>3, Zenon DEF SavedOK
<1> QED
  BY <1>1, <1>2

\* A CDI file is deleted by an Unprepare of its claim only.
LEMMA CdiStep ==
  ASSUME [Next]_vars
  PROVE  /\ UNCHANGED cdi \/ WriteCDI \/ DeleteCDI
         /\ pc' = "save" => WriteCDI \/ UNCHANGED <<pc, cur>>
<1>1. CASE \/ \E c \in Claim, p \in Pod : PrepareCached(c, p) \/ PrepareRefused(c, p)
                                          \/ PrepareBegin(c, p) \/ DropUser(c, p)
           \/ \E r \in Result : Resolve(r) \/ AddNIC(r)
           \/ \E c \in Claim : UnprepareUnknown(c) \/ UnprepareResets(c) \/ UnprepareBegin(c)
           \/ \E p \in Pod : CreatePod(p) \/ StopPod(p) \/ EndPod(p)
  BY <1>1, Zenon DEF PrepareCached, PrepareRefused, PrepareBegin, DropUser, Resolve, AddNIC,
     UnprepareUnknown, UnprepareResets, UnprepareBegin, CreatePod, StopPod, EndPod,
     fileVars, callVars
<1>2. CASE \/ NewDeviceState \/ Crash \/ ResolveFails \/ SaveCheckpoint \/ PrepareWriteFails
           \/ SaveWithout \/ UnprepareWriteFails \/ RefreshEnumerate \/ RefreshApply
           \/ SubnetsChange \/ DamageCheckpoint \/ UNCHANGED vars
  BY <1>2, Zenon DEF NewDeviceState, Crash, ResolveFails, SaveCheckpoint, PrepareWriteFails,
     SaveWithout, UnprepareWriteFails, RefreshEnumerate, RefreshApply, SubnetsChange,
     DamageCheckpoint, vars, fileVars, callVars, Unlock
<1>3. CASE WriteCDI \/ DeleteCDI
  BY <1>3 DEF DeleteCDI
<1> QED
  BY <1>1, <1>2, <1>3 DEF Next

LEMMA CdiNext ==
  ASSUME TypeInv, OneInv, PodInv, BuiltOK, DiskInv, [Next]_vars
  PROVE  CdiOK'
<1> USE DEF DiskInv
<1>1. pc' = "save" => cur' \in cdi'
  <2>1. CASE WriteCDI
    BY <2>1 DEF WriteCDI
  <2>2. CASE pc' = "save" /\ ~WriteCDI
    BY <2>2, CdiStep DEF CdiOK, DeleteCDI
  <2> QED
    BY <2>1, <2>2
<1>2. CASE SaveCheckpoint
  <2>1. pc = "save" /\ prepared' = prepared \cup {cur} /\ UNCHANGED <<users, cdi, phase>>
    BY <1>2 DEF SaveCheckpoint, podVars
  <2>2. \A c \in prepared : ready'[c] = ready[c]
    BY <1>2, <2>1, AtSave, Zenon DEF SaveCheckpoint, Answered, TypeInv, TypeOK
  <2> QED
    BY <1>1, <2>1, <2>2 DEF CdiOK, Needed
<1>3. CASE ~SaveCheckpoint
  <2>1. \A c \in prepared' : /\ c \in prepared /\ users'[c] = users[c]
                             /\ \A p \in users[c] : Needed(c, p)' => Needed(c, p)
    BY <1>3, SavedStep, UserStep
  <2>2. \A c \in prepared : \A p \in users[c] : Needed(c, p) => c \in cdi'
    <3>1. CASE DeleteCDI
      BY <3>1 DEF DeleteCDI, CdiOK, PodInv, CallerOK, Unpreparing, Needed
    <3>2. CASE ~DeleteCDI
      BY <3>2, CdiStep DEF WriteCDI, CdiOK
    <3> QED
      BY <3>1, <3>2
  <2> QED
    BY <1>1, <2>1, <2>2, Zenon DEF CdiOK
<1> QED
  BY <1>2, <1>3

LEMMA ReadyIsSavedNext ==
  ASSUME TypeInv, OneInv, PodInv, DiskInv, [Next]_vars
  PROVE  ReadyIsSaved'
<1> USE DEF DiskInv, ReadyIsSaved, TypeInv, TypeOK
<1>1. CASE UNCHANGED <<ready, prepared, wiped>>
  BY <1>1
<1>2. ASSUME NEW c \in Claim, NEW p \in Pod, PrepareCached(c, p) PROVE ReadyIsSaved'
  BY <1>2, Zenon DEF PrepareCached, Answered, fileVars
<1>3. CASE SaveCheckpoint
  BY <1>3, Zenon DEF SaveCheckpoint, Answered
<1>4. ASSUME NEW c \in Claim, UnprepareUnknown(c) \/ UnprepareBegin(c) PROVE ReadyIsSaved'
  BY <1>4, Zenon DEF UnprepareUnknown, UnprepareBegin, Dropped, fileVars
<1>5. ASSUME NEW c \in Claim, UnprepareResets(c) PROVE ReadyIsSaved'
  BY <1>5, Zenon DEF UnprepareResets, Dropped
<1>6. CASE SaveWithout
  BY <1>6, Zenon DEF SaveWithout, PodInv, CallerOK, Unpreparing
<1>7. ASSUME NEW c \in Claim, NEW p \in Pod, DropUser(c, p) PROVE ReadyIsSaved'
  BY <1>7, Zenon DEF DropUser, fileVars
<1>8. CASE \/ \E c \in Claim, p \in Pod : PrepareRefused(c, p) \/ PrepareBegin(c, p)
           \/ \E r \in Result : Resolve(r) \/ AddNIC(r)
           \/ \E p \in Pod : CreatePod(p) \/ StopPod(p) \/ EndPod(p)
           \/ NewDeviceState \/ Crash \/ ResolveFails \/ WriteCDI \/ PrepareWriteFails
           \/ DeleteCDI \/ UnprepareWriteFails \/ RefreshEnumerate \/ RefreshApply
           \/ SubnetsChange \/ DamageCheckpoint \/ UNCHANGED vars
  <2> HIDE DEF ReadyIsSaved, TypeInv, TypeOK
  <2> QED
    BY <1>1, <1>8, Zenon DEF PrepareRefused, PrepareBegin, Resolve, AddNIC, CreatePod, StopPod, EndPod,
       NewDeviceState, Crash, ResolveFails, WriteCDI, PrepareWriteFails, DeleteCDI,
       UnprepareWriteFails, RefreshEnumerate, RefreshApply, SubnetsChange,
       DamageCheckpoint, vars, fileVars, kubeletVars
<1> HIDE DEF ReadyIsSaved, TypeInv, TypeOK
<1> QED
  BY <1>2, <1>3, <1>4, <1>5, <1>6, <1>7, <1>8 DEF Next

LEMMA StoreNext ==
  ASSUME TypeInv, OneInv, PodInv, BuiltOK, DiskInv, [Next]_vars
  PROVE  StoreOK'
<1> USE DEF DiskInv
<1>1. \A s \in saved : s.claim \in prepared
  BY DEF OneInv, SavedIsListed
<1>2. pc = "add" => /\ cur \notin prepared
                    /\ \A s \in built : s.claim = cur /\ Named(cur, s.iface)
  BY DEF OneInv, FreshCall, BuiltOK, BuiltIsCallers, Preparing
<1>3. \A s \in byPod' : s \in byPod \/ s \in saved \/ (pc = "add" /\ s \in built)
  <2>1. NewDeviceState => byPod' = saved
    BY DEF NewDeviceState
  <2>2. ASSUME NEW r \in Result, AddNIC(r)
        PROVE \A s \in byPod' : s \in byPod \/ (pc = "add" /\ s \in built)
    BY <2>2 DEF AddNIC, Add
  <2> QED
    BY <2>1, <2>2, StoreGains
<1>4. \A s \in byPod' : Named(s.claim, s.iface)
  BY <1>2, <1>3, Zenon DEF StoreOK, SavedOK
<1>5. CASE SaveCheckpoint
  <2>1. /\ pc = "save" /\ UNCHANGED <<up, byPod, users, phase>>
        /\ prepared' = prepared \cup {cur} /\ saved' = saved \cup built
    BY <1>5 DEF SaveCheckpoint, memVars, podVars
  <2>2. \A c \in prepared : ready'[c] = ready[c]
    BY <1>5, <2>1, AtSave, Zenon DEF SaveCheckpoint, Answered, TypeInv, TypeOK
  <2>3. \A s \in saved' : up' /\ Needed(s.claim, s.pod)' => s \in byPod'
    BY <1>1, <2>1, <2>2, AtSave, Zenon DEF StoreOK, Needed
  <2>4. \A s \in byPod' : s.claim \in prepared' /\ s.pod \in users'[s.claim] => s \in saved'
    <3>1. \A s \in byPod : s.claim = cur /\ s.pod \in users[cur] => s \in built
      BY <2>1, AtSave, Zenon
    <3>2. \A s \in byPod : s.claim \in prepared /\ s.pod \in users[s.claim] => s \in saved
      BY DEF StoreOK
    <3> QED
      BY <2>1, <3>1, <3>2
  <2> QED
    BY <1>4, <2>3, <2>4 DEF StoreOK
<1>6. CASE ~SaveCheckpoint
  <2>1. prepared' \subseteq prepared /\ saved' = {s \in saved : s.claim \in prepared'}
    BY <1>6, SavedStep
  <2>2. \A c \in prepared' : /\ c \in prepared /\ users'[c] = users[c]
                             /\ \A p \in users[c] : Needed(c, p)' => Needed(c, p)
    BY <1>6, <2>1, UserStep, Zenon
  <2>3. ASSUME NEW s \in saved', up', Needed(s.claim, s.pod)' PROVE s \in byPod'
    <3>1. s \in saved /\ s.claim \in prepared' /\ s.pod \in users[s.claim]
      BY <2>1, Zenon DEF SavedOK
    <3>2. Needed(s.claim, s.pod)
      BY <2>2, <2>3, <3>1, Zenon
    <3>3. CASE NewDeviceState
      BY <3>1, <3>3 DEF NewDeviceState
    <3>4. ASSUME NEW c \in Claim, UnprepareBegin(c), s.claim = c PROVE FALSE
      <4>1. phase'[s.pod] # "live" /\ ready'[c] = {}
        BY <3>1, <3>4, Zenon DEF UnprepareBegin, MayUnprepare, Dropped, podVars, TypeInv, TypeOK
      <4> QED
        BY <2>3, <3>4, <4>1 DEF Needed
    <3>5. CASE ~NewDeviceState
      <4>1. up
        BY <2>3, <3>5, Zenon DEF Next, vars, Crash, PrepareCached, PrepareRefused, PrepareBegin,
           DropUser, Resolve, AddNIC, UnprepareUnknown, UnprepareResets, UnprepareBegin,
           CreatePod, StopPod, EndPod, ResolveFails, WriteCDI, SaveCheckpoint,
           PrepareWriteFails, DeleteCDI, SaveWithout, UnprepareWriteFails,
           RefreshEnumerate, RefreshApply, SubnetsChange, DamageCheckpoint
      <4>2. s \in byPod
        BY <3>1, <3>2, <4>1, Zenon DEF StoreOK
      <4>3. ~ (pc = "add" /\ \E t \in built : s.claim = t.claim)
        BY <1>1, <1>2, <3>1, Zenon
      <4> QED
        BY <2>3, <3>4, <3>5, <4>2, <4>3, StoreLoses, Zenon
    <3> QED
      BY <3>3, <3>5
  <2>4. \A s \in byPod' : s.claim \in prepared' /\ s.pod \in users'[s.claim] => s \in saved'
    BY <1>2, <1>3, <2>1, <2>2, Zenon DEF StoreOK
  <2> QED
    BY <1>4, <2>3, <2>4 DEF StoreOK
<1> QED
  BY <1>5, <1>6

\* While a Prepare runs, nothing but its own steps changes the store, the
\* checkpoint or the call.
LEMMA PrepareStep ==
  ASSUME TypeInv, [Next]_vars, pc' \in Preparing
  PROVE  \/ \E c \in Claim, p \in Pod : PrepareBegin(c, p)
         \/ \E r \in Result : Resolve(r) \/ AddNIC(r)
         \/ /\ pc \in Preparing /\ (pc' = pc \/ (pc = "cdi" /\ pc' = "save"))
            /\ UNCHANGED <<cur, caller, todo, built, byPod, saved>>
<1>1. CASE \/ \E c \in Claim, p \in Pod : PrepareCached(c, p) \/ PrepareRefused(c, p)
           \/ \E c \in Claim : UnprepareUnknown(c) \/ UnprepareResets(c) \/ UnprepareBegin(c)
           \/ RefreshApply
  BY <1>1, Zenon DEF PrepareCached, PrepareRefused, MayPrepare, UnprepareUnknown, UnprepareResets,
     UnprepareBegin, MayUnprepare, RefreshApply, callVars, Preparing
<1>2. CASE NewDeviceState
  BY <1>2, Zenon DEF NewDeviceState, callVars, Preparing, TypeInv
<1>3. CASE \/ Crash \/ ResolveFails \/ SaveCheckpoint \/ PrepareWriteFails
           \/ DeleteCDI \/ SaveWithout \/ UnprepareWriteFails
  BY <1>3, Zenon DEF Crash, ResolveFails, SaveCheckpoint, PrepareWriteFails, DeleteCDI,
     SaveWithout, UnprepareWriteFails, Unlock, Preparing
<1>4. CASE WriteCDI
  BY <1>4 DEF WriteCDI, memVars, Preparing
<1>5. CASE RefreshEnumerate \/ SubnetsChange \/ DamageCheckpoint \/ UNCHANGED vars
  BY <1>5, Zenon DEF RefreshEnumerate, SubnetsChange, DamageCheckpoint, vars, memVars, callVars,
     fileVars
<1>6. CASE \/ \E p \in Pod : CreatePod(p) \/ StopPod(p) \/ EndPod(p)
           \/ \E c \in Claim, p \in Pod : DropUser(c, p)
  BY <1>6, Zenon DEF CreatePod, StopPod, EndPod, DropUser, memVars, callVars, fileVars
<1> QED
  BY <1>1, <1>2, <1>3, <1>4, <1>5, <1>6, Zenon DEF Next

LEMMA NamesNext ==
  ASSUME TypeInv, OneInv, PodInv, BuiltOK, DiskInv, [Next]_vars
  PROVE  NamesFree'
<1> SUFFICES ASSUME pc' \in Preparing, NEW s \in byPod' \cup saved', s.pod = caller',
                    s.claim # cur'
             PROVE  ~Named(cur', s.iface)
  BY DEF NamesFree
<1> USE DEF DiskInv
<1>1. ASSUME NEW c \in Claim, NEW p \in Pod, PrepareBegin(c, p) PROVE ~Named(cur', s.iface)
  <2>1. /\ up /\ phase[p] = "live" /\ c \in Uses[p] /\ cur' = c /\ caller' = p
        /\ UNCHANGED <<byPod, saved>>
    BY <1>1, Zenon DEF PrepareBegin, MayPrepare, fileVars
  <2>2. s \in byPod
    BY <2>1, Zenon DEF StoreOK, Needed
  <2>3. PICK pods \in ReservedFor(c) : checkInterfaceNames(c, pods)
    BY <1>1, Zenon DEF PrepareBegin
  <2>4. p \in pods
    BY <2>1, <2>3 DEF ReservedFor, PodInv, ApiOK
  <2> QED
    BY <2>1, <2>2, <2>3, <2>4, Zenon DEF checkInterfaceNames, Specs, Named
<1>2. ASSUME NEW r \in Result, Resolve(r) PROVE ~Named(cur', s.iface)
  BY <1>2, Zenon DEF Resolve, memVars, fileVars, NamesFree, Preparing
<1>3. ASSUME NEW r \in Result, AddNIC(r) PROVE ~Named(cur', s.iface)
  <2>1. pc \in Preparing /\ UNCHANGED <<cur, caller, saved>>
    BY <1>3 DEF AddNIC, fileVars, Preparing
  <2>2. s \in byPod \cup saved
    BY <1>3, <2>1 DEF AddNIC, Add, OneInv, FreshCall
  <2> QED
    BY <2>1, <2>2 DEF NamesFree
<1>4. CASE pc \in Preparing /\ UNCHANGED <<cur, caller, todo, built, byPod, saved>>
  BY <1>4 DEF NamesFree
<1> QED
  BY <1>1, <1>2, <1>3, <1>4, PrepareStep, Zenon

LEMMA AddingNext ==
  ASSUME TypeInv, OneInv, PodInv, BuiltOK, DiskInv, [Next]_vars
  PROVE  AddingOK'
<1> SUFFICES ASSUME pc' \in {"add", "cdi", "save"} PROVE AddingOK'
  BY DEF AddingOK
<1> USE DEF DiskInv
<1>1. ASSUME NEW c \in Claim, NEW p \in Pod, PrepareBegin(c, p) PROVE AddingOK'
  <2>1. ResultsOf[c] = {} /\ built' = {} /\ cur' = c /\ byPod' = byPod
    BY <1>1, Zenon DEF PrepareBegin
  <2>2. \A s \in byPod : s.claim # c
    BY <2>1, Zenon DEF StoreOK, Named
  <2> QED
    BY <2>1, <2>2, Zenon DEF AddingOK
<1>2. ASSUME NEW r \in Result, Resolve(r) PROVE AddingOK'
  <2>1. /\ pc' = "add" /\ todo' = ResultsOf[cur] /\ UNCHANGED <<cur, caller, byPod>>
        /\ pc \in Preparing /\ cur \in Claim
    BY <1>2, Zenon DEF Resolve, memVars, Preparing, TypeInv
  <2>2. \A i : Named(cur, i) => Pending(i)'
    BY <2>1 DEF Named, Pending
  <2>3. \A s \in built' : Named(cur, s.iface)
    <3>1. r \in ResultsOf[cur]
      BY <1>2, Zenon DEF Resolve, TypeInv
    <3>2. PICK nic : nic.iface = IfaceOf[r] /\ built' = built \cup {nic}
      BY <1>2, Zenon DEF Resolve
    <3> QED
      BY <2>1, <3>1, <3>2, Zenon DEF BuiltOK, BuiltIsCallers, Named
  <2>4. \A s \in byPod' : s.claim = cur => Named(cur, s.iface)
    BY <2>1, Zenon DEF StoreOK
  <2> QED
    BY <2>1, <2>2, <2>3, <2>4, Zenon DEF AddingOK
<1>3. ASSUME NEW r \in Result, AddNIC(r) PROVE AddingOK'
  <2>1. PICK t \in built : t.iface = IfaceOf[r] /\ byPod' = Add(byPod, t)
    BY <1>3, Zenon DEF AddNIC
  <2>2. /\ pc = "add" /\ pc \in Preparing /\ todo' = todo \ {r}
        /\ UNCHANGED <<cur, caller, built>>
    BY <1>3 DEF AddNIC, Preparing
  <2>3. /\ \A s \in built : s.claim = cur /\ s.pod = caller
        /\ \A s \in built : s.iface = t.iface => s = t
    BY <2>1, <2>2 DEF OneInv, FreshCall, BuiltOK, BuiltIsCallers
  <2>4. \A i : Pending(i) => i = t.iface \/ Pending(i)'
    BY <2>1, <2>2 DEF Pending
  <2>5. \A s \in built : s \in byPod' \/ Pending(s.iface)'
    <3>1. \A s \in built : s.iface # t.iface /\ s \in byPod => s \in byPod'
      BY <2>1 DEF Add
    <3>2. t \in byPod'
      BY <2>1 DEF Add
    <3> QED
      BY <2>2, <2>3, <2>4, <3>1, <3>2 DEF AddingOK
  <2>6. \A s \in byPod' : s.claim = cur /\ s.pod = caller => s \in built \/ Pending(s.iface)'
    <3>1. \A s \in byPod' : s.claim = cur /\ s.pod = caller
                            => s = t \/ (s \in byPod /\ s.iface # t.iface)
      BY <2>1, <2>3 DEF Add
    <3> QED
      BY <2>1, <2>2, <2>4, <3>1, Zenon DEF AddingOK
  <2> QED
    BY <2>2, <2>5, <2>6 DEF AddingOK
<1>4. CASE /\ pc \in Preparing /\ (pc' = pc \/ (pc = "cdi" /\ pc' = "save"))
           /\ UNCHANGED <<cur, caller, todo, built, byPod, saved>>
  BY <1>4 DEF AddingOK, Pending
<1> QED
  BY <1>1, <1>2, <1>3, <1>4, PrepareStep DEF Preparing

LEMMA ClashNext ==
  ASSUME TypeInv, OneInv, PodInv, BuiltOK, DiskInv, [Next]_vars
  PROVE  NoIfaceClash'
<1> USE DEF DiskInv
<1>1. CASE byPod' \subseteq byPod
  BY <1>1 DEF NoIfaceClash
<1>2. CASE NewDeviceState
  BY <1>2, Zenon DEF NewDeviceState, NoIfaceClash, SavedOK
<1>3. ASSUME NEW r \in Result, AddNIC(r) PROVE NoIfaceClash'
  <2>1. PICK t \in built : byPod' = Add(byPod, t)
    BY <1>3 DEF AddNIC
  <2>2. t.claim = cur /\ t.pod = caller /\ Named(cur, t.iface) /\ pc \in Preparing
    BY <1>3, <2>1, Zenon DEF AddNIC, Preparing, OneInv, FreshCall, BuiltOK,
       BuiltIsCallers
  <2>3. \A s \in byPod : s.pod = t.pod /\ s.iface = t.iface => s.claim = t.claim
    BY <2>2 DEF NamesFree
  <2>4. \A s \in byPod' : s = t \/ (s \in byPod /\ ~(s.pod = t.pod /\ s.iface = t.iface))
    BY <2>1, <2>3 DEF Add
  <2> QED
    BY <2>4 DEF NoIfaceClash
<1> QED
  BY <1>1, <1>2, <1>3, StoreGains

-----------------------------------------------------------------------------
(* The theorems of a node whose pods do not share claims                   *)

LEMMA Invariants ==
  ASSUME ~SharedOnNode
  PROVE  Spec => [](TypeInv /\ OneInv /\ PodInv /\ BuiltOK /\ DiskInv)
<1>1. TypeInv /\ OneInv /\ PodInv /\ BuiltOK /\ DiskInv /\ [Next]_vars => DiskInv'
  BY SavedNext, CdiNext, ReadyIsSavedNext, StoreNext, NamesNext, AddingNext, ClashNext
     DEF DiskInv
<1> QED
  BY <1>1, TypeInit, TypeNext, OneInit, OneNext, PodInit, PodNext, CallInit, CallNext,
     DiskInit, PTL DEF Spec

\* What kubelet was told is prepared stays in the checkpoint, complete and with
\* its CDI file, so that a crash at any moment loses nothing.
THEOREM Durable == ASSUME ~SharedOnNode PROVE Spec => []PreparedIsDurable
<1>1. TypeInv /\ PodInv /\ DiskInv => PreparedIsDurable
  BY Zenon DEF PodInv, ReadyOK, DiskInv, SavedOK, CdiOK, ReadyIsSaved, Needed,
     PreparedIsDurable
<1> QED
  BY <1>1, Invariants, PTL

\* ... and in the NIC store, for the NRI hooks to attach.
THEOREM Served == ASSUME ~SharedOnNode PROVE Spec => []PreparedIsServed
<1>1. PodInv /\ DiskInv => PreparedIsServed
  <2> SUFFICES ASSUME PodInv, DiskInv, up, NEW c \in Claim \ wiped, NEW p \in ready[c]
               PROVE  HasNICs(byPod, c, p)
    BY DEF PreparedIsServed
  <2>1. HasNICs(saved, c, p)
    BY Zenon DEF PodInv, ReadyOK, DiskInv, SavedOK, ReadyIsSaved
  <2>2. \A s \in saved : s.claim = c /\ s.pod = p => s \in byPod
    BY DEF DiskInv, StoreOK, Needed
  <2> QED
    BY <2>1, <2>2 DEF HasNICs
<1> QED
  BY <1>1, Invariants, PTL

\* No two NICs of a pod in the store have the same interface name.
THEOREM NoClash == ASSUME ~SharedOnNode PROVE Spec => []NoIfaceClash
<1>1. DiskInv => NoIfaceClash
  BY DEF DiskInv
<1> QED
  BY <1>1, Invariants, PTL

\* A restart restores exactly the NICs that were served before it.
THEOREM RestartKeeps == ASSUME ~SharedOnNode PROVE Spec => []RestartKeepsSpecs
<1>1. TypeInv /\ PodInv /\ DiskInv => RestartKeepsSpecs
  BY Zenon DEF TypeInv, TypeOK, NIC, PodInv, ReadyOK, DiskInv, StoreOK, ReadyIsSaved,
     RestartKeepsSpecs
<1> QED
  BY <1>1, Invariants, PTL

-----------------------------------------------------------------------------
(* DeviceState implements ClaimLedger                                      *)

\* Of a claim that is told again, every checkpointed NIC is the pod's.
LEMMA ToldAgain ==
  ASSUME TypeInv, OneInv, PodInv, DiskInv, NEW c \in Claim, NEW p \in Pod, PrepareCached(c, p)
  PROVE  Ledger!Repeat(c, p)
<1>1. c \in prepared /\ MayPrepare(c, p) /\ UNCHANGED <<prepared, saved>>
  BY Zenon DEF PrepareCached, fileVars
<1>2. users[c] = {p}
  BY <1>1, KnownUser DEF DiskInv
<1>3. Ledger!ForPod(saved', c, p)
  BY <1>1, <1>2, Zenon DEF DiskInv, SavedOK, Ledger!ForPod
<1> QED
  BY <1>1, <1>3, Zenon DEF PrepareCached, Answered, Ledger!Repeat, Ledger!Tell

\* The write of the checkpoint enters the claim, for the caller only.
LEMMA Entered ==
  ASSUME TypeInv, OneInv, PodInv, BuiltOK, SaveCheckpoint
  PROVE  \E c \in Claim, p \in Pod : Ledger!Enter(c, p)
<1>1. /\ pc \in Preparing /\ cur \in Claim /\ caller \in Pod
      /\ prepared' = prepared \cup {cur} /\ saved' = saved \cup built
      /\ Answered(cur, caller)
  BY DEF SaveCheckpoint, Preparing, TypeInv
<1>2. cur \notin prepared /\ \A s \in built : s.claim = cur /\ s.pod = caller
  BY <1>1, Zenon DEF OneInv, FreshCall, BuiltOK, BuiltIsCallers
<1>3. \A s \in saved : s.claim # cur
  BY <1>2, Zenon DEF OneInv, SavedIsListed
<1>4. saved' \subseteq NIC
  BY <1>1, Zenon DEF TypeInv, TypeOK
<1>5. Ledger!ForPod(saved', cur, caller)
  BY <1>1, <1>2, <1>3, Zenon DEF Ledger!ForPod
<1>6. Ledger!Tell(cur, caller)
  BY <1>1, <1>5, Zenon DEF Answered, Ledger!Tell
<1>7. Ledger!Enter(cur, caller)
  BY <1>1, <1>2, <1>4, <1>6, Zenon DEF Ledger!Enter
<1> QED
  BY <1>1, <1>7

LEMMA LedgerNext ==
  ASSUME TypeInv, OneInv, PodInv, BuiltOK, DiskInv, [Next]_vars
  PROVE  [Ledger!Next]_(Ledger!vars)
<1>0. ready \in [Claim -> SUBSET Pod]
  BY DEF TypeInv, TypeOK
<1>1. CASE UNCHANGED <<prepared, saved, ready>>
  BY <1>1 DEF Ledger!vars
<1>2. ASSUME NEW c \in Claim, NEW p \in Pod, PrepareCached(c, p) PROVE Ledger!Next
  BY <1>2, ToldAgain DEF Ledger!Next
<1>3. CASE SaveCheckpoint
  BY <1>3, Entered DEF Ledger!Next
<1>4. ASSUME NEW c \in Claim, UnprepareUnknown(c) \/ UnprepareBegin(c) PROVE Ledger!Next
  <2>1. Dropped(c) /\ UNCHANGED <<prepared, saved>>
    BY <1>4, Zenon DEF UnprepareUnknown, UnprepareBegin, fileVars
  <2>2. Ledger!Leave(c)
    BY <1>0, <2>1 DEF Dropped, Ledger!Leave
  <2> QED
    BY <2>2 DEF Ledger!Next
<1>5. ASSUME NEW c \in Claim, UnprepareResets(c) PROVE Ledger!Next
  <2>1. Dropped(c) /\ ((prepared' = {} /\ saved' = {}) \/ UNCHANGED <<prepared, saved>>)
    BY <1>5, Zenon DEF UnprepareResets
  <2>2. Ledger!Reset(c) \/ Ledger!Leave(c)
    BY <1>0, <2>1 DEF Dropped, Ledger!Reset, Ledger!Leave
  <2> QED
    BY <2>2 DEF Ledger!Next
<1>6. CASE SaveWithout
  <2>1. /\ cur \in Claim /\ ready[cur] = {} /\ UNCHANGED ready
        /\ prepared' = prepared \ {cur} /\ saved' = {s \in saved : s.claim # cur}
    BY <1>6 DEF SaveWithout, PodInv, CallerOK, Unpreparing, TypeInv
  <2>2. Ledger!Strike(cur)
    BY <2>1 DEF Ledger!Strike
  <2> QED
    BY <2>1, <2>2 DEF Ledger!Next
<1>7. ASSUME NEW c \in Claim, NEW p \in Pod, DropUser(c, p) PROVE Ledger!Next
  <2>1. ready' = [ready EXCEPT ![c] = @ \ {p}] /\ UNCHANGED <<prepared, saved>>
    BY <1>7, Zenon DEF DropUser, fileVars
  <2>2. Ledger!Leave(c)
    BY <1>0, <2>1 DEF Ledger!Leave
  <2> QED
    BY <2>2 DEF Ledger!Next
<1>8. CASE \/ \E c \in Claim, p \in Pod : PrepareRefused(c, p) \/ PrepareBegin(c, p)
           \/ \E r \in Result : Resolve(r) \/ AddNIC(r)
           \/ \E p \in Pod : CreatePod(p) \/ StopPod(p) \/ EndPod(p)
           \/ NewDeviceState \/ Crash \/ ResolveFails \/ WriteCDI \/ PrepareWriteFails
           \/ DeleteCDI \/ UnprepareWriteFails \/ RefreshEnumerate \/ RefreshApply
           \/ SubnetsChange \/ DamageCheckpoint \/ UNCHANGED vars
  <2>1. UNCHANGED <<prepared, saved, ready>>
    BY <1>8, Zenon DEF PrepareRefused, PrepareBegin, Resolve, AddNIC, CreatePod, StopPod, EndPod,
       NewDeviceState, Crash, ResolveFails, WriteCDI, PrepareWriteFails, DeleteCDI,
       UnprepareWriteFails, RefreshEnumerate, RefreshApply, SubnetsChange,
       DamageCheckpoint, vars, fileVars, kubeletVars
  <2> QED
    BY <1>1, <2>1
<1> QED
  BY <1>2, <1>3, <1>4, <1>5, <1>6, <1>7, <1>8 DEF Next

\* kubelet sees a ledger: the lock, the store, the CDI files, the refreshes, the
\* crashes and the failed writes of DeviceState are steps that change nothing in it.
THEOREM ImplementsLedger == ASSUME ~SharedOnNode PROVE Spec => KeepsLedger
<1>1. Init => Ledger!Init
  BY DEF Init, Ledger!Init
<1> QED
  BY <1>1, LedgerNext, Invariants, PTL DEF Spec, KeepsLedger, Ledger!Spec

=============================================================================
