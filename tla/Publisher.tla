----------------------------- MODULE Publisher -----------------------------
(***************************************************************************)
(* The central publisher (cmd/kube-ovn-dra-kubeletplugin/publisher.go):    *)
(* replicas that compete for a lease, of which the holder follows the      *)
(* Subnets, gives the ResourceSlice controller the pools to publish, and   *)
(* records an Event on a Subnet that becomes full or has an address again. *)
(* A replica ends when it crashes, is stopped, loses the lease or cannot   *)
(* publish, and the Deployment starts it again.                            *)
(*                                                                         *)
(* The pool of a Subnet is told apart only by what its status says of it.  *)
(* Capacity has the numbers, RefreshLoop the steps of a refresh.           *)
(***************************************************************************)
EXTENDS Naturals, Subnets

CONSTANTS
  Replica,
  Nobody,      \* no replica
  MaxChange,   \* bound: number of changes of the Subnets
  MaxEnd       \* bound: how often a replica ends or the lease runs out

ASSUME PublisherAssumption == Nobody \notin Replica /\ MaxChange \in Nat /\ MaxEnd \in Nat

VARIABLES
  subnets,    \* subnets[s]: "hidden" (gone, its Vlan is missing, or it is not
              \* publishable), "free" or "full"
  changes,    \* number of changes so far
  lease,      \* the replica that holds the lease, or Nobody
  term,       \* term[i]: "candidate", or how far publish has come
  view,       \* view[i]: the informer stores of replica i
  trigger,    \* trigger[i]: the channel of capacity 1
  full,       \* full[i]: fullSubnets.full
  last,       \* last[i]: what refresh compares with
  wanted,     \* wanted[i]: what the ResourceSlice controller of i was given
  slices,     \* the published pools
  event,      \* event[s]: the last Event on a Subnet
  ends,       \* number of ends so far
  overlap     \* observation: has a replica led before its predecessor had ended?

cluster == <<subnets, changes>>
replica == <<term, view, trigger, full, last, wanted>>
publisherVars == <<cluster, lease, replica, slices, event, ends, overlap>>

Status == {"hidden", "free", "full"}
Stage == {"candidate", "sync", "first", "wait", "refresh"}
Pool == [Subnet -> Status]
NoPool == [s \in Subnet |-> "hidden"]

Leading(i) == term[i] # "candidate"
Watching(i) == term[i] \in {"first", "wait", "refresh"}
Publishing(i) == term[i] \in {"wait", "refresh"}

\* Types; a candidate remembers nothing of an earlier term.
PublisherTypeOK ==
  /\ subnets \in Pool
  /\ changes \in 0..MaxChange
  /\ lease \in Replica \cup {Nobody}
  /\ term \in [Replica -> Stage]
  /\ view \in [Replica -> Pool]
  /\ trigger \in [Replica -> BOOLEAN]
  /\ full \in [Replica -> SUBSET Subnet]
  /\ last \in [Replica -> Pool]
  /\ wanted \in [Replica -> Pool]
  /\ slices \in Pool
  /\ event \in [Subnet -> {"none", "full", "available"}]
  /\ ends \in 0..MaxEnd
  /\ overlap \in BOOLEAN
  /\ \A i \in Replica : ~Leading(i) => full[i] = {} /\ wanted[i] = NoPool

PublisherInit ==
  /\ subnets \in Pool
  /\ changes = 0
  /\ lease = Nobody
  /\ term = [i \in Replica |-> "candidate"]
  /\ view = [i \in Replica |-> NoPool]
  /\ trigger = [i \in Replica |-> FALSE]
  /\ full = [i \in Replica |-> {}]
  /\ last = [i \in Replica |-> NoPool]
  /\ wanted = [i \in Replica |-> NoPool]
  /\ slices = NoPool
  /\ event = [s \in Subnet |-> "none"]
  /\ ends = 0
  /\ overlap = FALSE

-----------------------------------------------------------------------------
(* The lease                                                               *)

\* A candidate takes a lease that is free, or that it held before it was
\* restarted.
Lead(i) ==
  /\ term[i] = "candidate"
  /\ lease \in {Nobody, i}
  /\ lease' = i
  /\ term' = [term EXCEPT ![i] = "sync"]
  /\ overlap' = (overlap \/ \E j \in Replica \ {i} : Leading(j))
  /\ UNCHANGED <<cluster, view, trigger, full, last, wanted, slices, event, ends>>

\* The process ends and is started again, with nothing but its identity.
Restarted(i) ==
  /\ term' = [term EXCEPT ![i] = "candidate"]
  /\ view' = [view EXCEPT ![i] = NoPool]
  /\ trigger' = [trigger EXCEPT ![i] = FALSE]
  /\ full' = [full EXCEPT ![i] = {}]
  /\ last' = [last EXCEPT ![i] = NoPool]
  /\ wanted' = [wanted EXCEPT ![i] = NoPool]

\* A crash leaves the lease, a stop or a failed publish gives it back
\* (ReleaseOnCancel).
End(i) ==
  /\ Leading(i)
  /\ ends < MaxEnd
  /\ ends' = ends + 1
  /\ Restarted(i)
  /\ lease' \in {lease, IF lease = i THEN Nobody ELSE lease}
  /\ UNCHANGED <<cluster, slices, event, overlap>>

\* The lease runs out while its holder cannot renew it ...
LeaseExpires ==
  /\ lease # Nobody
  /\ ends < MaxEnd
  /\ ends' = ends + 1
  /\ lease' = Nobody
  /\ UNCHANGED <<cluster, replica, slices, event, overlap>>

\* ... and the holder, when it finds that out, ends.
BugLeaseLost(i) ==   \* the process lives on as a candidate
  /\ Leading(i)
  /\ lease # i
  /\ term' = [term EXCEPT ![i] = "candidate"]
  /\ UNCHANGED <<cluster, lease, view, trigger, full, last, wanted, slices, event, ends, overlap>>
LeaseLost(i) ==
  /\ Leading(i)
  /\ lease # i
  /\ Restarted(i)
  /\ UNCHANGED <<cluster, lease, slices, event, ends, overlap>>

-----------------------------------------------------------------------------
(* publish                                                                 *)

\* ownerOf finds the ClusterRole (if it does not, the replica ends), then the
\* informers list the objects and report each as added.
Sync(i) ==
  /\ term[i] = "sync"
  /\ term' = [term EXCEPT ![i] = "first"]
  /\ view' = [view EXCEPT ![i] = subnets]
  /\ trigger' = [trigger EXCEPT ![i] = TRUE]
  /\ UNCHANGED <<cluster, lease, full, last, wanted, slices, event, ends, overlap>>

\* An informer stores a change and triggers a refresh.
OnChange(i) ==
  /\ Watching(i)
  /\ view[i] # subnets
  /\ view' = [view EXCEPT ![i] = subnets]
  /\ trigger' = [trigger EXCEPT ![i] = TRUE]
  /\ UNCHANGED <<cluster, lease, term, full, last, wanted, slices, event, ends, overlap>>

\* fullSubnets.update: an Event for each Subnet of the snapshot that is full now
\* and was not, or was full and is not.  A Subnet that is not in the snapshot is
\* forgotten.
BugUpdate(i) ==   \* a Subnet that was full is remembered as full
  /\ full' = [full EXCEPT ![i] = @ \cup {s \in Subnet : view[i][s] = "full"}]
  /\ event' = [s \in Subnet |->
       IF view[i][s] = "full" /\ s \notin full[i] THEN "full"
       ELSE IF view[i][s] = "free" /\ s \in full[i] THEN "available" ELSE event[s]]
BugUpdateAll(i) ==   \* every Subnet that is not full is said to have an address again
  /\ full' = [full EXCEPT ![i] = {s \in Subnet : view[i][s] = "full"}]
  /\ event' = [s \in Subnet |->
       IF view[i][s] = "full" /\ s \notin full[i] THEN "full"
       ELSE IF view[i][s] = "free" THEN "available" ELSE event[s]]
update(i) ==
  /\ full' = [full EXCEPT ![i] = {s \in Subnet : view[i][s] = "full"}]
  /\ event' = [s \in Subnet |->
       IF view[i][s] = "full" /\ s \notin full[i] THEN "full"
       ELSE IF view[i][s] = "free" /\ s \in full[i] THEN "available" ELSE event[s]]

\* resources: the pools of the Subnets that can be published.  One that cannot be
\* parsed is skipped and keeps no other from being published.
resources(i) == view[i]

\* The first snapshot is published when the controller starts.
BugFirst(i) ==   \* the controller starts empty
  /\ term[i] = "first"
  /\ update(i)
  /\ last' = [last EXCEPT ![i] = resources(i)]
  /\ term' = [term EXCEPT ![i] = "wait"]
  /\ UNCHANGED <<cluster, lease, view, trigger, wanted, slices, ends, overlap>>
First(i) ==
  /\ term[i] = "first"
  /\ update(i)
  /\ last' = [last EXCEPT ![i] = resources(i)]
  /\ wanted' = [wanted EXCEPT ![i] = resources(i)]
  /\ term' = [term EXCEPT ![i] = "wait"]
  /\ UNCHANGED <<cluster, lease, view, trigger, slices, ends, overlap>>

\* refreshDevicesLoop takes a trigger ...
TakeTrigger(i) ==
  /\ term[i] = "wait" /\ trigger[i]
  /\ trigger' = [trigger EXCEPT ![i] = FALSE]
  /\ term' = [term EXCEPT ![i] = "refresh"]
  /\ UNCHANGED <<cluster, lease, view, full, last, wanted, slices, event, ends, overlap>>

\* ... and after its delay drops one that has come since, unless it came after the
\* drain.  A refresh always updates the Events, and publishes what has changed.
Refresh(i) ==
  /\ term[i] = "refresh"
  /\ update(i)
  /\ IF resources(i) = last[i] THEN UNCHANGED <<last, wanted>>
     ELSE /\ last' = [last EXCEPT ![i] = resources(i)]
          /\ wanted' = [wanted EXCEPT ![i] = resources(i)]
  /\ term' = [term EXCEPT ![i] = "wait"]
  /\ trigger' \in {trigger, [trigger EXCEPT ![i] = FALSE]}
  /\ UNCHANGED <<cluster, lease, view, slices, ends, overlap>>

\* The controller watches the ResourceSlices and makes them what it was given.
WriteSlices(i) ==
  /\ Publishing(i)
  /\ slices # wanted[i]
  /\ slices' = wanted[i]
  /\ UNCHANGED <<cluster, lease, replica, event, ends, overlap>>

-----------------------------------------------------------------------------

\* A Subnet or a Vlan is created, edited or deleted, or addresses are used up or
\* returned.
Change(s) ==
  /\ changes < MaxChange
  /\ changes' = changes + 1
  /\ \E status \in Status \ {subnets[s]} : subnets' = [subnets EXCEPT ![s] = status]
  /\ UNCHANGED <<lease, replica, slices, event, ends, overlap>>

PublishStep(i) ==
  \/ Sync(i) \/ OnChange(i) \/ First(i) \/ TakeTrigger(i) \/ Refresh(i)
  \/ WriteSlices(i)

PublisherNext ==
  \/ \E i \in Replica : Lead(i) \/ End(i) \/ LeaseLost(i) \/ PublishStep(i)
  \/ LeaseExpires
  \/ \E s \in Subnet : Change(s)

PublisherSpec == PublisherInit /\ [][PublisherNext]_publisherVars

\* Of each replica both threads run: the election tries to take the lease, and ends
\* the replica when the lease is lost; publish goes on meanwhile.
FairPublisherSpec ==
  /\ PublisherSpec
  /\ \A i \in Replica :
       /\ WF_publisherVars(Lead(i) \/ LeaseLost(i))
       /\ WF_publisherVars(PublishStep(i))

-----------------------------------------------------------------------------
(* Properties                                                              *)

\* Replica i has seen all there is and has nothing left to do.
Rests(i) == term[i] = "wait" /\ ~trigger[i] /\ view[i] = subnets

\* Once the cluster and the replicas are left alone, the published pools are those
\* of the Subnets, whichever replicas crashed, lost the lease or wrote late, and
\* whatever Subnet is unpublishable meanwhile.
SlicesSettle == <>[](slices = subnets)

\* A Subnet that is full says so: when the leader rests, the last Event on it is
\* SubnetFull, also after restarts and after the Subnet was hidden, as long as no
\* replica led before its predecessor had ended (fullSubnets.update).
FullIsTold ==
  ~overlap => \A i \in Replica : Rests(i) =>
    \A s \in Subnet : subnets[s] = "full" => event[s] = "full"

\* A SubnetAvailable always takes a SubnetFull back: no Subnet is said to have an
\* address again that was not said to be full, across restarts too.
AvailableTakesBack ==
  [][\A s \in Subnet : ~overlap /\ event[s] # event'[s] /\ event'[s] = "available"
       => event[s] = "full"]_publisherVars

=============================================================================
