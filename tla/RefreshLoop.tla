---------------------------- MODULE RefreshLoop ----------------------------
(***************************************************************************)
(* How a change of the Subnets reaches the published ResourceSlices        *)
(* (refreshDevicesLoop in refresh.go): informers report a change through a *)
(* channel of capacity one, and the loop takes it, waits to batch a burst, *)
(* drains the channel, builds the devices again and publishes them if they *)
(* changed.  The kubelet plugin (driver.go) and the central publisher      *)
(* (publisher.go) run it; only the plugin's refresh, which reads from the  *)
(* API server, can fail in practice.                                       *)
(***************************************************************************)
EXTENDS Naturals

CONSTANTS
  Devices,    \* the device lists the cluster can ask for
  MaxChange,  \* bound: number of changes of the cluster
  MaxError    \* bound: number of errors of refresh and publish

ASSUME RefreshAssumption == MaxChange \in Nat /\ MaxError \in Nat

VARIABLES
  cluster,    \* the devices that the Subnets, Vlans and the node call for
  changes,    \* number of changes so far
  watching,   \* have the informers listed the objects?
  event,      \* an informer has stored a change and not called its handler yet
  trigger,    \* the channel of capacity 1
  loop,       \* where the loop is
  resources,  \* what refresh returned
  last,       \* what refresh compares with (driverResources, last)
  published,  \* what the ResourceSlice controller was given last
  errors      \* number of errors so far

vars == <<cluster, changes, watching, event, trigger, loop, resources, last, published, errors>>

TypeOK ==
  /\ {cluster, resources, last, published} \subseteq Devices
  /\ changes \in 0..MaxChange
  /\ watching \in BOOLEAN
  /\ event \in BOOLEAN
  /\ trigger \in BOOLEAN
  /\ loop \in {"start", "wait", "delay", "drain", "refresh", "publish"}
  /\ errors \in 0..MaxError

\* The devices are enumerated and published once, before the watch begins.
Init ==
  /\ cluster \in Devices
  /\ changes = 0
  /\ watching = FALSE
  /\ event = FALSE
  /\ trigger = FALSE
  /\ loop = "start"
  /\ resources = cluster /\ last = cluster /\ published = cluster
  /\ errors = 0

-----------------------------------------------------------------------------

\* A Subnet, a Vlan or the labels of the node change.
Change ==
  /\ changes < MaxChange
  /\ \E d \in Devices \ {cluster} : cluster' = d
  /\ changes' = changes + 1
  /\ event' = (event \/ watching)
  /\ UNCHANGED <<watching, trigger, loop, resources, last, published, errors>>

\* WatchDevices: the first list of an informer reports every object as added (there
\* always is one: kube-ovn has its own Subnets), then the loop starts.
WatchDevices ==
  /\ loop = "start"
  /\ watching' = TRUE
  /\ event' = TRUE
  /\ loop' = "wait"
  /\ UNCHANGED <<cluster, changes, trigger, resources, last, published, errors>>

\* onChange: a send that does not block.
BugOnChange ==   \* an unbuffered channel: only a waiting loop gets the trigger
  /\ event
  /\ event' = FALSE
  /\ trigger' = (trigger \/ loop = "wait")
  /\ UNCHANGED <<cluster, changes, watching, loop, resources, last, published, errors>>
OnChange ==
  /\ event
  /\ event' = FALSE
  /\ trigger' = TRUE
  /\ UNCHANGED <<cluster, changes, watching, loop, resources, last, published, errors>>

\* The loop takes a trigger.
TakeTrigger ==
  /\ loop = "wait" /\ trigger
  /\ trigger' = FALSE
  /\ loop' = "delay"
  /\ UNCHANGED <<cluster, changes, watching, event, resources, last, published, errors>>

BugDelayOver ==   \* the wait goes on while a trigger is pending
  /\ loop = "delay" /\ ~trigger
  /\ loop' = "drain"
  /\ UNCHANGED <<cluster, changes, watching, event, trigger, resources, last, published, errors>>
DelayOver ==
  /\ loop = "delay"
  /\ loop' = "drain"
  /\ UNCHANGED <<cluster, changes, watching, event, trigger, resources, last, published, errors>>

\* A trigger that arrived meanwhile is dropped: the refresh comes after it.
Drain ==
  /\ loop = "drain"
  /\ trigger' = FALSE
  /\ loop' = "refresh"
  /\ UNCHANGED <<cluster, changes, watching, event, resources, last, published, errors>>

\* refresh: nothing is published if nothing changed.
BugRefresh ==   \* the empty result of an unchanged refresh is remembered
  /\ loop = "refresh"
  /\ resources' = cluster
  /\ last' = IF cluster = last THEN "none" ELSE cluster
  /\ loop' = IF cluster = last THEN "wait" ELSE "publish"
  /\ UNCHANGED <<cluster, changes, watching, event, trigger, published, errors>>
Refresh ==
  /\ loop = "refresh"
  /\ resources' = cluster
  /\ last' = cluster
  /\ loop' = IF cluster = last THEN "wait" ELSE "publish"
  /\ UNCHANGED <<cluster, changes, watching, event, trigger, published, errors>>

\* An error is logged, and the loop waits for the next trigger.
RefreshFails ==
  /\ loop = "refresh"
  /\ errors < MaxError
  /\ errors' = errors + 1
  /\ loop' = "wait"
  /\ UNCHANGED <<cluster, changes, watching, event, trigger, resources, last, published>>

Publish ==
  /\ loop = "publish"
  /\ published' = resources
  /\ loop' = "wait"
  /\ UNCHANGED <<cluster, changes, watching, event, trigger, resources, last, errors>>

PublishFails ==
  /\ loop = "publish"
  /\ errors < MaxError
  /\ errors' = errors + 1
  /\ loop' = "wait"
  /\ UNCHANGED <<cluster, changes, watching, event, trigger, resources, last, published>>

LoopStep ==
  \/ TakeTrigger \/ DelayOver \/ Drain
  \/ Refresh \/ RefreshFails \/ Publish \/ PublishFails

Next == Change \/ WatchDevices \/ OnChange \/ LoopStep

Spec == Init /\ [][Next]_vars

\* The informers deliver, and the loop runs; the cluster owes nothing.
FairSpec == Spec /\ WF_vars(WatchDevices) /\ WF_vars(OnChange) /\ WF_vars(LoopStep)

-----------------------------------------------------------------------------
(* Properties                                                              *)

\* The loop never rests on stale devices: when it waits with no trigger and no
\* event on the way, the published devices are those of the cluster.  A trigger
\* that is dropped, by the full channel or by the drain, loses no change; only an
\* error does.
NoLostChange ==
  loop = "wait" /\ ~trigger /\ ~event /\ errors = 0 => published = cluster

\* Once the cluster has stopped changing, its devices are published for good,
\* unless there was an error.
PublishesLatest == <>[](published = cluster \/ errors > 0)

=============================================================================
