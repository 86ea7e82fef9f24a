----------------------------- MODULE NriPlugin -----------------------------
(***************************************************************************)
(* The sandbox side of the kubelet plugin: the NRI plugin                  *)
(* (cmd/kube-ovn-dra-kubeletplugin/nri.go) with its connection to the      *)
(* container runtime, the sandbox handler (pkg/plumbing/nri.go) that       *)
(* attaches and detaches the NICs of the store, and what is left on the    *)
(* node: veth pairs and OVS ports.                                         *)
(*                                                                         *)
(* Three handlers can be at work: "nri" serves the one request the runtime *)
(* has open, "late" is a request that outlived its connection (the runtime *)
(* gave up on it), and "retry" is the loop that repeats failed attaches.   *)
(* They share no lock while they attach.  The context of a late request is *)
(* cancelled: its netlink calls go on, its ovs-vsctl commands fail.        *)
(*                                                                         *)
(* A Prepare is one step here; DeviceState has its details.  The datapath  *)
(* of a NIC is its veth pair and its OVS port; a KubeVirt NIC has more.    *)
(* Every sandbox has a network namespace: one without (host network) is    *)
(* skipped by every handler.                                               *)
(***************************************************************************)
EXTENDS NICStore

CONSTANTS
  Pod, Sandbox, Iface, None,
  PodOf,      \* PodOf[s]: the pod of a sandbox
  Overlap,    \* may two handlers work at the same time?
  LateStop    \* may the runtime repeat the stop of a stopped sandbox?

ASSUME SandboxAssumption ==
  /\ None \notin Sandbox \cup Iface
  /\ PodOf \in [Sandbox -> Pod]
  /\ Overlap \in BOOLEAN
  /\ LateStop \in BOOLEAN

VARIABLES
  \* The plugin process.
  proc,       \* "down", "serving" (kubelet is served, driver.nri is nil), "up"
  ready,      \* nriPlugin.ready
  failed,     \* nriPlugin.failed: at most one sandbox per pod
  byPod, attached,   \* the NIC store
  task,       \* task[h]: what handler h does
  \* The node.
  prepared,   \* the pods whose claim is in the checkpoint
  conn,       \* the runtime's connection: "down", "syncing", "up"
  box,        \* box[s]: the life of a sandbox
  link,       \* link[s][i]: "none", "host" (peer not moved yet), "pod"
  port,       \* <<s, i>>: OVS ports
  clean       \* observation: sandboxes whose stop was answered without error

storeVars == <<byPod, attached>>
nodeVars == <<link, port>>
vars == <<proc, ready, failed, storeVars, task, prepared, conn, box, nodeVars, clean>>

Handler == {"nri", "late", "retry"}

\* What prepareDevices stores for a pod, and what sandboxSpecs makes of it.  A
\* pod has one claim, named after it.
NICsOf(p) == [claim : {p}, pod : {p}, iface : Iface]
InSandbox(s, i) == [claim |-> PodOf[s], pod |-> PodOf[s], iface |-> i, sandbox |-> s]
AttachedNIC == {InSandbox(s, i) : s \in Sandbox, i \in Iface}

Task == [op : {"none", "run", "sync", "retry", "stop"},
         boxes : SUBSET Sandbox,            \* sandboxes still to visit
         s : Sandbox \cup {None},           \* the sandbox at hand
         todo : SUBSET Iface,               \* its NICs still to attach
         nic : Iface \cup {None},           \* the NIC at hand
         taken : SUBSET AttachedNIC,        \* NICs still to detach
         step : {"pick", "next", "move", "port", "mark", "take", "detach"},
         err : BOOLEAN]

Idle == [op |-> "none", boxes |-> {}, s |-> None, todo |-> {}, nic |-> None,
         taken |-> {}, step |-> "pick", err |-> FALSE]

Busy(h) == task[h].op # "none"
BusyOn(p) == \E h \in Handler : \E s \in task[h].boxes \cup ({task[h].s} \ {None}) : PodOf[s] = p

\* A handler starts: any time, or when no other is at work.
MayBegin(h) == ~Busy(h) /\ (Overlap \/ \A g \in Handler : ~Busy(g))

TypeOK ==
  /\ proc \in {"down", "serving", "up"}
  /\ ready \in BOOLEAN
  /\ failed \subseteq Sandbox
  /\ byPod \subseteq UNION {NICsOf(p) : p \in Pod}
  /\ attached \subseteq AttachedNIC
  /\ task \in [Handler -> Task]
  /\ prepared \subseteq Pod
  /\ conn \in {"down", "syncing", "up"}
  /\ box \in [Sandbox -> {"none", "starting", "running", "stopping", "stopped"}]
  /\ link \in [Sandbox -> [Iface -> {"none", "host", "pod"}]]
  /\ port \subseteq Sandbox \X Iface
  /\ clean \subseteq Sandbox

Init ==
  /\ proc = "down"
  /\ ready = FALSE
  /\ failed = {}
  /\ byPod = {}
  /\ attached = {}
  /\ task = [h \in Handler |-> Idle]
  /\ prepared = {}
  /\ conn = "down"
  /\ box = [s \in Sandbox |-> "none"]
  /\ link = [s \in Sandbox |-> [i \in Iface |-> "none"]]
  /\ port = {}
  /\ clean = {}

-----------------------------------------------------------------------------
(* The process                                                             *)

\* NewDriver up to kubeletplugin.Start: the store is restored from the
\* checkpoint, and kubelet can call.
StartServing ==
  /\ proc = "down"
  /\ proc' = "serving"
  /\ byPod' = UNION {NICsOf(p) : p \in prepared}
  /\ UNCHANGED <<ready, failed, attached, task, prepared, conn, box, nodeVars, clean>>

\* The rest of NewDriver: startNRIPlugin.
startNRIPlugin ==
  /\ proc = "serving"
  /\ proc' = "up"
  /\ UNCHANGED <<ready, failed, storeVars, task, prepared, conn, box, nodeVars, clean>>

\* A sandbox whose request lost its connection: the runtime goes on without the
\* plugin.
Unattended(b) == IF b = "starting" THEN "running" ELSE IF b = "stopping" THEN "stopped" ELSE b

\* The netns of a stopped sandbox is deleted, and with it the pod end of a pair.
LinksAfter(l, b) ==
  [s \in Sandbox |-> [i \in Iface |->
     IF b[s] = "stopped" /\ l[s][i] = "pod" THEN "none" ELSE l[s][i]]]

Crash ==
  /\ proc # "down"
  /\ proc' = "down"
  /\ ready' = FALSE
  /\ failed' = {}
  /\ byPod' = {}
  /\ attached' = {}
  /\ task' = [h \in Handler |-> Idle]
  /\ conn' = "down"
  /\ box' = [s \in Sandbox |-> Unattended(box[s])]
  /\ link' = LinksAfter(link, box')
  /\ UNCHANGED <<prepared, port, clean>>

-----------------------------------------------------------------------------
(* The connection                                                          *)

\* The stub connects, and the runtime sends Synchronize with the running
\* sandboxes.  It sends no event before that is answered.
Synchronize ==
  /\ proc = "up"
  /\ conn = "down"
  /\ MayBegin("nri")
  /\ conn' = "syncing"
  /\ task' = [task EXCEPT !["nri"] =
               [Idle EXCEPT !.op = "sync", !.boxes = {s \in Sandbox : box[s] = "running"}]]
  /\ UNCHANGED <<proc, ready, failed, storeVars, prepared, box, nodeVars, clean>>

\* End of Synchronize, also of one whose connection is gone.
SyncDone(h) ==
  /\ task[h].op = "sync" /\ task[h].step = "pick" /\ task[h].boxes = {}
  /\ ready' = TRUE
  /\ conn' = IF h = "nri" THEN "up" ELSE conn
  /\ task' = [task EXCEPT ![h] = Idle]
  /\ UNCHANGED <<proc, failed, storeVars, prepared, box, nodeVars, clean>>

\* The connection ends: the runtime restarts, or a request took too long.  The
\* handler of an open request works on; the model keeps one such handler.
ConnectionLost ==
  /\ conn # "down"
  /\ Busy("nri") => ~Busy("late")
  /\ conn' = "down"
  /\ ready' = FALSE
  /\ task' = IF Busy("nri") THEN [task EXCEPT !["nri"] = Idle, !["late"] = task["nri"]] ELSE task
  /\ box' = [s \in Sandbox |-> Unattended(box[s])]
  /\ link' = LinksAfter(link, box')
  /\ UNCHANGED <<proc, failed, storeVars, prepared, port, clean>>

-----------------------------------------------------------------------------
(* syncSandbox and the retry loop                                          *)

\* The next sandbox of a Synchronize or of a retry pass: the Specs of its pod
\* are read from the store.
syncSandbox(h) ==
  /\ task[h].op \in {"sync", "retry"}
  /\ task[h].step = "pick"
  /\ \E s \in task[h].boxes :
       task' = [task EXCEPT ![h] = [@ EXCEPT !.boxes = task[h].boxes \ {s}, !.s = s, !.step = "next",
                  !.todo = {n.iface : n \in Specs(byPod, PodOf[s])}, !.err = FALSE]]
  /\ UNCHANGED <<proc, ready, failed, storeVars, prepared, conn, box, nodeVars, clean>>

\* The entry of a sandbox in the map, which is keyed by pod.
SamePod(s) == {t \in failed : PodOf[t] = PodOf[s]}

\* All NICs of the sandbox were tried: it is recorded for a retry, or forgotten.
BugSyncSandboxDone(h) ==   \* a failed sandbox is not recorded
  /\ task[h].op \in {"sync", "retry"}
  /\ task[h].step = "next" /\ task[h].todo = {}
  /\ failed' = failed \ SamePod(task[h].s)
  /\ task' = [task EXCEPT ![h] = [@ EXCEPT !.s = None, !.step = "pick", !.nic = None, !.err = FALSE]]
  /\ UNCHANGED <<proc, ready, storeVars, prepared, conn, box, nodeVars, clean>>
BugSyncSandboxReset(h) ==   \* the sandbox is read after the task moved on
  /\ task[h].op \in {"sync", "retry"}
  /\ task[h].step = "next" /\ task[h].todo = {}
  /\ task' = [task EXCEPT ![h] = [@ EXCEPT !.s = None, !.step = "pick", !.nic = None, !.err = FALSE]]
  /\ failed' = (failed \ SamePod(task[h].s)) \cup (IF task[h].err THEN {task'[h].s} ELSE {})
  /\ UNCHANGED <<proc, ready, storeVars, prepared, conn, box, nodeVars, clean>>
SyncSandboxDone(h) ==
  /\ task[h].op \in {"sync", "retry"}
  /\ task[h].step = "next" /\ task[h].todo = {}
  /\ failed' = (failed \ SamePod(task[h].s)) \cup (IF task[h].err THEN {task[h].s} ELSE {})
  /\ task' = [task EXCEPT ![h] = [@ EXCEPT !.s = None, !.step = "pick", !.nic = None, !.err = FALSE]]
  /\ UNCHANGED <<proc, ready, storeVars, prepared, conn, box, nodeVars, clean>>

\* A tick of retryFailed: the failed sandboxes are copied and tried one by one.
retryFailed ==
  /\ proc = "up"
  /\ failed # {}
  /\ MayBegin("retry")
  /\ task' = [task EXCEPT !["retry"] = [Idle EXCEPT !.op = "retry", !.boxes = failed]]
  /\ UNCHANGED <<proc, ready, failed, storeVars, prepared, conn, box, nodeVars, clean>>

RetryDone ==
  /\ task["retry"].op = "retry" /\ task["retry"].step = "pick" /\ task["retry"].boxes = {}
  /\ task' = [task EXCEPT !["retry"] = Idle]
  /\ UNCHANGED <<proc, ready, failed, storeVars, prepared, conn, box, nodeVars, clean>>

-----------------------------------------------------------------------------
(* Attach of one NIC                                                       *)

\* After a failed NIC, RunPodSandbox rolls back; the others go on.
Failing(t) ==
  IF t.op = "run" THEN [t EXCEPT !.step = "take", !.todo = {}, !.nic = None, !.err = TRUE]
                  ELSE [t EXCEPT !.step = "next", !.nic = None, !.err = TRUE]

\* createVethPair: a pair that exists is reused.
createVethPair(h) ==
  /\ Busy(h) /\ task[h].step = "next"
  /\ \E i \in task[h].todo :
       LET s == task[h].s
           t == [task[h] EXCEPT !.todo = @ \ {i}, !.nic = i]
       IN \/ /\ task' = [task EXCEPT ![h] = [t EXCEPT !.step = "move"]]
             /\ link' = [link EXCEPT ![s][i] = IF @ = "none" THEN "host" ELSE @]
          \/ /\ link[s][i] = "none"
             /\ task' = [task EXCEPT ![h] = Failing(t)]
             /\ UNCHANGED link
  /\ UNCHANGED <<proc, ready, failed, storeVars, prepared, conn, box, port, clean>>

\* The best-effort cleanupHostVeth of a failed Attach.
Cleanup(s, i) == UNCHANGED link \/ link' = [link EXCEPT ![s][i] = "none"]

HasNetns(s) == box[s] \in {"starting", "running", "stopping"}

\* moveIntoNetns and configurePodIface.
moveIntoNetns(h) ==
  /\ Busy(h) /\ task[h].step = "move"
  /\ LET s == task[h].s
         i == task[h].nic
     IN \/ /\ HasNetns(s) /\ link[s][i] # "none"
           /\ link' = [link EXCEPT ![s][i] = "pod"]
           /\ task' = [task EXCEPT ![h] = [@ EXCEPT !.step = "port"]]
        \/ /\ Cleanup(s, i)
           /\ task' = [task EXCEPT ![h] = Failing(@)]
  /\ UNCHANGED <<proc, ready, failed, storeVars, prepared, conn, box, port, clean>>

\* attachToOVS.  A command that is killed by its deadline can have added the port.
attachToOVS(h) ==
  /\ Busy(h) /\ task[h].step = "port"
  /\ LET s == task[h].s
         i == task[h].nic
     IN \/ /\ h # "late"
           /\ port' = port \cup {<<s, i>>}
           /\ task' = [task EXCEPT ![h] = [@ EXCEPT !.step = "mark"]]
           /\ UNCHANGED link
        \/ /\ port' \in {port, port \cup {<<s, i>>}}
           /\ Cleanup(s, i)
           /\ task' = [task EXCEPT ![h] = Failing(@)]
  /\ UNCHANGED <<proc, ready, failed, storeVars, prepared, conn, box, clean>>

MarkNIC(h) ==
  /\ Busy(h) /\ task[h].step = "mark"
  /\ attached' = MarkAttached(attached, InSandbox(task[h].s, task[h].nic))
  /\ task' = [task EXCEPT ![h] = [@ EXCEPT !.step = "next", !.nic = None]]
  /\ UNCHANGED <<proc, ready, failed, byPod, prepared, conn, box, nodeVars, clean>>

-----------------------------------------------------------------------------
(* RunPodSandbox and StopPodSandbox                                        *)

Siblings(s) == {t \in Sandbox \ {s} : PodOf[t] = PodOf[s]}

\* kubelet starts a sandbox once the claim is prepared, after any earlier one of
\* the pod has stopped.  Without a plugin the runtime just starts it.
RunPodSandbox(s) ==
  /\ box[s] = "none"
  /\ PodOf[s] \in prepared
  /\ \A t \in Siblings(s) : box[t] \in {"none", "stopped"}
  /\ \/ /\ conn = "up" /\ MayBegin("nri")
        /\ box' = [box EXCEPT ![s] = "starting"]
        /\ task' = [task EXCEPT !["nri"] =
                     [Idle EXCEPT !.op = "run", !.s = s, !.step = "next",
                        !.todo = {n.iface : n \in Specs(byPod, PodOf[s])}]]
     \/ /\ conn = "down"
        /\ box' = [box EXCEPT ![s] = "running"]
        /\ UNCHANGED task
  /\ UNCHANGED <<proc, ready, failed, storeVars, prepared, conn, nodeVars, clean>>

\* Every NIC is attached: the sandbox starts.
RunDone(h) ==
  /\ task[h].op = "run" /\ task[h].step = "next" /\ task[h].todo = {}
  /\ box' = IF h = "nri" THEN [box EXCEPT ![task[h].s] = "running"] ELSE box
  /\ task' = [task EXCEPT ![h] = Idle]
  /\ UNCHANGED <<proc, ready, failed, storeVars, prepared, conn, nodeVars, clean>>

\* The runtime stops a sandbox.
StopPodSandbox(s) ==
  /\ box[s] = "running" \/ (LateStop /\ box[s] = "stopped")
  /\ \/ /\ conn = "up" /\ MayBegin("nri")
        /\ box' = [box EXCEPT ![s] = IF @ = "running" THEN "stopping" ELSE @]
        /\ failed' = failed \ SamePod(s)
        /\ task' = [task EXCEPT !["nri"] = [Idle EXCEPT !.op = "stop", !.s = s, !.step = "take"]]
     \/ /\ conn = "down" /\ box[s] = "running"
        /\ box' = [box EXCEPT ![s] = "stopped"]
        /\ UNCHANGED <<failed, task>>
  /\ link' = LinksAfter(link, box')
  /\ UNCHANGED <<proc, ready, storeVars, prepared, conn, port, clean>>

\* The attached NICs of the pod are taken from the store, by OnStopPodSandbox or
\* to roll back.
TakeNICs(h) ==
  /\ Busy(h) /\ task[h].step = "take"
  /\ attached' = TakeAttached(attached, PodOf[task[h].s])
  /\ task' = [task EXCEPT ![h] =
               [@ EXCEPT !.step = "detach", !.taken = Specs(attached, PodOf[task[h].s])]]
  /\ UNCHANGED <<proc, ready, failed, byPod, prepared, conn, box, nodeVars, clean>>

\* Detach: the port, then the pair; a failure skips the rest of this NIC only.
Detach(h) ==
  /\ Busy(h) /\ task[h].step = "detach"
  /\ \E n \in task[h].taken :
       LET t == [task[h] EXCEPT !.taken = @ \ {n}]
           failing == [t EXCEPT !.err = TRUE]
           without == port \ {<<n.sandbox, n.iface>>}
       IN \/ /\ h # "late"
             /\ port' = without
             /\ link' = [link EXCEPT ![n.sandbox][n.iface] = "none"]
             /\ task' = [task EXCEPT ![h] = t]
          \/ /\ port' \in {port, without}
             /\ task' = [task EXCEPT ![h] = failing]
             /\ UNCHANGED link
  /\ UNCHANGED <<proc, ready, failed, storeVars, prepared, conn, box, clean>>

\* A failed RunPodSandbox is rolled back: the runtime drops the sandbox.
RollbackDone(h) ==
  /\ task[h].op = "run" /\ task[h].step = "detach" /\ task[h].taken = {}
  /\ box' = IF h = "nri" THEN [box EXCEPT ![task[h].s] = "stopped"] ELSE box
  /\ link' = LinksAfter(link, box')
  /\ task' = [task EXCEPT ![h] = Idle]
  /\ UNCHANGED <<proc, ready, failed, storeVars, prepared, conn, port, clean>>

\* DetachPodPorts removes the ports of the pod that OVS still has, whatever
\* sandbox they are of, as far as that succeeds; then the stop is answered.
PodPorts(p) == {e \in port : PodOf[e[1]] = p}
BugDetachPodPorts(h) ==   \* only what is in memory is detached
  /\ task[h].op = "stop" /\ task[h].step = "detach" /\ task[h].taken = {}
  /\ LET s == task[h].s
     IN /\ box' = IF h = "nri" THEN [box EXCEPT ![s] = "stopped"] ELSE box
        /\ link' = LinksAfter(link, box')
        /\ clean' = IF ~task[h].err /\ h = "nri" THEN clean \cup {s} ELSE clean
  /\ task' = [task EXCEPT ![h] = Idle]
  /\ UNCHANGED <<proc, ready, failed, storeVars, prepared, conn, port>>
DetachPodPorts(h) ==
  /\ task[h].op = "stop" /\ task[h].step = "detach" /\ task[h].taken = {}
  /\ LET s == task[h].s
         ports == PodPorts(PodOf[s])
     IN \E gone \in SUBSET ports : \E deleted \in SUBSET gone :
          /\ port' = port \ gone
          /\ box' = IF h = "nri" THEN [box EXCEPT ![s] = "stopped"] ELSE box
          /\ link' = LinksAfter([t \in Sandbox |-> [i \in Iface |->
                       IF <<t, i>> \in deleted THEN "none" ELSE link[t][i]]], box')
          /\ clean' = IF ~task[h].err /\ gone = ports /\ deleted = gone /\ h = "nri"
                      THEN clean \cup {s} ELSE clean
  /\ task' = [task EXCEPT ![h] = Idle]
  /\ UNCHANGED <<proc, ready, failed, storeVars, prepared, conn>>

-----------------------------------------------------------------------------
(* Claims                                                                  *)

\* prepareResourceClaim: refused while the NRI plugin is not ready, once there is
\* one.  A pod whose sandboxes have run is not prepared again.
PrepareClaim(p) ==
  /\ proc # "down"
  /\ proc = "up" => ready
  /\ p \notin prepared
  /\ \A s \in Sandbox : PodOf[s] = p => box[s] = "none"
  /\ byPod' = byPod \cup NICsOf(p)
  /\ prepared' = prepared \cup {p}
  /\ UNCHANGED <<proc, ready, failed, attached, task, conn, box, nodeVars, clean>>

\* kubelet unprepares a claim once the pod has stopped.
UnprepareClaim(p) ==
  /\ proc # "down"
  /\ p \in prepared
  /\ \A s \in Sandbox : PodOf[s] = p => box[s] \in {"none", "stopped"}
  /\ byPod' = RemoveClaim(byPod, p)
  /\ prepared' = prepared \ {p}
  /\ UNCHANGED <<proc, ready, failed, attached, task, conn, box, nodeVars, clean>>

-----------------------------------------------------------------------------

Next ==
  \/ StartServing
  \/ startNRIPlugin
  \/ Crash
  \/ Synchronize
  \/ ConnectionLost
  \/ retryFailed
  \/ RetryDone
  \/ \E h \in Handler : SyncDone(h)
  \/ \E h \in Handler : syncSandbox(h)
  \/ \E h \in Handler : SyncSandboxDone(h)
  \/ \E h \in Handler : createVethPair(h)
  \/ \E h \in Handler : moveIntoNetns(h)
  \/ \E h \in Handler : attachToOVS(h)
  \/ \E h \in Handler : MarkNIC(h)
  \/ \E h \in Handler : RunDone(h)
  \/ \E h \in Handler : TakeNICs(h)
  \/ \E h \in Handler : Detach(h)
  \/ \E h \in Handler : RollbackDone(h)
  \/ \E h \in Handler : DetachPodPorts(h)
  \/ \E s \in Sandbox : RunPodSandbox(s)
  \/ \E s \in Sandbox : StopPodSandbox(s)
  \/ \E p \in Pod : PrepareClaim(p)
  \/ \E p \in Pod : UnprepareClaim(p)

Spec == Init /\ [][Next]_vars

HandlerStep(h) ==
  \/ SyncDone(h) \/ syncSandbox(h) \/ SyncSandboxDone(h) \/ createVethPair(h)
  \/ moveIntoNetns(h) \/ attachToOVS(h) \/ MarkNIC(h) \/ RunDone(h) \/ TakeNICs(h)
  \/ Detach(h) \/ RollbackDone(h) \/ DetachPodPorts(h)

\* The plugin is restarted, reconnects (run) and keeps its ticker; a handler
\* finishes; and no step of an Attach fails every time it is tried.
Fairness ==
  /\ WF_vars(StartServing) /\ WF_vars(startNRIPlugin)
  /\ SF_vars(Synchronize) /\ SF_vars(retryFailed) /\ WF_vars(RetryDone)
  /\ \A h \in Handler :
       /\ WF_vars(HandlerStep(h))
       /\ SF_vars(createVethPair(h) /\ task'[h].step = "move")
       /\ SF_vars(moveIntoNetns(h) /\ task'[h].step = "port")
       /\ SF_vars(attachToOVS(h) /\ task'[h].step = "mark")

FairSpec == Spec /\ Fairness

-----------------------------------------------------------------------------
(* Properties                                                              *)

Wired(s, i) == link[s][i] = "pod" /\ <<s, i>> \in port
AllWired(s) == \A i \in Iface : Wired(s, i)

\* While the runtime is connected, a running sandbox that no handler is at work on
\* has all its NICs, or the retry loop knows it: also when its RunPodSandbox was
\* missed, the plugin crashed in the middle of an attach, a request outlived its
\* connection and rolled back, or every step of a repeated attach failed.
UnwiredIsRetried ==
  conn = "up" => \A s \in Sandbox :
    box[s] = "running" /\ ~BusyOn(PodOf[s]) => AllWired(s) \/ s \in failed

\* A sandbox whose stop was answered without an error has no OVS port left, even
\* if a crash lost the record of what was attached: a leftover port would keep
\* claiming the OVN port of the pod or VM (OnStopPodSandbox).
NoLeftoverPort ==
  \A s \in clean : ~BusyOn(PodOf[s]) => \A i \in Iface : <<s, i>> \notin port

\* Once the plugin has stopped crashing, every running sandbox gets its NICs in
\* the end, unless it stops (Synchronize and retryFailed), however often the
\* connection is lost or an attach fails.
RunningIsWired ==
  <>[](proc = "up") =>
    \A s \in Sandbox : box[s] = "running" ~> AllWired(s) \/ box[s] # "running"

=============================================================================
