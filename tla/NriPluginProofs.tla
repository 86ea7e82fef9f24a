-------------------------- MODULE NriPluginProofs --------------------------
(***************************************************************************)
(* Proofs about NriPlugin, for handlers that work one at a time: a stop    *)
(* that was answered leaves no port, and, if the runtime does not repeat a *)
(* stop, a running sandbox of a connected runtime has its NICs or is       *)
(* retried.  The invariant and the steps within a request are in           *)
(* NriRequestProofs; here are the steps from sandbox to sandbox, those of  *)
(* the process, its connection and the claims, and the requests.           *)
(***************************************************************************)
EXTENDS NriRequestProofs

-----------------------------------------------------------------------------
(* The sandboxes of Synchronize and of the retry loop                      *)

\* The next sandbox is at hand: the NICs of a live one are all to be attached.
LEMMA SyncSandboxStep ==
  ASSUME Inv, NEW h \in Handler, syncSandbox(h)
  PROVE  Inv'
<1> USE SandboxAssumption DEF SandboxAssumption
<1>1. PICK s \in task[h].boxes :
        /\ s \in Sandbox
        /\ \A g \in Handler \ {h} : task'[g] = task[g]
        /\ task'[h].op = task[h].op /\ task'[h].boxes = task[h].boxes \ {s} /\ task'[h].s = s
        /\ task'[h].step = "next" /\ task'[h].todo = {n.iface : n \in Specs(byPod, PodOf[s])}
        /\ task'[h].err = FALSE
  BY InvTyped, SandboxFields, Zenon
<1>2. /\ TypeOK /\ Shape(h) /\ Busy(h) /\ task[h] \in Task /\ s \in Sandbox
      /\ task[h].op \in {"sync", "retry"} /\ task[h].step = "pick" /\ task[h].s = None
      /\ task[h].nic = None /\ task[h].taken = {}
  BY Fields DEF Inv, Shape, syncSandbox, Busy
<1>3. UNCHANGED <<proc, ready, failed, byPod, attached, prepared, conn, box, link, port, clean>>
  BY DEF syncSandbox, storeVars, nodeVars
<1> DEFINE todo == {n.iface : n \in Specs(byPod, PodOf[s])}
<1>4. proc = "up" /\ (\A g \in Handler \ {h} : task[g] = Idle) /\ (h = "late" => conn = "down")
  BY <1>2, OnlyOne
<1>5. Live(s) => todo = Iface
  BY <1>2, <1>4, SpecsAll DEF Inv, Stored
<1>6. \A g \in Handler \ {h} : task'[g] = task[g]
  BY <1>1
<1>7. /\ task'[h].op = task[h].op /\ task'[h].boxes = task[h].boxes \ {s} /\ task'[h].s = s
       /\ task'[h].step = "next" /\ task'[h].todo = todo /\ task'[h].err = FALSE
  BY <1>1
<1> HIDE DEF todo
<1>8. \A g \in Handler : /\ task'[g].op = task[g].op
                          /\ task'[g].boxes \cup ({task'[g].s} \ {None}) = task[g].boxes \cup ({task[g].s} \ {None})
  BY <1>1, <1>2, <1>6, <1>7
<1>9. Typed'
  BY InvTyped, SandboxTyped
<1>10. Alone'
  BY <1>3, <1>8 DEF Inv, Alone, Busy, Handler
<1>11. Stored'
  BY <1>3, Zenon DEF Inv, Stored, Live
<1>12. Placed'
  <2>1. /\ task["nri"].op = "sync" =>
             \A x \in task["nri"].boxes \cup ({task["nri"].s} \ {None}) : box[x] = "running"
        /\ task["retry"].boxes \cup ({task["retry"].s} \ {None}) \subseteq failed
        /\ \A x, y \in failed : PodOf[x] = PodOf[y] => x = y
        /\ \A x \in failed : box[x] # "none"
        /\ \A g \in Handler : \A x \in task[g].boxes \cup ({task[g].s} \ {None}) : box[x] # "none"
    BY DEF Inv, Placed
  <2>2. "nri" \in Handler /\ "retry" \in Handler
    BY DEF Handler
  <2>3. task["nri"].op \notin {"run", "stop"}
    <3>1. CASE h = "nri"
      BY <1>2, <3>1
    <3>2. CASE h # "nri"
      BY <1>4, <2>2, <3>2 DEF Idle
    <3> QED
      BY <3>1, <3>2
  <2>4. task'["nri"].op \notin {"run", "stop"}
    BY <1>8, <2>2, <2>3
  <2> QED
    BY <1>3, <1>8, <2>1, <2>2, <2>4 DEF Placed
<1>13. \A g \in Handler \ {"late"} : Progress(g)'
  <2>1. ASSUME NEW g \in Handler \ {h} PROVE Progress(g)'
    BY <1>4, <1>6 DEF Progress, Busy, Idle
  <2>2. Progress(h)'
    BY <1>3, <1>5, <1>7 DEF Progress, Live
  <2> QED
    BY <2>1, <2>2
<1>14. Served'
  <2>1. task'["nri"].op = task["nri"].op
        /\ \A x \in Sandbox : x \in task["nri"].boxes \cup {task["nri"].s} => x \in task'["nri"].boxes \cup {task'["nri"].s}
    BY <1>8, SandboxAssumption DEF Handler, SandboxAssumption
  <2> QED
    BY <1>3, <2>1, Zenon DEF Inv, Served, AllWired, Wired
<1>15. Cleaned'
  <2>1. \A g \in Handler : \A x \in Sandbox : Reaches(g, x)' => Reaches(g, x)
    BY <1>1, <1>2 DEF Reaches
  <2> QED
    BY <1>2, <1>3, <2>1 DEF Inv, Cleaned, TypeOK
<1> QED
  BY <1>9, <1>10, <1>11, <1>12, <1>13, <1>14, <1>15 DEF Inv, Typed

\* A sandbox without an error has all its NICs if it is live; one with an error is
\* retried.
LEMMA SyncSandboxEnd ==
  ASSUME Inv, NEW h \in Handler, SyncSandboxDone(h)
  PROVE  Inv'
<1> USE SandboxAssumption DEF SandboxAssumption
<1> DEFINE s == task[h].s
<1>1. /\ TypeOK /\ Shape(h) /\ Busy(h) /\ task[h] \in Task /\ s \in Sandbox
      /\ task[h].op \in {"sync", "retry"} /\ task[h].step = "next" /\ task[h].todo = {}
      /\ task[h].nic = None /\ task[h].taken = {} /\ s \notin task[h].boxes
  BY Fields DEF Inv, Shape, SyncSandboxDone, Busy
<1>2. UNCHANGED <<proc, ready, byPod, attached, prepared, conn, box, link, port, clean>>
  BY DEF SyncSandboxDone, storeVars, nodeVars
<1>3. failed' = (failed \ SamePod(s)) \cup (IF task[h].err THEN {s} ELSE {})
  BY DEF SyncSandboxDone
<1>4. proc = "up" /\ (\A g \in Handler \ {h} : task[g] = Idle) /\ (h = "late" => conn = "down")
  BY <1>1, OnlyOne
<1>5. /\ \A g \in Handler \ {h} : task'[g] = task[g]
      /\ task'[h].op = task[h].op /\ task'[h].boxes = task[h].boxes /\ task'[h].s = None
      /\ task'[h].step = "pick"
  BY InvTyped, SandboxDoneFields, Zenon
<1>6. \A g \in Handler : task'[g].op = task[g].op /\ task'[g].boxes = task[g].boxes
                         /\ {task'[g].s} \ {None} \subseteq {task[g].s} \ {None}
  BY <1>5, Zenon
<1>7. failed' \subseteq failed \cup {s}
  BY <1>3
<1>8. Typed'
  BY InvTyped, SandboxTyped
<1>9. Alone'
  BY <1>2, <1>6 DEF Inv, Alone, Busy, Handler
<1>10. Stored'
  BY <1>2 DEF Inv, Stored, Live
<1>11. Placed'
  <2>1. "nri" \in Handler /\ "retry" \in Handler
    BY DEF Handler
  <2>2. task'["nri"].op \notin {"run", "stop"}
    BY <1>1, <1>4, <1>6, <2>1 DEF Idle
  <2>3. task'["nri"].op = "sync" =>
          \A x \in task'["nri"].boxes \cup ({task'["nri"].s} \ {None}) : box[x] = "running"
    BY <1>6, <2>1 DEF Inv, Placed
  <2>4. task'["retry"].boxes \cup ({task'["retry"].s} \ {None}) \subseteq failed'
    <3>1. CASE h = "retry"
      <4>1. s \in failed /\ task[h].boxes \subseteq failed
        BY <1>1, <3>1 DEF Inv, Placed
      <4>2. \A x \in task[h].boxes : x \notin SamePod(s)
        BY <1>1, <4>1 DEF SamePod, Inv, Placed
      <4> QED
        BY <1>3, <1>5, <3>1, <4>1, <4>2
    <3>2. CASE h # "retry"
      <4>1. task'["retry"] = Idle
        BY <1>4, <1>5, <2>1, <3>2
      <4> QED
        BY <4>1 DEF Idle
    <3> QED
      BY <3>1, <3>2
  <2>5. \A x, y \in failed' : PodOf[x] = PodOf[y] => x = y
    BY <1>3 DEF SamePod, Inv, Placed
  <2>6. box[s] # "none"
    BY <1>1 DEF Inv, Placed
  <2>7. \A x \in failed' : box[x] # "none"
    BY <1>7, <2>6 DEF Inv, Placed
  <2>8. \A g \in Handler : \A x \in task'[g].boxes \cup ({task'[g].s} \ {None}) : box[x] # "none"
    BY <1>6 DEF Inv, Placed
  <2> QED
    BY <1>2, <2>2, <2>3, <2>4, <2>5, <2>7, <2>8 DEF Placed
<1>12. \A g \in Handler \ {"late"} : Progress(g)'
  <2>1. ASSUME NEW g \in Handler \ {h} PROVE Progress(g)'
    BY <1>4, <1>5 DEF Progress, Busy, Idle
  <2>2. Progress(h)'
    BY <1>5, Zenon DEF Progress, Attaching
  <2> QED
    BY <2>1, <2>2
<1>13. Served'
  <2>1. SUFFICES ASSUME ~LateStop, conn # "down", NEW x \in Sandbox, box[x] = "running"
                 PROVE  \/ AllWired(x) \/ x \in failed'
                        \/ task'["nri"].op = "sync" /\ x \in task'["nri"].boxes \cup {task'["nri"].s}
    BY <1>2 DEF Served, AllWired, Wired
  <2>2. CASE x = s
    <3>1. ~task[h].err => AllWired(x)
      <4>1. h # "late" /\ Live(s)
        BY <1>4, <2>1, <2>2 DEF Live
      <4>2. Progress(h)
        BY <4>1 DEF Inv
      <4> QED
        BY <1>1, <2>2, <4>1, <4>2 DEF Progress, Attaching, AllWired
    <3> QED
      BY <1>3, <2>2, <3>1
  <2>3. CASE x # s
    <3>1. h = "nri" \/ h = "retry"
      BY <1>4, <2>1 DEF Handler
    <3>2. x \in failed => x \notin SamePod(s)
      <4>1. CASE h = "nri"
        <5>1. box[s] = "running"
          BY <1>1, <4>1 DEF Inv, Placed, Alone
        <5> QED
          BY <1>1, <2>1, <2>3, <5>1 DEF Inv, Stored, Live, Siblings, SamePod
      <4>2. CASE h = "retry"
        BY <1>1, <2>3, <4>2 DEF Inv, Placed, SamePod
      <4> QED
        BY <3>1, <4>1, <4>2
    <3>3. \/ AllWired(x) \/ x \in failed
          \/ task["nri"].op = "sync" /\ x \in task["nri"].boxes \cup {task["nri"].s}
      BY <2>1 DEF Inv, Served
    <3>4. x \in task["nri"].boxes \cup {task["nri"].s} => x \in task'["nri"].boxes \cup {task'["nri"].s}
      BY <1>5, <2>3, Zenon DEF Handler
    <3> QED
      BY <1>3, <1>6, <3>2, <3>3, <3>4 DEF Handler
  <2> QED
    BY <2>2, <2>3
<1>14. Cleaned'
  <2>1. s \notin clean
    BY <1>1 DEF Inv, Cleaned, Reaches
  <2>2. \A g \in Handler : \A x \in Sandbox : Reaches(g, x)' => Reaches(g, x)
    BY <1>5 DEF Reaches
  <2> QED
    BY <1>1, <1>2, <1>7, <2>1, <2>2 DEF Inv, Cleaned, TypeOK
<1> QED
  BY <1>8, <1>9, <1>10, <1>11, <1>12, <1>13, <1>14 DEF Inv, Typed

-----------------------------------------------------------------------------
(* The process, its connection and the claims                              *)

LEMMA StartStep ==
  ASSUME Inv, StartServing \/ startNRIPlugin
  PROVE  Inv'
<1> USE SandboxAssumption DEF SandboxAssumption
<1>1. UNCHANGED <<ready, failed, attached, task, prepared, conn, box, link, port, clean>>
  BY DEF StartServing, startNRIPlugin, storeVars, nodeVars
<1>2. /\ proc # "up" /\ proc' \in {"serving", "up"}
      /\ byPod' = UNION {NICsOf(p) : p \in prepared}
  BY DEF StartServing, startNRIPlugin, storeVars, Inv, Stored
<1>3. conn = "down" /\ \A g \in Handler : ~Busy(g)
  BY <1>2 DEF Inv, Alone, Shape
<1>4. Typed'
  BY InvTyped, StartTyped
<1>5. Alone'
  BY <1>1, <1>3 DEF Inv, Alone, Busy
<1>6. Stored'
  BY <1>1, <1>2 DEF Inv, Stored, Live
<1>7. Placed'
  BY <1>1 DEF Inv, Placed
<1>8. \A g \in Handler \ {"late"} : Progress(g)'
  BY <1>1, <1>3 DEF Progress, Busy
<1>9. Served' /\ Cleaned'
  BY <1>1, <1>3, ZenonT(30) DEF Inv, Served, Cleaned, Reaches
<1> QED
  BY <1>4, <1>5, <1>6, <1>7, <1>8, <1>9 DEF Inv, Typed

LEMMA CrashStep ==
  ASSUME Inv, Crash
  PROVE  Inv'
<1> USE SandboxAssumption DEF SandboxAssumption
<1>1. /\ proc' = "down" /\ ready' = FALSE /\ failed' = {} /\ byPod' = {} /\ attached' = {} /\ conn' = "down"
      /\ task' = [h \in Handler |-> Idle]
      /\ UNCHANGED <<prepared, port, clean>>
  BY DEF Crash
<1>2. /\ box' \in [Sandbox -> {"none", "starting", "running", "stopping", "stopped"}]
      /\ \A s \in Sandbox : /\ box'[s] \in {"starting", "running", "stopping"} => Live(s)
                            /\ box[s] = "stopped" => box'[s] = "stopped"
  BY UnattendedType DEF Inv, Crash, Live
<1>3. \A g \in Handler : task'[g] = Idle
  BY <1>1
<1>4. /\ \A g \in Handler : task'[g].op = "none" /\ task'[g].boxes = {} /\ task'[g].s = None /\ ~Busy(g)'
      /\ \A g \in Handler : Progress(g)'
  BY <1>3, AllIdle
<1>5. Typed'
  BY InvTyped, CrashTyped
<1>6. Alone'
  BY <1>1, <1>4 DEF Alone, Handler
<1>7. Stored'
  BY <1>1, <1>2 DEF Inv, Stored, Siblings, Live
<1>8. Placed'
  BY <1>1, <1>4 DEF Placed, Handler
<1>9. Served'
  BY <1>1 DEF Served
<1>10. Cleaned'
  BY <1>1, <1>2, <1>4 DEF Inv, Cleaned, Reaches, TypeOK, Live
<1> QED
  BY <1>4, <1>5, <1>6, <1>7, <1>8, <1>9, <1>10 DEF Inv, Typed

LEMMA LostStep ==
  ASSUME Inv, ConnectionLost
  PROVE  Inv'
<1> USE SandboxAssumption DEF SandboxAssumption
<1>1. /\ conn # "down" /\ conn' = "down" /\ ready' = FALSE
      /\ UNCHANGED <<proc, failed, byPod, attached, prepared, port, clean>>
  BY DEF ConnectionLost, storeVars
<1>2. TypeOK /\ ~Busy("late") /\ task["late"] = Idle
  BY <1>1 DEF Inv, Alone, Shape, Handler
<1>3. task'["nri"] = Idle /\ task'["retry"] = task["retry"] /\ task'["late"] = task["nri"]
  <2>1. ~Busy("nri") => task["nri"] = Idle
    BY DEF Inv, Shape, Handler
  <2> QED
    BY <1>2, <2>1, InvTyped, LostFields, Zenon
<1>4. /\ box' \in [Sandbox -> {"none", "starting", "running", "stopping", "stopped"}]
      /\ \A s \in Sandbox : /\ box'[s] \in {"starting", "running", "stopping"} => Live(s)
                            /\ box[s] = "stopped" => box'[s] = "stopped"
                            /\ box[s] # "none" => box'[s] # "none"
      /\ link' \in [Sandbox -> [Iface -> {"none", "host", "pod"}]]
      /\ \A t \in Sandbox : box'[t] # "stopped" => \A i \in Iface : link'[t][i] = link[t][i]
  BY <1>2, UnattendedType DEF ConnectionLost, Live
<1>5. /\ Idle.op = "none" /\ Idle.boxes = {} /\ Idle.s = None /\ Idle.nic = None
      /\ Idle.taken = {} /\ Idle.step = "pick" /\ Idle.err = FALSE
  BY DEF Idle
<1>6. Typed'
  BY InvTyped, LostTyped
<1>7. Alone'
  BY <1>1, <1>3, <1>5 DEF Inv, Alone, Handler, Busy
<1>8. Stored'
  BY <1>1, <1>4 DEF Inv, Stored, Siblings, Live
<1>9. Placed'
  <2>1. \A h \in Handler : \A s \in task'[h].boxes \cup ({task'[h].s} \ {None}) : box[s] # "none" /\ s \in Sandbox
    BY <1>2, <1>3, <1>5, Fields DEF Inv, Placed, Handler
  <2>2. failed \subseteq Sandbox
    BY <1>2 DEF TypeOK
  <2>3. \A s \in failed : box'[s] # "none"
    BY <1>4, <2>2 DEF Inv, Placed, Live
  <2>4. task'["retry"].boxes \cup ({task'["retry"].s} \ {None}) \subseteq failed
        /\ \A s, t \in failed : PodOf[s] = PodOf[t] => s = t
    BY <1>3 DEF Inv, Placed
  <2>5. task'["nri"].op = "none"
    BY <1>3, <1>5
  <2> QED
    BY <1>1, <1>4, <2>1, <2>3, <2>4, <2>5 DEF Placed, Live
<1>10. \A g \in Handler \ {"late"} : Progress(g)'
  <2>1. Progress("nri")'
    BY <1>3, <1>5, ZenonT(30) DEF Progress, Busy
  <2>2. Progress("retry")'
    <3>1. SUFFICES ASSUME Busy("retry"), Attaching("retry"), ~task["retry"].err, Live(task["retry"].s)'
                   PROVE  Progress("retry")'
      BY <1>3, Zenon DEF Progress, Busy, Attaching, Live
    <3>2. task["retry"].s \in Sandbox /\ Shape("retry")
      BY <3>1, Zenon DEF Inv, Shape, Handler, Attaching
    <3>3. box'[task["retry"].s] # "stopped" /\ Live(task["retry"].s)
      BY <1>3, <1>4, <3>1, <3>2 DEF Live
    <3>4. \A i \in Iface : Wired(task["retry"].s, i)' <=> Wired(task["retry"].s, i)
      BY <1>1, <1>3, <1>4, <3>2, <3>3 DEF Wired
    <3>5. task["retry"].step = "port" => link'[task["retry"].s][task["retry"].nic] = link[task["retry"].s][task["retry"].nic]
      BY <1>4, <3>2, <3>3 DEF Shape
    <3>6. Progress("retry")
      BY DEF Inv, Handler
    <3> QED
      BY <1>1, <1>3, <3>1, <3>2, <3>3, <3>4, <3>5, <3>6 DEF Progress, Shape, Wired
  <2> QED
    BY <2>1, <2>2 DEF Handler
<1>11. Served'
  BY <1>1 DEF Served
<1>12. Cleaned'
  <2>1. \A s \in Sandbox : (\A h \in Handler : ~Reaches(h, s)) => \A h \in Handler : ~Reaches(h, s)'
    BY <1>3, <1>5 DEF Handler, Reaches
  <2> QED
    BY <1>1, <1>2, <1>4, <2>1 DEF Inv, Cleaned, TypeOK, Live
<1> QED
  BY <1>6, <1>7, <1>8, <1>9, <1>10, <1>11, <1>12 DEF Inv, Typed

LEMMA PrepareStep ==
  ASSUME Inv, NEW p \in Pod, PrepareClaim(p) \/ UnprepareClaim(p)
  PROVE  Inv'
<1> USE SandboxAssumption DEF SandboxAssumption
<1>1. UNCHANGED <<proc, ready, failed, attached, task, conn, box, link, port, clean>> /\ proc # "down"
  BY DEF PrepareClaim, UnprepareClaim, nodeVars
<1>2. TypeOK /\ byPod = UNION {NICsOf(q) : q \in prepared}
  BY <1>1 DEF Inv, Stored
<1>3. byPod' = UNION {NICsOf(q) : q \in prepared'} /\ prepared' \subseteq Pod
  <2>1. CASE PrepareClaim(p)
    BY <1>2, <2>1 DEF PrepareClaim, TypeOK
  <2>2. CASE UnprepareClaim(p)
    <3>1. prepared' = prepared \ {p} /\ byPod' = {n \in byPod : n.claim # p}
      BY <2>2 DEF UnprepareClaim, RemoveClaim
    <3>2. \A q : \A n \in NICsOf(q) : n.claim = q
      BY DEF NICsOf
    <3> QED
      BY <1>2, <3>1, <3>2 DEF TypeOK
  <2> QED
    BY <2>1, <2>2
<1>4. Typed'
  BY InvTyped, ClaimTyped, Zenon
<1>5. Alone' /\ Cleaned'
  BY <1>1, Zenon DEF Inv, Alone, Cleaned, Reaches, Busy
<1>6. Placed'
  BY <1>1, Zenon DEF Inv, Placed
<1>7. Served'
  BY <1>1, Zenon DEF Inv, Served, AllWired, Wired
<1>8. \A g \in Handler \ {"late"} : Progress(g)'
  BY <1>1, Zenon DEF Inv, Progress, Busy, Attaching, Live, Wired
<1>9. Stored'
  <2>1. \A s \in Sandbox : Live(s) => PodOf[s] \in prepared'
    BY DEF Inv, Stored, Live, PrepareClaim, UnprepareClaim
  <2> QED
    BY <1>1, <1>3, <2>1 DEF Inv, Stored, Live
<1> QED
  BY <1>4, <1>5, <1>8, <1>9, <1>6, <1>7 DEF Inv, Typed

\* A sandbox starts: with the plugin asked, all its NICs are to be attached.
LEMMA RunStep ==
  ASSUME Inv, ~Overlap, NEW s \in Sandbox, RunPodSandbox(s)
  PROVE  Inv'
<1> USE SandboxAssumption DEF SandboxAssumption
<1>1. UNCHANGED <<proc, ready, failed, byPod, attached, prepared, conn, link, port, clean>>
  BY DEF RunPodSandbox, storeVars, nodeVars
<1>2. TypeOK /\ box[s] = "none" /\ PodOf[s] \in prepared /\ \A t \in Siblings(s) : ~Live(t)
  BY Zenon DEF Inv, RunPodSandbox, Live
<1>3. s \notin failed /\ s \notin clean /\ \A g \in Handler : s \notin task[g].boxes \cup {task[g].s}
  BY <1>2 DEF Inv, Placed, Cleaned
<1>4. ASSUME NEW b \in {"starting", "running"}, box' = [box EXCEPT ![s] = b]
      PROVE  /\ box' \in [Sandbox -> {"none", "starting", "running", "stopping", "stopped"}]
             /\ box'[s] = b /\ \A t \in Sandbox \ {s} : box'[t] = box[t]
             /\ Stored'
  <2>1. /\ box' \in [Sandbox -> {"none", "starting", "running", "stopping", "stopped"}]
        /\ box'[s] = b /\ \A t \in Sandbox \ {s} : box'[t] = box[t]
    BY <1>2, <1>4 DEF TypeOK
  <2> QED
    BY <1>1, <1>2, <2>1 DEF Inv, Stored, Live, Siblings
<1>5. Typed'
  BY InvTyped, RequestTyped
<1>6. CASE conn = "down" /\ box' = [box EXCEPT ![s] = "running"] /\ UNCHANGED task
  <2>1. /\ box' \in [Sandbox -> {"none", "starting", "running", "stopping", "stopped"}]
        /\ box'[s] = "running" /\ \A t \in Sandbox \ {s} : box'[t] = box[t]
        /\ Stored'
    BY <1>4, <1>6, Zenon
  <2>2. Alone' /\ Served'
    BY <1>1, <1>6, ZenonT(30) DEF Inv, Alone, Busy, Served
  <2>3. Placed'
    <3>1. task["nri"].op \notin {"run", "stop", "sync"}
      BY <1>6 DEF Inv, Alone
    <3>2. \A t \in Sandbox : box[t] # "none" => box'[t] # "none"
      BY <2>1
    <3>3. failed \subseteq Sandbox /\ \A h \in Handler : task[h].boxes \cup ({task[h].s} \ {None}) \subseteq Sandbox
      BY <1>2, Fields, Zenon DEF TypeOK
    <3> QED
      BY <1>1, <1>6, <3>1, <3>2, <3>3 DEF Inv, Placed
  <2>4. ASSUME NEW g \in Handler \ {"late"} PROVE Progress(g)'
    <3>1. Busy(g) /\ Attaching(g) => task[g].s \in Sandbox \ {s}
      BY <1>3 DEF Inv, Shape, Attaching
    <3> QED
      <4>1. Progress(g)
        BY DEF Inv
      <4>2. /\ task' = task /\ proc' = proc /\ link' = link /\ port' = port
            /\ Busy(g) /\ Attaching(g) => box'[task[g].s] = box[task[g].s]
        BY <1>1, <1>6, <2>1, <3>1
      <4> QED
        BY <4>1, <4>2, Zenon DEF Progress, Busy, Attaching, Live, Wired
  <2>5. Cleaned'
    <3>1. clean \subseteq Sandbox \ {s}
      BY <1>2, <1>3 DEF TypeOK
    <3>2. \A g \in Handler : \A x : Reaches(g, x)' <=> Reaches(g, x)
      BY <1>6 DEF Reaches
    <3> QED
      BY <1>1, <2>1, <3>1, <3>2 DEF Inv, Cleaned
  <2> QED
    BY <1>5, <2>1, <2>2, <2>3, <2>4, <2>5 DEF Inv, Typed
<1>7. CASE /\ conn = "up" /\ MayBegin("nri")
           /\ box' = [box EXCEPT ![s] = "starting"]
           /\ task' = [task EXCEPT !["nri"] =
                        [Idle EXCEPT !.op = "run", !.s = s, !.step = "next",
                           !.todo = {n.iface : n \in Specs(byPod, PodOf[s])}]]
  <2>1. /\ box' \in [Sandbox -> {"none", "starting", "running", "stopping", "stopped"}]
        /\ box'[s] = "starting" /\ \A t \in Sandbox \ {s} : box'[t] = box[t]
        /\ Stored'
    BY <1>4, <1>7
  <2>2. "nri" \in Handler /\ (\A g \in Handler : task[g] = Idle) /\ proc = "up"
    BY <1>7, NoneBusy DEF Handler, Inv, Alone
  <2>3. {n.iface : n \in Specs(byPod, PodOf[s])} = Iface
    BY <1>2, <2>2, SpecsAll DEF Inv
  <2>4. task' = [task EXCEPT !["nri"] = [Idle EXCEPT !.op = "run", !.s = s, !.step = "next", !.todo = Iface]]
        /\ proc' = proc
    BY <1>1, <1>7, <2>3, Zenon
  <2>5. /\ \A g \in Handler \ {"nri"} : task'[g] = Idle
        /\ task'["nri"].op = "run" /\ task'["nri"].s = s /\ task'["nri"].step = "next" /\ task'["nri"].todo = Iface
        /\ task'["nri"].boxes = {}
    <3>1. Typed /\ Iface \in SUBSET Iface
      BY InvTyped
    <3>2. /\ \A g \in Handler \ {"nri"} : task'[g] = task[g]
          /\ task'["nri"].op = "run" /\ task'["nri"].s = s /\ task'["nri"].step = "next"
          /\ task'["nri"].todo = Iface /\ task'["nri"].boxes = {}
      <4> HIDE SandboxAssumption
      <4> QED
        BY <2>2, <2>4, <3>1, RunFields, Zenon
    <3> QED
      BY <2>2, <3>2
  <2>6. task'["nri"].nic = None
    BY <1>5, <2>5, Zenon DEF Typed, Shape, Handler
  <2>7. /\ task["nri"].op = "none"
        /\ \A g \in Handler \ {"nri"} : /\ task'[g].op = "none" /\ task'[g].boxes = {} /\ task'[g].s = None
                                         /\ task'[g].nic = None /\ task'[g].taken = {}
                                         /\ task'[g].step = "pick" /\ task'[g].err = FALSE
    BY <2>2, <2>5 DEF Idle
  <2>8. Alone'
    BY <1>1, <1>7, <2>2, <2>5, <2>6, <2>7, Zenon DEF Alone, Busy, Handler
  <2>9. Placed'
    <3>1. "retry" \in Handler \ {"nri"} /\ failed \subseteq Sandbox
      BY <1>2, Zenon DEF Handler, TypeOK
    <3>2. \A t \in failed : box'[t] # "none"
      <4>1. \A t \in failed : box[t] # "none" /\ t # s
        BY <1>3 DEF Inv, Placed
      <4> QED
        BY <2>1, <3>1, <4>1, Zenon
    <3>3. \A s1, t \in failed : PodOf[s1] = PodOf[t] => s1 = t
      BY DEF Inv, Placed
    <3> QED
      BY <1>1, <2>1, <2>5, <2>6, <2>7, <3>1, <3>2, <3>3 DEF Placed
  <2>10. ASSUME NEW g \in Handler PROVE Progress(g)'
    BY <2>5, <2>6, <2>7, Zenon DEF Progress, Busy, Attaching
  <2>11. Served'
    BY <1>1, <1>7, <2>1, <2>7, ZenonT(30) DEF Inv, Served, AllWired, Wired
  <2>12. Cleaned'
    <3>1. SUFFICES ASSUME NEW x \in clean
                   PROVE  /\ box'[x] = "stopped" /\ x \notin failed'
                          /\ \A h \in Handler : x \notin task'[h].boxes \cup {task'[h].s}
                          /\ \A i \in Iface : <<x, i>> \notin port'
      BY <1>1, Zenon DEF Cleaned, Reaches
    <3>2. x \in Sandbox /\ x # s /\ x # None /\ box[x] = "stopped" /\ x \notin failed /\ \A i \in Iface : <<x, i>> \notin port
      BY <1>2, <1>3, <3>1, Zenon DEF Inv, Cleaned, TypeOK
    <3>3. \A h \in Handler : x \notin task'[h].boxes \cup {task'[h].s}
      BY <2>5, <2>7, <3>2
    <3> QED
      BY <1>1, <2>1, <3>2, <3>3, Zenon
  <2> QED
    BY <1>5, <2>1, <2>8, <2>9, <2>10, <2>11, <2>12 DEF Inv, Typed
<1> QED
  BY <1>6, <1>7 DEF RunPodSandbox

\* A sandbox stops: it leaves the retry loop, and no other sandbox of its pod runs,
\* unless the stop is a repeated one.
LEMMA StopStep ==
  ASSUME Inv, ~Overlap, NEW s \in Sandbox, StopPodSandbox(s)
  PROVE  Inv'
<1> USE SandboxAssumption DEF SandboxAssumption
<1>1. UNCHANGED <<proc, ready, byPod, attached, prepared, conn, port, clean>>
  BY DEF StopPodSandbox, storeVars
<1>2. /\ TypeOK /\ link' = LinksAfter(link, box')
      /\ box[s] = "running" \/ (LateStop /\ box[s] = "stopped")
      /\ box[s] = "running" => s \notin clean
  BY DEF Inv, StopPodSandbox, Cleaned
<1>3. /\ link' \in [Sandbox -> [Iface -> {"none", "host", "pod"}]]
      /\ \A t \in Sandbox : box'[t] # "stopped" => \A i \in Iface : link'[t][i] = link[t][i]
  BY <1>2, LinksAfterType DEF TypeOK
<1>4. ASSUME NEW b \in {"stopping", "stopped"}, box' = [box EXCEPT ![s] = b],
             box[s] = "running" \/ b = "stopped"
      PROVE  /\ box' \in [Sandbox -> {"none", "starting", "running", "stopping", "stopped"}]
             /\ box'[s] = b /\ \A t \in Sandbox \ {s} : box'[t] = box[t]
             /\ Stored'
  <2>1. /\ box' \in [Sandbox -> {"none", "starting", "running", "stopping", "stopped"}]
        /\ box'[s] = b /\ \A t \in Sandbox \ {s} : box'[t] = box[t]
    BY <1>2, <1>4 DEF TypeOK
  <2> QED
    <3>1. \A t \in Sandbox : Live(t)' => Live(t)
      BY <1>4, <2>1 DEF Live
    <3> QED
      BY <1>1, <2>1, <3>1 DEF Inv, Stored, Siblings
<1>5. Typed'
  BY InvTyped, RequestTyped
<1>6. CASE conn = "down" /\ box[s] = "running" /\ box' = [box EXCEPT ![s] = "stopped"] /\ UNCHANGED <<failed, task>>
  <2>1. /\ box' \in [Sandbox -> {"none", "starting", "running", "stopping", "stopped"}]
        /\ box'[s] = "stopped" /\ \A t \in Sandbox \ {s} : box'[t] = box[t]
        /\ Stored'
    BY <1>4, <1>6, Zenon
  <2>2. Alone' /\ Served'
    BY <1>1, <1>6, ZenonT(30) DEF Inv, Alone, Busy, Served
  <2>3. Placed'
    <3>1. task["nri"].op \notin {"run", "stop", "sync"}
      BY <1>6, Zenon DEF Inv, Alone
    <3>2. \A t \in Sandbox : box[t] # "none" => box'[t] # "none"
      BY <2>1
    <3>3. failed \subseteq Sandbox /\ \A h \in Handler : task[h].boxes \cup ({task[h].s} \ {None}) \subseteq Sandbox
      <4>1. failed \subseteq Sandbox
        BY <1>2, Zenon DEF TypeOK
      <4>2. \A h \in Handler : task[h].boxes \subseteq Sandbox /\ task[h].s \in Sandbox \cup {None}
        BY <1>2, Fields, Zenon DEF TypeOK
      <4> QED
        BY <4>1, <4>2
    <3> QED
      BY <1>1, <1>6, <3>1, <3>2, <3>3 DEF Inv, Placed
  <2>4. ASSUME NEW g \in Handler \ {"late"} PROVE Progress(g)'
    <3>1. SUFFICES ASSUME Busy(g), Attaching(g), ~task[g].err, Live(task[g].s)'
                   PROVE  Progress(g)'
      BY <1>6, Zenon DEF Progress, Busy, Attaching, Live
    <3>2. task[g].s \in Sandbox /\ Shape(g) /\ Progress(g)
      BY <3>1, Zenon DEF Inv, Shape, Attaching
    <3>3. task[g].s # s /\ box'[task[g].s] # "stopped" /\ Live(task[g].s)
      BY <1>6, <2>1, <3>1, <3>2 DEF Live
    <3>4. \A i \in Iface : Wired(task[g].s, i)' <=> Wired(task[g].s, i)
      <4>1. task' = task /\ port' = port /\ \A i \in Iface : link'[task[g].s][i] = link[task[g].s][i]
        BY <1>1, <1>3, <1>6, <3>2, <3>3, Zenon
      <4> QED
        BY <4>1, Zenon DEF Wired
    <3>5. task[g].step = "port" => link'[task[g].s][task[g].nic] = link[task[g].s][task[g].nic]
      BY <1>3, <3>2, <3>3, Zenon DEF Shape
    <3> QED
      BY <1>1, <1>6, <3>1, <3>2, <3>3, <3>4, <3>5, Zenon DEF Progress, Shape, Wired
  <2>5. Cleaned'
    <3>1. clean \subseteq Sandbox
      BY <1>2 DEF TypeOK
    <3>2. \A g \in Handler : \A x : Reaches(g, x)' <=> Reaches(g, x)
      BY <1>6 DEF Reaches
    <3> QED
      BY <1>1, <1>6, <2>1, <3>1, <3>2 DEF Inv, Cleaned
  <2> QED
    BY <1>5, <2>1, <2>2, <2>3, <2>4, <2>5 DEF Inv, Typed
<1>7. CASE /\ conn = "up" /\ MayBegin("nri")
           /\ box' = [box EXCEPT ![s] = IF @ = "running" THEN "stopping" ELSE @]
           /\ failed' = failed \ SamePod(s)
           /\ task' = [task EXCEPT !["nri"] = [Idle EXCEPT !.op = "stop", !.s = s, !.step = "take"]]
  <2>1. /\ box' \in [Sandbox -> {"none", "starting", "running", "stopping", "stopped"}]
        /\ box'[s] = IF box[s] = "running" THEN "stopping" ELSE "stopped"
        /\ \A t \in Sandbox \ {s} : box'[t] = box[t]
        /\ Stored'
    <3>1. CASE box[s] = "running"
      <4>1. box' = [box EXCEPT ![s] = "stopping"]
        BY <1>7, <3>1
      <4> QED
        BY <1>4, <3>1, <4>1
    <3>2. CASE box[s] = "stopped"
      <4>1. box' = [box EXCEPT ![s] = "stopped"]
        BY <1>7, <3>2
      <4> QED
        BY <1>4, <3>2, <4>1
    <3> QED
      BY <1>2, <3>1, <3>2
  <2>2. "nri" \in Handler /\ (\A g \in Handler : task[g] = Idle) /\ proc = "up"
    BY <1>7, NoneBusy DEF Handler, Inv, Alone
  <2>3. /\ \A g \in Handler \ {"nri"} : task'[g] = Idle
        /\ task'["nri"].op = "stop" /\ task'["nri"].s = s /\ task'["nri"].step = "take"
        /\ task'["nri"].boxes = {}
    BY <1>1, <1>7, <2>2, InvTyped, StopFields, ZenonT(30)
  <2>4. /\ task["nri"].op = "none"
        /\ \A g \in Handler \ {"nri"} : /\ task'[g].op = "none" /\ task'[g].boxes = {} /\ task'[g].s = None
                                         /\ task'[g].nic = None /\ task'[g].taken = {}
                                         /\ task'[g].step = "pick" /\ task'[g].err = FALSE
    BY <2>2, <2>3 DEF Idle
  <2>5. failed' \subseteq failed /\ failed \subseteq Sandbox /\ s \notin failed'
    BY <1>2, <1>7 DEF SamePod, TypeOK
  <2>6. Alone'
    BY <1>1, <1>7, <2>2, <2>3, <2>4, ZenonT(30) DEF Alone, Busy, Handler
  <2>7. Placed'
    <3>1. "retry" \in Handler \ {"nri"}
      BY Zenon DEF Handler
    <3>2. \A t \in failed' : box'[t] # "none"
      BY <2>1, <2>5, Zenon DEF Inv, Placed
    <3>3. \A x, t \in failed' : PodOf[x] = PodOf[t] => x = t
      BY <2>5 DEF Inv, Placed
    <3> QED
      BY <1>1, <1>2, <2>1, <2>3, <2>4, <2>5, <3>1, <3>2, <3>3 DEF Placed
  <2>8. ASSUME NEW g \in Handler PROVE Progress(g)'
    BY <2>3, <2>4, Zenon DEF Progress, Busy, Attaching
  <2>9. Served'
    <3>1. SUFFICES ASSUME ~LateStop, NEW x \in Sandbox, box'[x] = "running"
                   PROVE  (AllWired(x) \/ x \in failed)'
      BY DEF Served
    <3>2. x # s /\ box[x] = "running"
      BY <2>1, <3>1
    <3>3. AllWired(x) \/ x \in failed
      BY <1>7, <2>4, <3>1, <3>2, Zenon DEF Inv, Served
    <3>4. PodOf[x] # PodOf[s]
      BY <1>2, <3>1, <3>2 DEF Inv, Stored, Live, Siblings
    <3>5. x \in failed => x \in failed'
      BY <1>7, <3>4, Zenon DEF SamePod
    <3>6. AllWired(x) => AllWired(x)'
      BY <1>1, <1>3, <3>1 DEF AllWired, Wired
    <3> QED
      BY <3>3, <3>5, <3>6
  <2>10. Cleaned'
    <3>1. SUFFICES ASSUME NEW x \in clean
                   PROVE  /\ box'[x] = "stopped" /\ x \notin failed'
                          /\ \A h \in Handler : ~Reaches(h, x)'
                          /\ \A i \in Iface : <<x, i>> \notin port'
      BY <1>1 DEF Cleaned
    <3>2. x \in Sandbox /\ x # None /\ box[x] = "stopped" /\ x \notin failed /\ \A i \in Iface : <<x, i>> \notin port
      BY <1>2, <3>1 DEF Inv, Cleaned, TypeOK
    <3>3. \A h \in Handler : ~Reaches(h, x)'
      BY <2>3, <2>4, <3>2 DEF Reaches
    <3>4. box'[x] = "stopped"
      BY <2>1, <3>2
    <3> QED
      BY <1>1, <2>5, <3>2, <3>3, <3>4
  <2> QED
    BY <1>5, <2>1, <2>6, <2>7, <2>8, <2>9, <2>10 DEF Inv, Typed
<1> QED
  BY <1>2, <1>6, <1>7 DEF StopPodSandbox

-----------------------------------------------------------------------------
(* The invariant                                                           *)

LEMMA InitInv == Init => Inv
<1> USE SandboxAssumption DEF SandboxAssumption
<1> SUFFICES ASSUME Init PROVE Inv
  OBVIOUS
<1>1. /\ proc = "down" /\ ready = FALSE /\ failed = {} /\ byPod = {} /\ attached = {} /\ prepared = {}
      /\ conn = "down" /\ port = {} /\ clean = {} /\ box = [s \in Sandbox |-> "none"]
      /\ link = [s \in Sandbox |-> [i \in Iface |-> "none"]] /\ task = [h \in Handler |-> Idle]
  BY DEF Init
<1>2. \A h \in Handler : task[h] = Idle
  BY <1>1, Zenon
<1>3. \A h \in Handler : /\ task[h].op = "none" /\ task[h].boxes = {} /\ task[h].s = None
                         /\ task[h].nic = None /\ task[h].taken = {}
                         /\ task[h].step = "pick" /\ task[h].err = FALSE
  BY <1>2 DEF Idle
<1>4. Typed
  BY InitTyped, Zenon
<1>5. \A h \in Handler : Progress(h)
  BY <1>3, Zenon DEF Progress, Busy
<1>6. Alone
  BY <1>1, <1>3, Zenon DEF Alone, Handler, Busy
<1>7. Stored /\ Placed
  BY <1>1, <1>3, Zenon DEF Stored, Placed, Live, Handler
<1>8. Served /\ Cleaned
  BY <1>1 DEF Served, Cleaned
<1> QED
  BY <1>4, <1>5, <1>6, <1>7, <1>8 DEF Inv, Typed

\* A step that changes nothing.
LEMMA StutterInv == Inv /\ UNCHANGED vars => Inv'
<1> SUFFICES ASSUME Inv, UNCHANGED vars PROVE Inv'
  OBVIOUS
<1>1. UNCHANGED <<proc, ready, failed, byPod, attached, task, prepared, conn, box, link, port, clean>>
  BY Zenon DEF vars, storeVars, nodeVars
<1>2. Alone' /\ Stored' /\ Cleaned'
  BY <1>1, Zenon DEF Inv, Alone, Stored, Cleaned, Reaches, Busy, Live
<1>3. Placed'
  BY <1>1, Zenon DEF Inv, Placed
<1>4. Served'
  BY <1>1, Zenon DEF Inv, Served, AllWired, Wired
<1>5. Typed'
  BY InvTyped, StutterTyped, Zenon
<1>6. \A h \in Handler \ {"late"} : Progress(h)'
  BY <1>1, Zenon DEF Inv, Progress, Busy, Attaching, Live, Wired
<1> QED
  BY <1>2, <1>5, <1>6, <1>3, <1>4 DEF Inv, Typed

LEMMA NextInv ==
  ASSUME ~Overlap, Inv, Next
  PROVE  Inv'
<1>1. ASSUME NEW h \in Handler,
             \/ SyncDone(h) \/ syncSandbox(h) \/ SyncSandboxDone(h) \/ RunDone(h)
             \/ createVethPair(h) \/ moveIntoNetns(h) \/ attachToOVS(h) \/ MarkNIC(h)
             \/ TakeNICs(h) \/ Detach(h) \/ RollbackDone(h) \/ DetachPodPorts(h)
      PROVE  Inv'
  BY <1>1, SyncStep, SyncSandboxStep, SyncSandboxEnd, RunEnd, AttachStep, DetachStep, RollbackStep, StopEnd
<1>2. ASSUME NEW s \in Sandbox, RunPodSandbox(s) \/ StopPodSandbox(s) PROVE Inv'
  BY <1>2, RunStep, StopStep
<1>3. ASSUME NEW p \in Pod, PrepareClaim(p) \/ UnprepareClaim(p) PROVE Inv'
  BY <1>3, PrepareStep
<1> QED
  BY <1>1, <1>2, <1>3, StartStep, CrashStep, SynchronizeStep, LostStep, RetryBegin, RetryEnd, Zenon DEF Next

LEMMA InvAlways ==
  ASSUME ~Overlap
  PROVE  Spec => []Inv
<1>1. Inv /\ [Next]_vars => Inv'
  BY NextInv, StutterInv
<1> QED
  BY <1>1, InitInv, PTL DEF Spec

\* OnStopPodSandbox: for any number of pods, sandboxes and NICs, whatever crashes,
\* lost connections, failed commands and repeated stops came before, a stop that was
\* answered without an error has left no OVS port.
THEOREM NoLeftoverPortAlways ==
  ASSUME ~Overlap
  PROVE  Spec => []NoLeftoverPort
<1>1. Inv => NoLeftoverPort
  BY DEF Inv, Cleaned, NoLeftoverPort
<1> QED
  BY <1>1, InvAlways, PTL

\* Synchronize and retryFailed: for any number of pods, sandboxes and NICs, a running
\* sandbox of a connected runtime has all its NICs, or the retry loop knows it.
THEOREM UnwiredIsRetriedAlways ==
  ASSUME ~Overlap, ~LateStop
  PROVE  Spec => []UnwiredIsRetried
<1>1. Inv => UnwiredIsRetried
  BY DEF Inv, Alone, Served, UnwiredIsRetried
<1> QED
  BY <1>1, InvAlways, PTL

=============================================================================
