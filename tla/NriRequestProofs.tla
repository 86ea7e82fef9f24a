-------------------------- MODULE NriRequestProofs --------------------------
(***************************************************************************)
(* The inductive invariant of NriPlugin, for handlers that work one at a   *)
(* time, and the proof that the steps of an attach and of a detach, of the *)
(* end of a request, and of the start of Synchronize and of the retry loop *)
(* keep it.  A repeated stop takes the NICs of a running sandbox; all but  *)
(* Served stands that.                                                     *)
(***************************************************************************)
EXTENDS NriTaskProofs

-----------------------------------------------------------------------------
(* The invariant                                                           *)

\* One handler works at a time, and an open request belongs to the connection.
Alone ==
  /\ \A g, h \in Handler : Busy(g) /\ Busy(h) => g = h
  /\ conn # "down" => proc = "up" /\ ~Busy("late")
  /\ conn = "syncing" <=> task["nri"].op = "sync"
  /\ task["nri"].op \in {"run", "stop"} => conn = "up"
  /\ task["nri"].op # "retry"
  /\ task["retry"].op \in {"none", "retry"}

\* The store has the NICs of the prepared pods, and a live sandbox is the only one of
\* a prepared pod.
Stored ==
  /\ proc # "down" => byPod = UNION {NICsOf(p) : p \in prepared}
  /\ \A s \in Sandbox : Live(s) => PodOf[s] \in prepared /\ \A t \in Siblings(s) : ~Live(t)

\* What a handler is at work on is still in the state in which it began.
Placed ==
  /\ task["nri"].op = "run" => box[task["nri"].s] = "starting"
  /\ task["nri"].op = "stop" =>
       /\ box[task["nri"].s] = "stopping" \/ (LateStop /\ box[task["nri"].s] = "stopped")
       /\ task["nri"].s \notin failed
  /\ task["nri"].op = "sync" =>
       \A s \in task["nri"].boxes \cup ({task["nri"].s} \ {None}) : box[s] = "running"
  /\ task["retry"].boxes \cup ({task["retry"].s} \ {None}) \subseteq failed
  /\ \A s, t \in failed : PodOf[s] = PodOf[t] => s = t
  /\ \A s \in failed : box[s] # "none"
  /\ \A h \in Handler : \A s \in task[h].boxes \cup ({task[h].s} \ {None}) : box[s] # "none"

\* The NICs that an attach of a live sandbox has gone through without an error have
\* their pair and port.
Progress(h) ==
  Busy(h) /\ Attaching(h) /\ ~task[h].err /\ Live(task[h].s) =>
    /\ \A i \in Iface \ (task[h].todo \cup {task[h].nic}) : Wired(task[h].s, i)
    /\ task[h].step = "port" => link[task[h].s][task[h].nic] = "pod"
    /\ task[h].step = "mark" => Wired(task[h].s, task[h].nic)

\* A connected runtime that repeats no stop: every running sandbox is wired, is retried,
\* or is still to be visited by Synchronize.
Served ==
  ~LateStop /\ conn # "down" => \A s \in Sandbox : box[s] = "running" =>
    \/ AllWired(s) \/ s \in failed
    \/ task["nri"].op = "sync" /\ s \in task["nri"].boxes \cup {task["nri"].s}

\* h may still attach to s.
Reaches(h, s) == s \in task[h].boxes \/ (s = task[h].s /\ task[h].op # "stop")

\* A sandbox whose stop was answered is out of every handler's reach.
Cleaned ==
  \A s \in clean :
    /\ box[s] = "stopped"
    /\ s \notin failed
    /\ \A h \in Handler : ~Reaches(h, s)
    /\ \A i \in Iface : <<s, i>> \notin port

Inv ==
  /\ TypeOK
  /\ \A h \in Handler : Shape(h)
  /\ Alone
  /\ Stored
  /\ Placed
  /\ \A h \in Handler \ {"late"} : Progress(h)
  /\ Served
  /\ Cleaned

LEMMA InvTyped == Inv => Typed
  BY DEF Inv, Typed, Alone

\* The others are idle.
LEMMA OnlyOne ==
  ASSUME Inv, NEW h \in Handler, Busy(h)
  PROVE  /\ \A g \in Handler \ {h} : ~Busy(g) /\ task[g] = Idle
         /\ proc = "up"
         /\ h = "late" => conn = "down"
  BY DEF Inv, Alone, Shape, Handler

LEMMA AttachKeeps ==
  ASSUME Inv, NEW h \in Handler, AttachEffect(h), h # "late" => Progress(h)'
  PROVE  Inv'
<1> USE SandboxAssumption DEF SandboxAssumption
<1>1. /\ Busy(h) /\ Attaching(h) /\ task[h].s \in Sandbox
      /\ task' \in [Handler -> Task]
      /\ \A g \in Handler \ {h} : task'[g] = task[g]
      /\ task'[h].op = task[h].op /\ task'[h].boxes = task[h].boxes
      /\ task'[h].s = task[h].s /\ task'[h].taken = task[h].taken
      /\ UNCHANGED <<proc, ready, failed, byPod, prepared, conn, box, clean>>
  BY DEF AttachEffect
<1>2. \A x \in Sandbox \ {task[h].s} :
        link'[x] = link[x] /\ \A i \in Iface : <<x, i>> \in port' <=> <<x, i>> \in port
  BY DEF AttachEffect
<1>3. \A g \in Handler : task'[g].op = task[g].op /\ task'[g].boxes = task[g].boxes /\ task'[g].s = task[g].s
  BY <1>1
<1>4. \A g \in Handler \ {h} : task[g] = Idle
  BY <1>1, OnlyOne
<1>5. Typed'
  BY AttachTyped, InvTyped
<1>6. Alone'
  BY <1>1, <1>3 DEF Inv, Alone, Busy, Handler
<1>7. Stored'
  BY <1>1 DEF Inv, Stored, Live
<1>8. Placed'
  BY <1>1, <1>3 DEF Inv, Placed, Handler
<1>9. \A g \in Handler \ {"late"} : Progress(g)'
  <2>1. ASSUME NEW g \in Handler \ {h} PROVE Progress(g)'
    BY <1>1, <1>4 DEF Progress, Busy, Idle
  <2> QED
    BY <2>1
<1>10. Served'
  <2>1. SUFFICES ASSUME ~LateStop, conn # "down", NEW s \in Sandbox, box[s] = "running"
                 PROVE  (\/ AllWired(s) \/ s \in failed
                         \/ task["nri"].op = "sync" /\ s \in task["nri"].boxes \cup {task["nri"].s})'
    BY <1>1 DEF Served
  <2>2. CASE s = task[h].s
    <3>1. h # "late"
      BY <1>1, <2>1, OnlyOne
    <3>2. CASE h = "nri"
      <4>1. task["nri"].op \in {"sync"}
        BY <1>1, <2>1, <2>2, <3>2, Fields DEF Inv, Placed, Alone, Shape, Attaching, Detaching, Busy, Task
      <4> QED
        BY <1>3, <2>2, <3>2, <4>1
    <3>3. CASE h = "retry"
      BY <1>1, <2>2, <3>3 DEF Inv, Placed
    <3> QED
      BY <3>1, <3>2, <3>3 DEF Handler
  <2>3. CASE s # task[h].s
    <3>1. AllWired(s)' <=> AllWired(s)
      BY <1>2, <2>3 DEF AllWired, Wired
    <3> QED
      BY <1>1, <1>3, <2>1, <3>1 DEF Inv, Served, Handler
  <2> QED
    BY <2>2, <2>3
<1>11. Cleaned'
  <2>1. task[h].s \notin clean
    <3>1. task[h].op # "stop"
      BY <1>1 DEF Inv, Shape, Attaching, Detaching
    <3> QED
      BY <3>1 DEF Inv, Cleaned, Reaches
  <2>2. \A g \in Handler : \A t : Reaches(g, t)' <=> Reaches(g, t)
    BY <1>3 DEF Reaches
  <2>3. clean \subseteq Sandbox
    BY DEF Inv, TypeOK
  <2> QED
    BY <1>1, <1>2, <2>1, <2>2, <2>3 DEF Inv, Cleaned
<1> QED
  BY <1>5, <1>6, <1>7, <1>8, <1>9, <1>10, <1>11 DEF Inv, Typed

-----------------------------------------------------------------------------
(* Progress of an attach                                                   *)

LEMMA FailedProgress ==
  ASSUME NEW h \in Handler, task'[h].err = TRUE
  PROVE  Progress(h)'
  BY DEF Progress

LEMMA CreateProgress ==
  ASSUME Inv, NEW h \in Handler \ {"late"}, createVethPair(h)
  PROVE  Progress(h)'
<1>1. PICK i \in task[h].todo : createVethPair(h)!2!(i)
  BY Zenon DEF createVethPair
<1> DEFINE t == [task[h] EXCEPT !.todo = @ \ {i}, !.nic = i]
           s == task[h].s
<1>2. TypeOK /\ Shape(h) /\ Progress(h) /\ task[h] \in Task /\ Busy(h)
  BY Fields DEF Inv, createVethPair
<1>3. i \in Iface /\ s \in Sandbox /\ task[h].step = "next" /\ task[h].nic = None
  BY <1>2, Fields DEF Shape, createVethPair
<1>4. t \in Task /\ t.s = s /\ t.err = task[h].err /\ t.nic = i /\ t.todo = task[h].todo \ {i}
  BY <1>2, <1>3, Zenon DEF Task
<1>5. UNCHANGED <<port, box>>
  BY DEF createVethPair
<1>6. CASE /\ task' = [task EXCEPT ![h] = [t EXCEPT !.step = "move"]]
           /\ link' = [link EXCEPT ![s][i] = IF @ = "none" THEN "host" ELSE @]
  <2>1. task'[h] = [t EXCEPT !.step = "move"]
    BY <1>2, <1>6 DEF TypeOK
  <2>2. /\ task'[h].s = s /\ task'[h].err = task[h].err /\ task'[h].nic = i
        /\ task'[h].todo = task[h].todo \ {i} /\ task'[h].step = "move"
    BY <1>4, <2>1 DEF Task
  <2>3. \A j \in Iface \ {i} : link'[s][j] = link[s][j]
    BY <1>2, <1>3, <1>6 DEF TypeOK
  <2>4. SUFFICES ASSUME ~task[h].err, Live(s)
                 PROVE  \A j \in Iface \ (task'[h].todo \cup {i}) : link'[s][j] = "pod" /\ <<s, j>> \in port
    BY <1>5, <2>2 DEF Progress, Live, Wired
  <2>5. \A j \in Iface \ (task[h].todo \cup {None}) : link[s][j] = "pod" /\ <<s, j>> \in port
    BY <1>2, <1>3, <2>4 DEF Progress, Attaching, Wired
  <2>6. \A j \in Iface \ (task'[h].todo \cup {i}) : j # None /\ j \notin task[h].todo /\ j # i
    BY <2>2, SandboxAssumption DEF SandboxAssumption
  <2> QED
    BY <2>3, <2>5, <2>6
<1>7. CASE task' = [task EXCEPT ![h] = Failing(t)]
  <2>1. task'[h] = Failing(t)
    BY <1>2, <1>7 DEF TypeOK
  <2> QED
    BY <1>4, <2>1, FailingFields, FailedProgress, Zenon
<1> QED
  BY <1>1, <1>6, <1>7

LEMMA MoveProgress ==
  ASSUME Inv, NEW h \in Handler \ {"late"}, moveIntoNetns(h)
  PROVE  Progress(h)'
<1> DEFINE s == task[h].s
           i == task[h].nic
<1>1. TypeOK /\ Shape(h) /\ Progress(h) /\ Busy(h)
  BY DEF Inv, moveIntoNetns
<1>2. s \in Sandbox /\ i \in Iface /\ task[h].step = "move"
  BY <1>1 DEF Shape, moveIntoNetns
<1>3. UNCHANGED <<port, box>>
  BY DEF moveIntoNetns
<1>4. CASE /\ link' = [link EXCEPT ![s][i] = "pod"]
           /\ task' = [task EXCEPT ![h] = [@ EXCEPT !.step = "port"]]
  <2>1. link'[s][i] = "pod" /\ \A j \in Iface \ {i} : link'[s][j] = link[s][j]
    BY <1>1, <1>2, <1>4 DEF TypeOK
  <2>2. /\ task'[h].s = s /\ task'[h].err = task[h].err /\ task'[h].nic = i
        /\ task'[h].todo = task[h].todo /\ task'[h].step = "port"
    BY <1>1, <1>4, StepFields, Zenon
  <2> QED
    BY <1>1, <1>2, <1>3, <2>1, <2>2 DEF Progress, Live, Attaching, Wired
<1>5. CASE task' = [task EXCEPT ![h] = Failing(@)]
  BY <1>1, <1>5, FailedStep, FailedProgress, Zenon
<1> QED
  BY <1>4, <1>5 DEF moveIntoNetns

LEMMA PortProgress ==
  ASSUME Inv, NEW h \in Handler \ {"late"}, attachToOVS(h)
  PROVE  Progress(h)'
<1> DEFINE s == task[h].s
           i == task[h].nic
<1>1. TypeOK /\ Shape(h) /\ Progress(h) /\ Busy(h)
  BY DEF Inv, attachToOVS
<1>2. s \in Sandbox /\ i \in Iface /\ task[h].step = "port"
  BY <1>1 DEF Shape, attachToOVS
<1>3. UNCHANGED box
  BY DEF attachToOVS
<1>4. CASE /\ port' = port \cup {<<s, i>>}
           /\ task' = [task EXCEPT ![h] = [@ EXCEPT !.step = "mark"]]
           /\ UNCHANGED link
  <2>1. /\ task'[h].s = s /\ task'[h].err = task[h].err /\ task'[h].nic = i
        /\ task'[h].todo = task[h].todo /\ task'[h].step = "mark"
    BY <1>1, <1>4, StepFields, Zenon
  <2> QED
    BY <1>1, <1>2, <1>3, <1>4, <2>1 DEF Progress, Live, Attaching, Wired
<1>5. CASE task' = [task EXCEPT ![h] = Failing(@)]
  BY <1>1, <1>5, FailedStep, FailedProgress, Zenon
<1> QED
  BY <1>4, <1>5 DEF attachToOVS

LEMMA MarkProgress ==
  ASSUME Inv, NEW h \in Handler \ {"late"}, MarkNIC(h)
  PROVE  Progress(h)'
<1>1. TypeOK /\ Shape(h) /\ Progress(h) /\ Busy(h) /\ task[h] \in Task
  BY Fields DEF Inv, MarkNIC
<1>2. task[h].s \in Sandbox /\ task[h].nic \in Iface /\ task[h].step = "mark"
  BY <1>1 DEF Shape, MarkNIC
<1>3. UNCHANGED <<link, port, box>>
  BY DEF MarkNIC, nodeVars
<1>4. task'[h] = [task[h] EXCEPT !.step = "next", !.nic = None]
  BY <1>1 DEF TypeOK, MarkNIC
<1>5. /\ task'[h].s = task[h].s /\ task'[h].err = task[h].err /\ task'[h].nic = None
      /\ task'[h].todo = task[h].todo /\ task'[h].step = "next"
  BY <1>1, <1>4 DEF Task
<1> QED
  BY <1>1, <1>2, <1>3, <1>5 DEF Progress, Live, Attaching, Wired

\* Every step of an attach keeps the invariant.
LEMMA AttachStep ==
  ASSUME Inv, NEW h \in Handler,
         createVethPair(h) \/ moveIntoNetns(h) \/ attachToOVS(h) \/ MarkNIC(h)
  PROVE  Inv'
<1>1. AttachEffect(h)
  BY InvTyped, CreateEffect, MoveEffect, PortEffect, MarkEffect
<1>2. h # "late" => Progress(h)'
  BY CreateProgress, MoveProgress, PortProgress, MarkProgress
<1> QED
  BY <1>1, <1>2, AttachKeeps

\* While the runtime is connected, the pod of a detach has no running sandbox, unless
\* the stop is a repeated one.
LEMMA DetachServed ==
  ASSUME Inv, NEW h \in Handler, Busy(h), Detaching(h), PodOnly(h), UNCHANGED <<failed, conn>>,
         \A t \in Sandbox : box'[t] = "running" => box[t] = "running",
         task'["nri"].op # "sync"
  PROVE  Served'
<1>1. SUFFICES ASSUME ~LateStop, conn # "down",
                      NEW t \in Sandbox, box[t] = "running", box'[t] = "running"
               PROVE  (AllWired(t) \/ t \in failed)'
  BY Zenon DEF Served
<1>2. h = "nri" /\ task["nri"].op \in {"run", "stop"} /\ task[h].s \in Sandbox
  BY <1>1, OnlyOne, Fields, Zenon DEF Inv, Shape, Alone, Handler, Detaching, Busy
<1>3. box[task[h].s] \in {"starting", "stopping"}
  BY <1>1, <1>2 DEF Inv, Placed
<1>4. PodOf[t] # PodOf[task[h].s]
  BY <1>1, <1>2, <1>3 DEF Inv, Stored, Live, Siblings
<1>5. \A i \in Iface : link'[t][i] = link[t][i] /\ (<<t, i>> \in port => <<t, i>> \in port')
  BY <1>1, <1>4 DEF PodOnly
<1>6. AllWired(t) \/ t \in failed
  BY <1>1, <1>2 DEF Inv, Served
<1> QED
  BY <1>5, <1>6 DEF AllWired, Wired

LEMMA DetachKeeps ==
  ASSUME Inv, NEW h \in Handler, DetachEffect(h)
  PROVE  Inv'
<1> USE SandboxAssumption DEF SandboxAssumption
<1>1. /\ Busy(h) /\ Detaching(h) /\ task[h].s \in Sandbox
      /\ task' \in [Handler -> Task]
      /\ \A g \in Handler \ {h} : task'[g] = task[g]
      /\ task'[h].op = task[h].op /\ task'[h].boxes = task[h].boxes /\ task'[h].s = task[h].s
      /\ task'[h].step = "detach"
      /\ UNCHANGED <<proc, ready, failed, byPod, prepared, conn, box, clean>>
  BY DEF DetachEffect
<1>2. \A g \in Handler : task'[g].op = task[g].op /\ task'[g].boxes = task[g].boxes /\ task'[g].s = task[g].s
  BY <1>1
<1>3. \A g \in Handler \ {h} : task[g] = Idle
  BY <1>1, OnlyOne
<1>4. Typed'
  BY DetachTyped, InvTyped
<1>5. Alone'
  BY <1>1, <1>2 DEF Inv, Alone, Busy, Handler
<1>6. Stored'
  BY <1>1 DEF Inv, Stored, Live
<1>7. Placed'
  BY <1>1, <1>2 DEF Inv, Placed, Handler
<1>8. \A g \in Handler \ {"late"} : Progress(g)'
  <2>1. ASSUME NEW g \in Handler \ {h} PROVE Progress(g)'
    <3>1. ~Busy(g)'
      BY <1>2, <1>3 DEF Busy, Idle
    <3> QED
      BY <3>1, Zenon DEF Progress
  <2>2. Progress(h)'
    BY <1>1, Zenon DEF Progress, Attaching
  <2> QED
    BY <2>1, <2>2, Zenon
<1>9. Served'
  <2>1. task["nri"].op # "sync"
    BY <1>1, <1>3 DEF Inv, Shape, Idle, Handler, Detaching
  <2>2. PodOnly(h)
    BY DEF DetachEffect
  <2> QED
    BY <1>1, <1>2, <2>1, <2>2, DetachServed, ZenonT(30) DEF Handler
<1>10. Cleaned'
  <2>1. port' \subseteq port
    BY DEF DetachEffect, PodOnly
  <2> QED
    BY <1>1, <1>2, <2>1 DEF Inv, Cleaned, Reaches
<1> QED
  BY <1>4, <1>5, <1>6, <1>7, <1>8, <1>9, <1>10 DEF Inv, Typed

LEMMA DetachStep ==
  ASSUME Inv, NEW h \in Handler, TakeNICs(h) \/ Detach(h)
  PROVE  Inv'
  BY InvTyped, TakeEffect, DeleteEffect, DetachKeeps

-----------------------------------------------------------------------------
(* The end of a request                                                    *)

\* A handler at rest can attach to nothing.
LEMMA RestReachesNone ==
  ASSUME NEW h \in Handler, task'[h].boxes = {}, task'[h].s = None
  PROVE  \A s \in Sandbox : ~Reaches(h, s)'
  BY SandboxAssumption DEF SandboxAssumption, Reaches

LEMMA CleanType ==
  ASSUME Inv
  PROVE  clean \subseteq Sandbox
  BY DEF Inv, TypeOK

\* When nothing is at work, what is left to show is about the node and the store.
LEMMA AllIdle ==
  ASSUME \A g \in Handler : task'[g] = Idle
  PROVE  /\ \A g \in Handler : task'[g].op = "none" /\ task'[g].boxes = {} /\ task'[g].s = None /\ ~Busy(g)'
         /\ \A g \in Handler : Progress(g)'
<1>1. ASSUME NEW g \in Handler
      PROVE  /\ task'[g].op = "none" /\ task'[g].boxes = {} /\ task'[g].s = None /\ task'[g].nic = None
             /\ task'[g].taken = {} /\ task'[g].step = "pick" /\ task'[g].err = FALSE
  BY DEF Idle
<1> QED
  BY <1>1, Zenon DEF Progress, Busy, Attaching

LEMMA Finished ==
  ASSUME Inv, NEW h \in Handler, Busy(h), task' = [task EXCEPT ![h] = Idle]
  PROVE  /\ task' \in [Handler -> Task]
         /\ \A g \in Handler : task'[g] = Idle
<1>1. TypeOK /\ \A g \in Handler \ {h} : task[g] = Idle
  BY OnlyOne DEF Inv
<1> QED
  BY <1>1, IdleType DEF TypeOK

\* RollbackDone and DetachPodPorts: the sandbox of an open request has stopped.
EndEffect(h) ==
  /\ task[h].op \in {"run", "stop"} /\ task[h].step = "detach"
  /\ task' = [task EXCEPT ![h] = Idle]
  /\ box' = IF h = "nri" THEN [box EXCEPT ![task[h].s] = "stopped"] ELSE box
  /\ PodOnly(h)
  /\ UNCHANGED <<proc, ready, failed, byPod, attached, prepared, conn>>

LEMMA EndKeeps ==
  ASSUME Inv, NEW h \in Handler, EndEffect(h), Typed', Cleaned'
  PROVE  Inv'
<1> USE SandboxAssumption DEF SandboxAssumption
<1>1. /\ task[h].op \in {"run", "stop"} /\ task[h].step = "detach" /\ Busy(h) /\ Detaching(h)
      /\ task' = [task EXCEPT ![h] = Idle]
      /\ box' = IF h = "nri" THEN [box EXCEPT ![task[h].s] = "stopped"] ELSE box
      /\ UNCHANGED <<proc, ready, failed, byPod, attached, prepared, conn>>
      /\ task[h].s \in Sandbox
  BY DEF EndEffect, Busy, Detaching, Inv, Shape
<1>2. task' \in [Handler -> Task] /\ \A g \in Handler : task'[g] = Idle
  BY <1>1, Finished, Zenon
<1>3. /\ \A g \in Handler : task'[g].op = "none" /\ task'[g].boxes = {} /\ task'[g].s = None /\ ~Busy(g)'
      /\ \A g \in Handler : Progress(g)'
  BY <1>2, AllIdle
<1>4. /\ box' \in [Sandbox -> {"none", "starting", "running", "stopping", "stopped"}]
      /\ \A t \in Sandbox : box'[t] \in {box[t], "stopped"}
  BY <1>1, Zenon DEF Inv, TypeOK
<1>5. Alone'
  <2>1. conn # "syncing" /\ (conn # "down" => proc = "up")
    BY <1>1, OnlyOne, Zenon DEF Inv, Alone, Handler, Idle
  <2> QED
    BY <1>1, <1>3, <2>1 DEF Alone, Handler
<1>6. Stored'
  BY <1>1, <1>4, ZenonT(30) DEF Inv, Stored, Live, Siblings
<1>7. Placed'
  BY <1>1, <1>3, <1>4 DEF Inv, Placed, Handler, TypeOK
<1>8. Served'
  <2>1. task'["nri"].op # "sync"
    BY <1>3 DEF Handler
  <2>2. PodOnly(h)
    BY DEF EndEffect
  <2>3. \A t \in Sandbox : box'[t] = "running" => box[t] = "running"
    BY <1>4
  <2> QED
    BY <1>1, <2>1, <2>2, <2>3, DetachServed
<1> QED
  BY <1>3, <1>5, <1>6, <1>7, <1>8 DEF Inv, Typed

LEMMA RollbackStep ==
  ASSUME Inv, NEW h \in Handler, RollbackDone(h)
  PROVE  Inv'
<1> USE SandboxAssumption DEF SandboxAssumption
<1>1. TypeOK /\ Busy(h) /\ task' = [task EXCEPT ![h] = Idle] /\ task[h].s \in Sandbox
  BY DEF Inv, RollbackDone, Busy, Shape
<1>2. UNCHANGED <<proc, ready, failed, byPod, attached, prepared, conn, port, clean>>
  BY DEF RollbackDone, storeVars
<1>3. PodOnly(h)
  BY InvTyped, RollbackOnly
<1>4. EndEffect(h)
  BY <1>1, <1>2, <1>3, Zenon DEF EndEffect, RollbackDone
<1>5. Cleaned'
  <2>1. \A g \in Handler : task'[g].boxes = {} /\ task'[g].s = None
    BY <1>1, Finished, AllIdle, Zenon
  <2>2. \A t \in Sandbox : box[t] = "stopped" => box'[t] = "stopped"
    BY <1>1 DEF RollbackDone, TypeOK
  <2> QED
    BY <1>1, <1>2, <2>1, <2>2 DEF Inv, Cleaned, Reaches, TypeOK
<1> QED
  BY <1>4, <1>5, InvTyped, StoppedTyped, EndKeeps, Zenon

LEMMA StopEnd ==
  ASSUME Inv, NEW h \in Handler, DetachPodPorts(h)
  PROVE  Inv'
<1> USE SandboxAssumption DEF SandboxAssumption
<1> DEFINE s == task[h].s
           ports == PodPorts(PodOf[s])
           pairs(deleted) == [t \in Sandbox |-> [i \in Iface |->
                               IF <<t, i>> \in deleted THEN "none" ELSE link[t][i]]]
<1>1. TypeOK /\ Busy(h) /\ task' = [task EXCEPT ![h] = Idle] /\ s \in Sandbox
      /\ task[h].op = "stop" /\ task[h].step = "detach"
  BY DEF Inv, DetachPodPorts, Busy, Shape
<1>2. UNCHANGED <<proc, ready, failed, byPod, attached, prepared, conn>>
  BY DEF DetachPodPorts, storeVars
<1>3. PICK gone \in SUBSET ports, deleted \in SUBSET ports :
        /\ deleted \subseteq gone
        /\ port' = port \ gone
        /\ box' = IF h = "nri" THEN [box EXCEPT ![s] = "stopped"] ELSE box
        /\ link' = LinksAfter(pairs(deleted), box')
        /\ clean' = IF ~task[h].err /\ gone = ports /\ deleted = gone /\ h = "nri"
                    THEN clean \cup {s} ELSE clean
  BY Zenon DEF DetachPodPorts
<1>4. PodOnly(h)
  BY InvTyped, PortsOnly
<1>5. EndEffect(h)
  BY <1>1, <1>2, <1>3, <1>4 DEF EndEffect
<1>6. clean' \subseteq Sandbox /\ clean' \subseteq clean \cup {s}
  BY <1>1, <1>3, Zenon DEF TypeOK
<1>7. Cleaned'
  <2>1. \A g \in Handler : task'[g].boxes = {} /\ task'[g].s = None
    BY <1>1, Finished, AllIdle, Zenon
  <2>2. \A t \in Sandbox : box[t] = "stopped" => box'[t] = "stopped"
    BY <1>1, <1>3, Zenon DEF TypeOK
  <2>3. \A t \in clean : Cleaned!(t)'
    BY <1>1, <1>2, <1>3, <2>1, <2>2, RestReachesNone, CleanType, Zenon DEF Inv, Cleaned
  <2>4. CASE ~task[h].err /\ gone = ports /\ deleted = gone /\ h = "nri"
    <3>1. box'[s] = "stopped"
      BY <1>1, <1>3, <2>4 DEF TypeOK
    <3>2. s \notin failed
      BY <1>1, <2>4 DEF Inv, Placed
    <3>3. \A i \in Iface : <<s, i>> \notin port'
      BY <1>3, <2>4, Zenon DEF PodPorts
    <3>4. s \in Sandbox /\ \A g \in Handler : \A t \in Sandbox : ~Reaches(g, t)'
      BY <1>1, <2>1, RestReachesNone, Zenon
    <3>5. ASSUME NEW t \in clean'
          PROVE  /\ box'[t] = "stopped" /\ t \notin failed'
                 /\ \A g \in Handler : ~Reaches(g, t)'
                 /\ \A i \in Iface : <<t, i>> \notin port'
      <4>1. CASE t \in clean
        BY <2>3, <4>1, Zenon
      <4>2. CASE t = s
        BY <1>2, <3>1, <3>2, <3>3, <3>4, <4>2, Zenon
      <4> QED
        BY <1>6, <4>1, <4>2
    <3> QED
      BY <3>5, Zenon DEF Cleaned
  <2>5. CASE clean' = clean
    BY <2>3, <2>5 DEF Cleaned
  <2> QED
    BY <1>3, <2>4, <2>5
<1> QED
  BY <1>5, <1>7, InvTyped, StoppedTyped, EndKeeps, Zenon

\* SyncDone, RetryDone and RunDone: the handler is idle again.
LEMMA SyncStep ==
  ASSUME Inv, NEW h \in Handler, SyncDone(h)
  PROVE  Inv'
<1> USE SandboxAssumption DEF SandboxAssumption
<1>1. Busy(h) /\ task' = [task EXCEPT ![h] = Idle] /\ task[h].s = None /\ task[h].boxes = {} /\ task[h].op = "sync"
  BY DEF SyncDone, Inv, Shape, Busy
<1>2. task' \in [Handler -> Task] /\ \A g \in Handler : task'[g] = Idle
  BY <1>1, Finished, Zenon
<1>3. /\ \A g \in Handler : task'[g].op = "none" /\ task'[g].boxes = {} /\ task'[g].s = None /\ ~Busy(g)'
      /\ \A g \in Handler : Progress(g)'
  BY <1>2, AllIdle, Zenon
<1>4. UNCHANGED <<proc, failed, byPod, attached, prepared, box, link, port, clean>>
  BY DEF SyncDone, storeVars, nodeVars
<1>5. proc = "up" /\ h # "retry" /\ (h = "late" => conn = "down")
  BY <1>1, OnlyOne DEF Inv, Alone
<1>6. ready' = TRUE /\ conn' = IF h = "nri" THEN "up" ELSE conn
  BY DEF SyncDone
<1>7. Typed'
  BY InvTyped, DoneTyped
<1>8. Alone'
  BY <1>3, <1>4, <1>5, <1>6 DEF Alone, Handler
<1>9. Stored'
  BY <1>4 DEF Inv, Stored, Live
<1>10. Placed'
  BY <1>3, <1>4 DEF Inv, Placed, Handler
<1>11. Served'
  <2>1. CASE h = "nri"
    <3>1. conn # "down"
      BY <1>1, <2>1 DEF Inv, Alone
    <3> QED
      BY <1>1, <1>4, <2>1, <3>1 DEF Inv, Served, AllWired, Wired
  <2>2. CASE h = "late"
    BY <1>5, <1>6, <2>2 DEF Served
  <2> QED
    BY <1>5, <2>1, <2>2, ZenonT(30) DEF Handler
<1>12. Cleaned'
  BY <1>3, <1>4, RestReachesNone, CleanType, Zenon DEF Inv, Cleaned
<1> QED
  BY <1>3, <1>7, <1>8, <1>9, <1>10, <1>11, <1>12 DEF Inv, Typed

LEMMA RetryEnd ==
  ASSUME Inv, RetryDone
  PROVE  Inv'
<1> USE SandboxAssumption DEF SandboxAssumption
<1>1. "retry" \in Handler /\ Busy("retry") /\ task' = [task EXCEPT !["retry"] = Idle]
  BY DEF RetryDone, Busy, Handler
<1>2. task' \in [Handler -> Task] /\ \A g \in Handler : task'[g] = Idle
  BY <1>1, Finished, Zenon
<1>3. /\ \A g \in Handler : task'[g].op = "none" /\ task'[g].boxes = {} /\ task'[g].s = None /\ ~Busy(g)'
      /\ \A g \in Handler : Progress(g)'
  BY <1>2, AllIdle
<1>4. UNCHANGED <<proc, ready, failed, byPod, attached, prepared, conn, box, link, port, clean>>
  BY DEF RetryDone, storeVars, nodeVars
<1>5. proc = "up" /\ task["nri"].op = "none"
  BY <1>1, OnlyOne DEF Handler, Idle
<1>6. Typed'
  BY <1>1, InvTyped, DoneTyped
<1>7. Alone'
  BY <1>3, <1>4, <1>5 DEF Inv, Alone, Handler
<1>8. Stored'
  BY <1>4, Zenon DEF Inv, Stored, Live
<1>9. Placed'
  BY <1>3, <1>4, Zenon DEF Inv, Placed, Handler
<1>10. Served'
  BY <1>4, <1>5, Zenon DEF Inv, Served, AllWired, Wired
<1>11. Cleaned'
  BY <1>3, <1>4, RestReachesNone, CleanType, ZenonT(30) DEF Inv, Cleaned
<1> QED
  BY <1>3, <1>6, <1>7, <1>8, <1>9, <1>10, <1>11 DEF Inv, Typed

LEMMA RunEnd ==
  ASSUME Inv, NEW h \in Handler, RunDone(h)
  PROVE  Inv'
<1> USE SandboxAssumption DEF SandboxAssumption
<1> DEFINE s == task[h].s
<1>1. /\ Busy(h) /\ task' = [task EXCEPT ![h] = Idle] /\ s \in Sandbox /\ task[h].op = "run"
      /\ task[h].step = "next" /\ task[h].todo = {} /\ task[h].nic = None /\ ~task[h].err
  BY DEF RunDone, Inv, Shape, Busy, Attaching
<1>2. task' \in [Handler -> Task] /\ \A g \in Handler : task'[g] = Idle
  BY <1>1, Finished, Zenon
<1>3. /\ \A g \in Handler : task'[g].op = "none" /\ task'[g].boxes = {} /\ task'[g].s = None /\ ~Busy(g)'
      /\ \A g \in Handler : Progress(g)'
  BY <1>2, AllIdle
<1>4. UNCHANGED <<proc, ready, failed, byPod, attached, prepared, conn, link, port, clean>>
  BY DEF RunDone, storeVars, nodeVars
<1>5. proc = "up" /\ h # "retry" /\ (h = "late" => conn = "down") /\ task["nri"].op # "sync"
  BY <1>1, OnlyOne, Zenon DEF Inv, Alone, Handler, Idle
<1>6. /\ box' \in [Sandbox -> {"none", "starting", "running", "stopping", "stopped"}]
      /\ \A t \in Sandbox : t # s \/ h = "late" => box'[t] = box[t]
      /\ h = "nri" => box[s] = "starting" /\ box'[s] = "running"
  BY <1>1 DEF Inv, TypeOK, Placed, RunDone
<1>7. Typed'
  BY InvTyped, DoneTyped, Zenon
<1>8. Alone'
  BY <1>3, <1>4, <1>5 DEF Inv, Alone, Handler
<1>9. Stored'
  <2>1. \A t \in Sandbox : Live(t)' <=> Live(t)
    BY <1>5, <1>6, Zenon DEF Live, Handler
  <2> QED
    BY <1>4, <2>1 DEF Inv, Stored, Siblings
<1>10. Placed'
  <2>1. \A t \in Sandbox : box[t] # "none" => box'[t] # "none"
    BY <1>5, <1>6 DEF Handler
  <2> QED
    BY <1>3, <1>4, <2>1 DEF Inv, Placed, Handler, TypeOK
<1>11. Served'
  <2>1. CASE h = "nri"
    <3>1. AllWired(s)
      BY <1>1, <1>6, <2>1 DEF Inv, Progress, Attaching, Live, AllWired
    <3> QED
      BY <1>4, <1>5, <1>6, <2>1, <3>1 DEF Inv, Served, AllWired, Wired
  <2>2. CASE h = "late"
    BY <1>4, <1>5, <2>2, Zenon DEF Served
  <2> QED
    BY <1>5, <2>1, <2>2, Zenon DEF Handler
<1>12. Cleaned'
  <2>1. s \notin clean
    BY <1>1 DEF Inv, Cleaned, Reaches
  <2> QED
    BY <1>3, <1>4, <1>6, <2>1, RestReachesNone, CleanType, Zenon DEF Inv, Cleaned
<1> QED
  BY <1>3, <1>7, <1>8, <1>9, <1>10, <1>11, <1>12 DEF Inv, Typed

-----------------------------------------------------------------------------
(* The start of Synchronize and of a pass of the retry loop                *)

LEMMA SpecsAll ==
  ASSUME Stored, proc # "down", NEW p \in prepared
  PROVE  {n.iface : n \in Specs(byPod, p)} = Iface
<1>1. byPod = UNION {NICsOf(q) : q \in prepared}
  BY DEF Stored
<1>2. \A n \in byPod : n.iface \in Iface
  BY <1>1 DEF NICsOf
<1>3. ASSUME NEW i \in Iface
      PROVE  i \in {n.iface : n \in Specs(byPod, p)}
  <2> DEFINE n == [claim |-> p, pod |-> p, iface |-> i]
  <2>1. n \in NICsOf(p) /\ n.pod = p /\ n.iface = i
    BY DEF NICsOf
  <2>2. n \in byPod
    BY <1>1, <2>1
  <2> HIDE DEF n
  <2> QED
    BY <2>1, <2>2 DEF Specs
<1> QED
  BY <1>2, <1>3 DEF Specs

LEMMA NoneBusy ==
  ASSUME Inv, ~Overlap, NEW h \in Handler, MayBegin(h)
  PROVE  \A g \in Handler : task[g] = Idle
  BY DEF MayBegin, Inv, Shape

\* A handler that has just begun on a set of sandboxes has attached nothing yet.
LEMMA BegunProgress ==
  ASSUME NEW h \in Handler, task'[h].step = "pick", \A g \in Handler \ {h} : task'[g] = Idle
  PROVE  \A g \in Handler : Progress(g)'
<1>1. \A g \in Handler : task'[g].step = "pick"
  BY DEF Idle
<1> QED
  BY <1>1 DEF Progress, Attaching

LEMMA SynchronizeStep ==
  ASSUME Inv, ~Overlap, Synchronize
  PROVE  Inv'
<1> USE SandboxAssumption DEF SandboxAssumption
<1> DEFINE running == {s \in Sandbox : box[s] = "running"}
<1>1. \A g \in Handler : task[g] = Idle
  BY NoneBusy DEF Synchronize, Handler
<1>2. UNCHANGED <<proc, ready, failed, byPod, attached, prepared, box, link, port, clean>>
  BY DEF Synchronize, storeVars, nodeVars
<1>3. proc = "up" /\ conn' = "syncing"
      /\ task' = [task EXCEPT !["nri"] = [Idle EXCEPT !.op = "sync", !.boxes = running]]
  BY DEF Synchronize
<1>4. /\ task' \in [Handler -> Task]
      /\ \A g \in Handler \ {"nri"} : task'[g] = Idle
      /\ task'["nri"].op = "sync" /\ task'["nri"].boxes = running /\ task'["nri"].s = None
      /\ \A g \in Handler : Progress(g)'
  <2>1. Typed /\ "nri" \in Handler /\ proc' = "up" /\ running \in SUBSET Sandbox
    BY <1>2, <1>3, InvTyped DEF Handler
  <2> HIDE DEF running
  <2>2. /\ task' \in [Handler -> Task]
        /\ \A g \in Handler \ {"nri"} : task'[g] = task[g]
        /\ task'["nri"].op = "sync" /\ task'["nri"].boxes = running /\ task'["nri"].s = None
        /\ task'["nri"].step = "pick"
    BY <1>3, <2>1, BegunOn, Zenon
  <2> QED
    BY <1>1, <2>1, <2>2, BegunProgress, Zenon
<1>5. /\ task'["late"].op = "none" /\ task'["late"].boxes = {} /\ task'["late"].s = None
      /\ task'["retry"].op = "none" /\ task'["retry"].boxes = {} /\ task'["retry"].s = None
  BY <1>4 DEF Handler, Idle
<1>6. Typed'
  BY InvTyped, BeginTyped
<1>7. Alone'
  BY <1>2, <1>3, <1>4, <1>5 DEF Alone, Handler, Busy
<1>8. Stored'
  BY <1>2, ZenonT(30) DEF Inv, Stored, Live
<1>9. Placed'
  BY <1>2, <1>4, <1>5 DEF Inv, Placed, Handler
<1>10. Served'
  BY <1>2, <1>4, Zenon DEF Served
<1>11. Cleaned'
  BY <1>2, <1>4, <1>5 DEF Inv, Cleaned, Reaches, Handler, TypeOK
<1> QED
  BY <1>4, <1>6, <1>7, <1>8, <1>9, <1>10, <1>11 DEF Inv, Typed

LEMMA RetryBegin ==
  ASSUME Inv, ~Overlap, retryFailed
  PROVE  Inv'
<1> USE SandboxAssumption DEF SandboxAssumption
<1>1. \A g \in Handler : task[g] = Idle
  BY NoneBusy DEF retryFailed, Handler
<1>2. UNCHANGED <<proc, ready, failed, byPod, attached, prepared, conn, box, link, port, clean>>
  BY DEF retryFailed, storeVars, nodeVars
<1>3. proc = "up" /\ task' = [task EXCEPT !["retry"] = [Idle EXCEPT !.op = "retry", !.boxes = failed]]
  BY DEF retryFailed
<1>4. /\ task' \in [Handler -> Task]
      /\ \A g \in Handler \ {"retry"} : task'[g] = Idle
      /\ task'["retry"].op = "retry" /\ task'["retry"].boxes = failed /\ task'["retry"].s = None
      /\ \A g \in Handler : Progress(g)'
  <2>1. Typed /\ "retry" \in Handler /\ proc' = "up" /\ failed \in SUBSET Sandbox
    BY <1>2, <1>3, InvTyped DEF Inv, Handler, TypeOK
  <2>2. /\ task' \in [Handler -> Task]
        /\ \A g \in Handler \ {"retry"} : task'[g] = task[g]
        /\ task'["retry"].op = "retry" /\ task'["retry"].boxes = failed /\ task'["retry"].s = None
        /\ task'["retry"].step = "pick"
    BY <1>3, <2>1, BegunOn, Zenon
  <2> QED
    BY <1>1, <2>1, <2>2, BegunProgress, Zenon
<1>5. /\ task'["late"].op = "none" /\ task'["late"].boxes = {} /\ task'["late"].s = None
      /\ task'["nri"].op = "none" /\ task'["nri"].boxes = {} /\ task'["nri"].s = None
      /\ task["nri"].op = "none"
  BY <1>1, <1>4 DEF Handler, Idle
<1>6. Typed'
  BY InvTyped, BeginTyped
<1>7. Alone'
  BY <1>2, <1>3, <1>4, <1>5 DEF Inv, Alone, Handler, Busy
<1>8. Stored'
  BY <1>2, Zenon DEF Inv, Stored, Live
<1>9. Placed'
  BY <1>2, <1>4, <1>5, Zenon DEF Inv, Placed, Handler
<1>10. Served'
  BY <1>2, <1>5, Zenon DEF Inv, Served, AllWired, Wired
<1>11. Cleaned'
  BY <1>2, <1>4, <1>5 DEF Inv, Cleaned, Reaches, Handler, TypeOK
<1> QED
  BY <1>4, <1>6, <1>7, <1>8, <1>9, <1>10, <1>11 DEF Inv, Typed

=============================================================================
