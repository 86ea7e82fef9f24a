--------------------------- MODULE NriTaskProofs ----------------------------
(***************************************************************************)
(* Type correctness of NriPlugin, however its handlers overlap and however *)
(* often the runtime repeats a stop; and what the steps of an attach and   *)
(* of a detach do, which NriRequestProofs builds on.                       *)
(***************************************************************************)
EXTENDS NriPlugin, TLAPS

Attaching(h) == task[h].step \in {"next", "move", "port", "mark"}
Detaching(h) == task[h].step \in {"take", "detach"}
Live(s) == box[s] \in {"starting", "running", "stopping"}

\* What the fields of a task have to do with each other.
Shape(h) ==
  /\ ~Busy(h) => task[h] = Idle
  /\ Busy(h) => proc = "up"
  /\ task[h].step = "pick" => task[h].s = None /\ task[h].op \in {"none", "sync", "retry"}
  /\ task[h].step # "pick" => task[h].s \in Sandbox
  /\ task[h].step \in {"move", "port", "mark"} => task[h].nic \in Iface
  /\ task[h].step \in {"pick", "next"} => task[h].nic = None
  /\ Detaching(h) => task[h].op \in {"run", "stop"}
  /\ task[h].op = "stop" => Detaching(h)
  /\ task[h].op \in {"run", "stop"} => task[h].boxes = {}
  /\ task[h].s \notin task[h].boxes
  /\ task[h].step # "detach" => task[h].taken = {}
  /\ \A n \in task[h].taken : n.pod = PodOf[task[h].s]
  /\ task[h].op = "run" /\ Attaching(h) => ~task[h].err

\* What the type invariant rests on: it holds however the handlers overlap.
Typed ==
  /\ TypeOK
  /\ \A h \in Handler : Shape(h)
  /\ conn # "down" => proc = "up"

-----------------------------------------------------------------------------
(* Tasks                                                                   *)

LEMMA IdleType == Idle \in Task
<1>1. FALSE \in BOOLEAN
  OBVIOUS
<1> QED
  BY <1>1, Zenon DEF Idle, Task

\* The fields of a task.
LEMMA Fields ==
  ASSUME TypeOK, NEW h \in Handler
  PROVE  /\ task[h] \in Task
         /\ task[h].boxes \subseteq Sandbox
         /\ task[h].s \in Sandbox \cup {None}
         /\ task[h].todo \subseteq Iface
         /\ task[h].nic \in Iface \cup {None}
         /\ task[h].taken \subseteq AttachedNIC
         /\ task[h].err \in BOOLEAN
  BY DEF TypeOK, Task

\* A failed NIC sends RunPodSandbox to the rollback, and the others on.
LEMMA FailingFields ==
  ASSUME NEW t \in Task
  PROVE  /\ Failing(t) \in Task
         /\ Failing(t).op = t.op /\ Failing(t).boxes = t.boxes /\ Failing(t).s = t.s
         /\ Failing(t).taken = t.taken /\ Failing(t).nic = None /\ Failing(t).err = TRUE
         /\ Failing(t).todo \subseteq t.todo
         /\ Failing(t).step = IF t.op = "run" THEN "take" ELSE "next"
  BY Zenon DEF Failing, Task

LEMMA StepFields ==
  ASSUME TypeOK, NEW h \in Handler, NEW step \in {"port", "mark"},
         task' = [task EXCEPT ![h] = [@ EXCEPT !.step = step]]
  PROVE  /\ task' \in [Handler -> Task]
         /\ \A g \in Handler \ {h} : task'[g] = task[g]
         /\ task'[h].op = task[h].op /\ task'[h].boxes = task[h].boxes
         /\ task'[h].s = task[h].s /\ task'[h].taken = task[h].taken
         /\ task'[h].err = task[h].err /\ task'[h].step = step
         /\ task'[h].nic = task[h].nic /\ task'[h].todo = task[h].todo
<1>1. task[h] \in Task
  BY Fields
<1>2. [task[h] EXCEPT !.step = step] \in Task
  BY <1>1 DEF Task
<1>3. /\ task' \in [Handler -> Task]
      /\ \A g \in Handler \ {h} : task'[g] = task[g]
      /\ task'[h] = [task[h] EXCEPT !.step = step]
  BY <1>2 DEF TypeOK
<1> QED
  BY <1>1, <1>3 DEF Task

LEMMA FailedStep ==
  ASSUME TypeOK, NEW h \in Handler, task' = [task EXCEPT ![h] = Failing(@)]
  PROVE  /\ task' \in [Handler -> Task]
         /\ \A g \in Handler \ {h} : task'[g] = task[g]
         /\ task'[h].op = task[h].op /\ task'[h].boxes = task[h].boxes
         /\ task'[h].s = task[h].s /\ task'[h].taken = task[h].taken
         /\ task'[h].err = TRUE /\ task'[h].nic = None
         /\ task'[h].step = IF task[h].op = "run" THEN "take" ELSE "next"
<1>1. task[h] \in Task
  BY Fields
<1>2. /\ task' \in [Handler -> Task]
      /\ \A g \in Handler \ {h} : task'[g] = task[g]
      /\ task'[h] = Failing(task[h])
  BY <1>1, FailingFields, Zenon DEF TypeOK
<1> QED
  BY <1>1, <1>2, FailingFields, Zenon

LEMMA LinkSet ==
  ASSUME TypeOK, NEW s \in Sandbox, NEW i \in Iface, NEW v \in {"none", "host", "pod"},
         link' = [link EXCEPT ![s][i] = v] \/ link' = link
  PROVE  /\ link' \in [Sandbox -> [Iface -> {"none", "host", "pod"}]]
         /\ \A x \in Sandbox \ {s} : link'[x] = link[x]
  BY DEF TypeOK

\* What the steps of an attach have in common: they change the sandbox at hand only.
AttachEffect(h) ==
  /\ Busy(h) /\ Attaching(h) /\ task[h].s \in Sandbox
  /\ task' \in [Handler -> Task]
  /\ \A g \in Handler \ {h} : task'[g] = task[g]
  /\ task'[h].op = task[h].op /\ task'[h].boxes = task[h].boxes
  /\ task'[h].s = task[h].s /\ task'[h].taken = task[h].taken
  /\ \/ task'[h].err = task[h].err /\ Attaching(h)'
     \/ task'[h].err = TRUE /\ task'[h].step = IF task[h].op = "run" THEN "take" ELSE "next"
  /\ IF task'[h].step \in {"move", "port", "mark"} THEN task'[h].nic \in Iface
                                                   ELSE task'[h].nic = None
  /\ UNCHANGED <<proc, ready, failed, byPod, prepared, conn, box, clean>>
  /\ attached' \subseteq AttachedNIC
  /\ link' \in [Sandbox -> [Iface -> {"none", "host", "pod"}]]
  /\ port' \subseteq Sandbox \X Iface
  /\ \A t \in Sandbox \ {task[h].s} :
       link'[t] = link[t] /\ \A i \in Iface : <<t, i>> \in port' <=> <<t, i>> \in port

LEMMA CreateEffect ==
  ASSUME Typed, NEW h \in Handler, createVethPair(h)
  PROVE  AttachEffect(h)
<1>1. PICK i \in task[h].todo : createVethPair(h)!2!(i)
  BY Zenon DEF createVethPair
<1> DEFINE t == [task[h] EXCEPT !.todo = @ \ {i}, !.nic = i]
<1>2. TypeOK /\ Shape(h)
  BY DEF Typed
<1>3. task[h] \in Task /\ i \in Iface
  BY <1>2, Fields
<1>4. task[h].s \in Sandbox /\ task[h].step = "next" /\ Busy(h)
  BY <1>2 DEF Shape, createVethPair
<1>5. /\ t \in Task /\ t.op = task[h].op /\ t.boxes = task[h].boxes /\ t.s = task[h].s
      /\ t.taken = task[h].taken /\ t.err = task[h].err /\ t.nic = i
  BY <1>3, Zenon DEF Task
<1>6. \/ /\ task' = [task EXCEPT ![h] = [t EXCEPT !.step = "move"]]
         /\ link' = [link EXCEPT ![task[h].s][i] = IF @ = "none" THEN "host" ELSE @]
      \/ /\ task' = [task EXCEPT ![h] = Failing(t)]
         /\ UNCHANGED link
  BY <1>1
<1>7. UNCHANGED <<proc, ready, failed, byPod, attached, prepared, conn, box, port, clean>>
  BY DEF createVethPair, storeVars
<1>8. link' \in [Sandbox -> [Iface -> {"none", "host", "pod"}]]
      /\ \A x \in Sandbox \ {task[h].s} : link'[x] = link[x]
  BY <1>2, <1>3, <1>4, <1>6 DEF TypeOK
<1>9. /\ attached' \subseteq AttachedNIC
      /\ port' \subseteq Sandbox \X Iface
      /\ \A x \in Sandbox \ {task[h].s} : link'[x] = link[x] /\ \A j \in Iface : <<x, j>> \in port' <=> <<x, j>> \in port
  BY <1>2, <1>7, <1>8 DEF TypeOK
<1>10. CASE task' = [task EXCEPT ![h] = [t EXCEPT !.step = "move"]]
  <2>1. [t EXCEPT !.step = "move"] \in Task
    BY <1>5, Zenon DEF Task
  <2>2. /\ task' \in [Handler -> Task]
        /\ \A g \in Handler \ {h} : task'[g] = task[g]
        /\ task'[h] = [t EXCEPT !.step = "move"]
    BY <1>2, <1>10, <2>1 DEF TypeOK
  <2>3. /\ task'[h].op = task[h].op /\ task'[h].boxes = task[h].boxes
        /\ task'[h].s = task[h].s /\ task'[h].taken = task[h].taken
        /\ task'[h].err = task[h].err /\ task'[h].step = "move" /\ task'[h].nic = i
    BY <1>5, <2>2 DEF Task
  <2> QED
    BY <1>3, <1>4, <1>7, <1>8, <1>9, <2>2, <2>3 DEF AttachEffect, Attaching
<1>11. CASE task' = [task EXCEPT ![h] = Failing(t)]
  <2>1. /\ task' \in [Handler -> Task]
        /\ \A g \in Handler \ {h} : task'[g] = task[g]
        /\ task'[h] = Failing(t)
    BY <1>2, <1>5, <1>11, FailingFields, Zenon DEF TypeOK
  <2>2. /\ task'[h].op = task[h].op /\ task'[h].boxes = task[h].boxes
        /\ task'[h].s = task[h].s /\ task'[h].taken = task[h].taken
        /\ task'[h].err = TRUE /\ task'[h].nic = None
        /\ task'[h].step = IF task[h].op = "run" THEN "take" ELSE "next"
    BY <1>5, <2>1, FailingFields, Zenon
  <2> QED
    BY <1>3, <1>4, <1>7, <1>8, <1>9, <2>1, <2>2 DEF AttachEffect, Attaching
<1> QED
  BY <1>6, <1>10, <1>11

LEMMA MoveEffect ==
  ASSUME Typed, NEW h \in Handler, moveIntoNetns(h)
  PROVE  AttachEffect(h)
<1> DEFINE s == task[h].s
           i == task[h].nic
<1>1. TypeOK /\ Shape(h)
  BY DEF Typed
<1>2. task[h] \in Task
  BY <1>1, Fields
<1>3. s \in Sandbox /\ i \in Iface /\ task[h].step = "move" /\ Busy(h)
  BY <1>1 DEF Shape, moveIntoNetns
<1>4. \/ /\ link' = [link EXCEPT ![s][i] = "pod"]
         /\ task' = [task EXCEPT ![h] = [@ EXCEPT !.step = "port"]]
      \/ /\ Cleanup(s, i)
         /\ task' = [task EXCEPT ![h] = Failing(@)]
  BY DEF moveIntoNetns
<1>5. UNCHANGED <<proc, ready, failed, byPod, attached, prepared, conn, box, port, clean>>
  BY DEF moveIntoNetns, storeVars
<1>6. link' \in [Sandbox -> [Iface -> {"none", "host", "pod"}]]
      /\ \A x \in Sandbox \ {s} : link'[x] = link[x]
  BY <1>1, <1>3, <1>4, LinkSet DEF Cleanup
<1>7. /\ attached' \subseteq AttachedNIC
      /\ port' \subseteq Sandbox \X Iface
      /\ \A x \in Sandbox \ {s} : link'[x] = link[x] /\ \A j \in Iface : <<x, j>> \in port' <=> <<x, j>> \in port
  BY <1>1, <1>5, <1>6 DEF TypeOK
<1>8. CASE task' = [task EXCEPT ![h] = [@ EXCEPT !.step = "port"]]
  BY <1>1, <1>2, <1>3, <1>5, <1>6, <1>7, <1>8, StepFields, Zenon DEF AttachEffect, Attaching
<1>9. CASE task' = [task EXCEPT ![h] = Failing(@)]
  BY <1>1, <1>2, <1>3, <1>5, <1>6, <1>7, <1>9, FailedStep, Zenon DEF AttachEffect, Attaching
<1> QED
  BY <1>4, <1>8, <1>9

LEMMA PortEffect ==
  ASSUME Typed, NEW h \in Handler, attachToOVS(h)
  PROVE  AttachEffect(h)
<1> DEFINE s == task[h].s
           i == task[h].nic
<1>1. TypeOK /\ Shape(h)
  BY DEF Typed
<1>2. task[h] \in Task
  BY <1>1, Fields
<1>3. s \in Sandbox /\ i \in Iface /\ task[h].step = "port" /\ Busy(h)
  BY <1>1 DEF Shape, attachToOVS
<1>4. /\ port' \in {port, port \cup {<<s, i>>}}
      /\ Cleanup(s, i)
      /\ \/ task' = [task EXCEPT ![h] = [@ EXCEPT !.step = "mark"]]
         \/ task' = [task EXCEPT ![h] = Failing(@)]
  BY DEF attachToOVS, Cleanup
<1>5. UNCHANGED <<proc, ready, failed, byPod, attached, prepared, conn, box, clean>>
  BY DEF attachToOVS, storeVars
<1>6. link' \in [Sandbox -> [Iface -> {"none", "host", "pod"}]]
      /\ \A x \in Sandbox \ {s} : link'[x] = link[x]
  BY <1>1, <1>3, <1>4, LinkSet DEF Cleanup
<1>7. /\ attached' \subseteq AttachedNIC
      /\ port' \subseteq Sandbox \X Iface
      /\ \A x \in Sandbox \ {s} : link'[x] = link[x] /\ \A j \in Iface : <<x, j>> \in port' <=> <<x, j>> \in port
  BY <1>1, <1>3, <1>4, <1>5, <1>6 DEF TypeOK
<1>8. CASE task' = [task EXCEPT ![h] = [@ EXCEPT !.step = "mark"]]
  BY <1>1, <1>2, <1>3, <1>5, <1>6, <1>7, <1>8, StepFields, Zenon DEF AttachEffect, Attaching
<1>9. CASE task' = [task EXCEPT ![h] = Failing(@)]
  BY <1>1, <1>2, <1>3, <1>5, <1>6, <1>7, <1>9, FailedStep, Zenon DEF AttachEffect, Attaching
<1> QED
  BY <1>4, <1>8, <1>9

LEMMA MarkEffect ==
  ASSUME Typed, NEW h \in Handler, MarkNIC(h)
  PROVE  AttachEffect(h)
<1>1. TypeOK /\ Shape(h)
  BY DEF Typed
<1>2. task[h] \in Task
  BY <1>1, Fields
<1>3. task[h].s \in Sandbox /\ task[h].nic \in Iface /\ task[h].step = "mark" /\ Busy(h)
  BY <1>1 DEF Shape, MarkNIC
<1>4. UNCHANGED <<proc, ready, failed, byPod, prepared, conn, box, link, port, clean>>
  BY DEF MarkNIC, nodeVars
<1>5. InSandbox(task[h].s, task[h].nic) \in AttachedNIC
  BY <1>3 DEF AttachedNIC
<1>6. /\ attached' \subseteq AttachedNIC
      /\ link' \in [Sandbox -> [Iface -> {"none", "host", "pod"}]]
      /\ port' \subseteq Sandbox \X Iface
  BY <1>1, <1>4, <1>5 DEF TypeOK, MarkNIC, MarkAttached
<1>7. /\ task' \in [Handler -> Task]
      /\ \A g \in Handler \ {h} : task'[g] = task[g]
      /\ task'[h] = [task[h] EXCEPT !.step = "next", !.nic = None]
  BY <1>1, <1>2, Zenon DEF TypeOK, MarkNIC, Task
<1>8. /\ task'[h].op = task[h].op /\ task'[h].boxes = task[h].boxes
      /\ task'[h].s = task[h].s /\ task'[h].taken = task[h].taken
      /\ task'[h].err = task[h].err /\ task'[h].step = "next" /\ task'[h].nic = None
  BY <1>2, <1>7 DEF Task
<1> QED
  BY <1>3, <1>4, <1>6, <1>7, <1>8 DEF AttachEffect, Attaching

-----------------------------------------------------------------------------
(* Detach                                                                  *)

\* A detach removes ports, and touches no other pod's pairs.
PodOnly(h) ==
  /\ link' \in [Sandbox -> [Iface -> {"none", "host", "pod"}]]
  /\ port' \subseteq port
  /\ \A t \in Sandbox : PodOf[t] # PodOf[task[h].s] /\ box'[t] # "stopped" =>
       \A i \in Iface : link'[t][i] = link[t][i] /\ (<<t, i>> \in port => <<t, i>> \in port')


\* TakeNICs and Detach.
DetachEffect(h) ==
  /\ Busy(h) /\ Detaching(h) /\ task[h].s \in Sandbox
  /\ task' \in [Handler -> Task]
  /\ \A g \in Handler \ {h} : task'[g] = task[g]
  /\ task'[h].op = task[h].op /\ task'[h].boxes = task[h].boxes /\ task'[h].s = task[h].s
  /\ task'[h].step = "detach"
  /\ \A n \in task'[h].taken : n.pod = PodOf[task[h].s]
  /\ attached' \subseteq attached
  /\ PodOnly(h)
  /\ UNCHANGED <<proc, ready, failed, byPod, prepared, conn, box, clean>>

LEMMA TakeEffect ==
  ASSUME Typed, NEW h \in Handler, TakeNICs(h)
  PROVE  DetachEffect(h)
<1>1. TypeOK /\ Shape(h) /\ task[h] \in Task /\ Busy(h) /\ task[h].step = "take"
  BY Fields DEF Typed, TakeNICs
<1>2. Specs(attached, PodOf[task[h].s]) \subseteq AttachedNIC
  BY <1>1 DEF Specs, TypeOK
<1>3. /\ task' \in [Handler -> Task]
      /\ \A g \in Handler \ {h} : task'[g] = task[g]
      /\ task'[h] = [task[h] EXCEPT !.step = "detach", !.taken = Specs(attached, PodOf[task[h].s])]
  BY <1>1, <1>2, Zenon DEF TypeOK, TakeNICs, Task
<1>4. /\ task'[h].op = task[h].op /\ task'[h].boxes = task[h].boxes /\ task'[h].s = task[h].s
      /\ task'[h].step = "detach" /\ task'[h].taken = Specs(attached, PodOf[task[h].s])
  BY <1>1, <1>3 DEF Task
<1>5. UNCHANGED <<proc, ready, failed, byPod, prepared, conn, box, link, port, clean>>
  BY DEF TakeNICs, nodeVars
<1>6. attached' \subseteq attached
  BY DEF TakeNICs, TakeAttached
<1>7. PodOnly(h)
  BY <1>1, <1>5 DEF PodOnly, TypeOK
<1> QED
  BY <1>1, <1>3, <1>4, <1>5, <1>6, <1>7 DEF DetachEffect, Detaching, Shape, Specs

LEMMA DeleteEffect ==
  ASSUME Typed, NEW h \in Handler, Detach(h)
  PROVE  DetachEffect(h)
<1>1. PICK n \in task[h].taken : Detach(h)!2!(n)
  BY Zenon DEF Detach
<1> DEFINE t == [task[h] EXCEPT !.taken = @ \ {n}]
           without == port \ {<<n.sandbox, n.iface>>}
<1>2. TypeOK /\ Shape(h) /\ task[h] \in Task /\ Busy(h) /\ task[h].step = "detach" /\ task[h].s \in Sandbox
  BY Fields DEF Typed, Detach, Shape
<1>3. n.pod = PodOf[task[h].s] /\ n \in AttachedNIC
  BY <1>2, Fields DEF Shape
<1>4. n.sandbox \in Sandbox /\ n.iface \in Iface /\ n.pod = PodOf[n.sandbox]
  BY <1>3 DEF AttachedNIC, InSandbox
<1>5. \E e \in BOOLEAN : task' = [task EXCEPT ![h] = [task[h] EXCEPT !.taken = @ \ {n}, !.err = e]]
  <2>1. t = [task[h] EXCEPT !.taken = @ \ {n}, !.err = task[h].err] /\ task[h].err \in BOOLEAN
    BY <1>2, Zenon DEF Task
  <2>2. [t EXCEPT !.err = TRUE] = [task[h] EXCEPT !.taken = @ \ {n}, !.err = TRUE]
    BY <1>2 DEF Task
  <2> QED
    BY <1>1, <2>1, <2>2, Zenon
<1>6. PICK e \in BOOLEAN : task' = [task EXCEPT ![h] = [task[h] EXCEPT !.taken = @ \ {n}, !.err = e]]
  BY <1>5
<1>7. [task[h] EXCEPT !.taken = @ \ {n}, !.err = e] \in Task
  BY <1>2, Zenon DEF Task
<1>8. /\ task' \in [Handler -> Task]
      /\ \A g \in Handler \ {h} : task'[g] = task[g]
      /\ task'[h] = [task[h] EXCEPT !.taken = @ \ {n}, !.err = e]
  BY <1>2, <1>6, <1>7 DEF TypeOK
<1>9. /\ task'[h].op = task[h].op /\ task'[h].boxes = task[h].boxes /\ task'[h].s = task[h].s
      /\ task'[h].step = "detach" /\ task'[h].taken \subseteq task[h].taken
  BY <1>2, <1>8 DEF Task
<1>10. UNCHANGED <<proc, ready, failed, byPod, attached, prepared, conn, box, clean>>
  BY DEF Detach, storeVars
<1>11. port' \in {port, without} /\ (link' = link \/ link' = [link EXCEPT ![n.sandbox][n.iface] = "none"])
  BY <1>1
<1>12. /\ link' \in [Sandbox -> [Iface -> {"none", "host", "pod"}]]
       /\ \A x \in Sandbox \ {n.sandbox} : link'[x] = link[x]
  BY <1>2, <1>4, <1>11, LinkSet
<1>13. PodOnly(h)
  BY <1>3, <1>4, <1>11, <1>12 DEF PodOnly
<1> QED
  BY <1>2, <1>8, <1>9, <1>10, <1>13 DEF DetachEffect, Detaching, Shape

-----------------------------------------------------------------------------
(* Types                                                                   *)

\* A handler goes on as it was, or is idle.
LEMMA ShapeKept ==
  ASSUME \A g \in Handler : Shape(g),
         \A g \in Handler : task'[g] = Idle \/ (task'[g] = task[g] /\ proc' = proc)
  PROVE  \A g \in Handler : Shape(g)'
<1>1. ASSUME NEW g \in Handler, task'[g] = Idle PROVE Shape(g)'
  <2>1. /\ task'[g].op = "none" /\ task'[g].boxes = {} /\ task'[g].s = None /\ task'[g].nic = None
        /\ task'[g].taken = {} /\ task'[g].step = "pick" /\ task'[g].err = FALSE
    BY <1>1 DEF Idle
  <2> QED
    BY <1>1, <2>1, Zenon DEF Shape, Busy, Attaching, Detaching
<1>2. ASSUME NEW g \in Handler, task'[g] = task[g], proc' = proc PROVE Shape(g)'
  <2>1. Shape(g)
    OBVIOUS
  <2> QED
    BY <1>2, <2>1 DEF Shape, Busy, Attaching, Detaching
<1> QED
  BY <1>1, <1>2

LEMMA AttachTyped ==
  ASSUME Typed, NEW h \in Handler, AttachEffect(h)
  PROVE  Typed'
<1>1. /\ Busy(h) /\ Attaching(h) /\ task[h].s \in Sandbox
      /\ task' \in [Handler -> Task]
      /\ \A g \in Handler \ {h} : task'[g] = task[g]
      /\ task'[h].op = task[h].op /\ task'[h].boxes = task[h].boxes
      /\ task'[h].s = task[h].s /\ task'[h].taken = task[h].taken
      /\ UNCHANGED <<proc, ready, failed, byPod, prepared, conn, box, clean>>
  BY DEF AttachEffect
<1>2. TypeOK'
  <2>1. UNCHANGED <<proc, ready, failed, byPod, prepared, conn, box, clean>>
    BY <1>1
  <2>2. attached' \subseteq AttachedNIC /\ task' \in [Handler -> Task] /\ port' \subseteq Sandbox \X Iface
        /\ link' \in [Sandbox -> [Iface -> {"none", "host", "pod"}]]
    BY DEF AttachEffect
  <2>3. TypeOK
    BY DEF Typed
  <2> QED
    BY <2>1, <2>2, <2>3 DEF TypeOK
<1>3. Shape(h)'
  <2>1. Shape(h) /\ task[h].op # "stop" /\ task[h].op # "none" /\ task[h].taken = {}
    BY <1>1 DEF Typed, Shape, Attaching, Detaching, Busy
  <2>2. \/ task'[h].err = task[h].err /\ Attaching(h)'
        \/ task'[h].err = TRUE /\ task'[h].step = IF task[h].op = "run" THEN "take" ELSE "next"
    BY DEF AttachEffect
  <2>3. IF task'[h].step \in {"move", "port", "mark"} THEN task'[h].nic \in Iface
                                                      ELSE task'[h].nic = None
    BY DEF AttachEffect
  <2> QED
    BY <1>1, <2>1, <2>2, <2>3 DEF Shape, Attaching, Detaching, Busy
<1>4. ASSUME NEW g \in Handler \ {h} PROVE Shape(g)'
  BY <1>1 DEF Typed, Shape, Attaching, Detaching, Busy
<1> QED
  BY <1>1, <1>2, <1>3, <1>4 DEF Typed

LEMMA DetachTyped ==
  ASSUME Typed, NEW h \in Handler, DetachEffect(h)
  PROVE  Typed'
<1>1. /\ Busy(h) /\ Detaching(h) /\ task[h].s \in Sandbox
      /\ task' \in [Handler -> Task]
      /\ \A g \in Handler \ {h} : task'[g] = task[g]
      /\ task'[h].op = task[h].op /\ task'[h].boxes = task[h].boxes /\ task'[h].s = task[h].s
      /\ task'[h].step = "detach"
      /\ UNCHANGED <<proc, ready, failed, byPod, prepared, conn, box, clean>>
  BY DEF DetachEffect
<1>2. TypeOK'
  <2>1. UNCHANGED <<proc, ready, failed, byPod, prepared, conn, box, clean>>
    BY <1>1
  <2>2. attached' \subseteq attached /\ task' \in [Handler -> Task] /\ port' \subseteq port
        /\ link' \in [Sandbox -> [Iface -> {"none", "host", "pod"}]]
    BY DEF DetachEffect, PodOnly
  <2>3. TypeOK
    BY DEF Typed
  <2> QED
    BY <2>1, <2>2, <2>3 DEF TypeOK
<1>3. Shape(h)'
  <2>1. \A n \in task'[h].taken : n.pod = PodOf[task[h].s]
    BY DEF DetachEffect
  <2> QED
    BY <1>1, <2>1 DEF Typed, Shape, Attaching, Detaching, Busy
<1>4. ASSUME NEW g \in Handler \ {h} PROVE Shape(g)'
  BY <1>1 DEF Typed, Shape, Attaching, Detaching, Busy
<1> QED
  BY <1>1, <1>2, <1>3, <1>4 DEF Typed

\* A handler begins or moves on: its new task has the right shape.
LEMMA TaskTyped ==
  ASSUME Typed, NEW h \in Handler, NEW t \in Task, task' = [task EXCEPT ![h] = t], proc' = proc
  PROVE  /\ task' \in [Handler -> Task]
         /\ \A g \in Handler \ {h} : task'[g] = task[g]
         /\ task'[h] = t
         /\ Shape(h)' => \A g \in Handler : Shape(g)'
<1>1. /\ task' \in [Handler -> Task]
      /\ \A g \in Handler \ {h} : task'[g] = task[g]
      /\ task'[h] = t
  BY DEF Typed, TypeOK
<1>2. ASSUME NEW g \in Handler \ {h} PROVE Shape(g)'
  BY <1>1, Zenon DEF Typed, Shape, Busy, Attaching, Detaching
<1> QED
  BY <1>1, <1>2

LEMMA SpecsType ==
  ASSUME TypeOK, NEW p \in Pod
  PROVE  {n.iface : n \in Specs(byPod, p)} \subseteq Iface
  BY DEF TypeOK, Specs, NICsOf

\* Synchronize and retryFailed start on a set of sandboxes.
LEMMA BegunOn ==
  ASSUME Typed, NEW h \in Handler, NEW op \in {"sync", "retry"}, NEW boxes \in SUBSET Sandbox,
         proc = "up", proc' = "up", task' = [task EXCEPT ![h] = [Idle EXCEPT !.op = op, !.boxes = boxes]]
  PROVE  /\ task' \in [Handler -> Task]
         /\ \A g \in Handler \ {h} : task'[g] = task[g]
         /\ task'[h].op = op /\ task'[h].boxes = boxes /\ task'[h].s = None /\ task'[h].step = "pick"
         /\ \A g \in Handler : Shape(g)'
<1> USE SandboxAssumption DEF SandboxAssumption
<1> DEFINE t == [Idle EXCEPT !.op = op, !.boxes = boxes]
<1>1. t \in Task
  BY IdleType, Zenon DEF Task
<1>2. /\ t.op = op /\ t.boxes = boxes /\ t.s = None /\ t.nic = None
      /\ t.taken = {} /\ t.step = "pick" /\ t.err = FALSE
  BY DEF Idle
<1>3. task' = [task EXCEPT ![h] = t] /\ proc' = proc
  OBVIOUS
<1> HIDE DEF t
<1>4. /\ task' \in [Handler -> Task]
      /\ \A g \in Handler \ {h} : task'[g] = task[g]
      /\ task'[h] = t
      /\ Shape(h)' => \A g \in Handler : Shape(g)'
  BY <1>1, <1>3, TaskTyped, Zenon
<1>5. Shape(h)'
  BY <1>2, <1>4, Zenon DEF Shape, Busy, Attaching, Detaching
<1> QED
  BY <1>2, <1>4, <1>5, Zenon

LEMMA BeginTyped ==
  ASSUME Typed, Synchronize \/ retryFailed
  PROVE  Typed'
<1>1. UNCHANGED <<proc, ready, failed, byPod, attached, prepared, box, link, port, clean>> /\ proc = "up"
      /\ conn' \in {conn, "syncing"}
  BY DEF Synchronize, retryFailed, storeVars, nodeVars
<1>2. TypeOK
  BY DEF Typed
<1>3. task' \in [Handler -> Task] /\ \A g \in Handler : Shape(g)'
  <2>1. CASE Synchronize
    <3> DEFINE running == {s \in Sandbox : box[s] = "running"}
    <3>1. task' = [task EXCEPT !["nri"] = [Idle EXCEPT !.op = "sync", !.boxes = running]]
      BY <2>1 DEF Synchronize
    <3>2. "nri" \in Handler /\ proc' = "up" /\ running \in SUBSET Sandbox
      BY <1>1 DEF Handler
    <3> HIDE DEF running
    <3> QED
      BY <1>1, <3>1, <3>2, BegunOn, Zenon
  <2>2. CASE retryFailed
    <3>1. task' = [task EXCEPT !["retry"] = [Idle EXCEPT !.op = "retry", !.boxes = failed]]
      BY <2>2 DEF retryFailed
    <3>2. "retry" \in Handler /\ proc' = "up" /\ failed \in SUBSET Sandbox
      BY <1>1, <1>2 DEF Handler, TypeOK
    <3> QED
      BY <1>1, <3>1, <3>2, BegunOn, Zenon
  <2> QED
    BY <2>1, <2>2
<1>4. TypeOK'
  BY <1>1, <1>2, <1>3 DEF TypeOK
<1> QED
  BY <1>1, <1>3, <1>4 DEF Typed

\* syncSandbox, and its end.
LEMMA SandboxFields ==
  ASSUME Typed, NEW h \in Handler, syncSandbox(h)
  PROVE  \E s \in task[h].boxes :
           /\ s \in Sandbox
           /\ task' \in [Handler -> Task]
           /\ \A g \in Handler \ {h} : task'[g] = task[g]
           /\ task'[h].op = task[h].op /\ task'[h].boxes = task[h].boxes \ {s} /\ task'[h].s = s
           /\ task'[h].step = "next" /\ task'[h].todo = {n.iface : n \in Specs(byPod, PodOf[s])}
           /\ task'[h].err = FALSE
           /\ \A g \in Handler : Shape(g)'
<1> USE SandboxAssumption DEF SandboxAssumption
<1>1. PICK s \in task[h].boxes :
        task' = [task EXCEPT ![h] = [task[h] EXCEPT !.boxes = @ \ {s}, !.s = s, !.step = "next",
                   !.todo = {n.iface : n \in Specs(byPod, PodOf[s])}, !.err = FALSE]]
  BY Zenon DEF syncSandbox
<1>2. /\ TypeOK /\ Shape(h) /\ Busy(h) /\ task[h] \in Task /\ s \in Sandbox /\ proc = "up" /\ proc' = proc
      /\ task[h].op \in {"sync", "retry"} /\ task[h].nic = None /\ task[h].taken = {}
  BY Fields DEF Typed, Shape, syncSandbox, Busy
<1> DEFINE todo == {n.iface : n \in Specs(byPod, PodOf[s])}
<1>3. todo \subseteq Iface
  BY <1>2, SpecsType
<1> HIDE DEF todo
<1> DEFINE t == [task[h] EXCEPT !.boxes = @ \ {s}, !.s = s, !.step = "next", !.todo = todo, !.err = FALSE]
<1>4. task' = [task EXCEPT ![h] = t]
  BY <1>1 DEF todo
<1>5. /\ t \in Task
      /\ t.op = task[h].op /\ t.boxes = task[h].boxes \ {s} /\ t.s = s /\ t.step = "next" /\ t.todo = todo
      /\ t.err = FALSE /\ t.nic = None /\ t.taken = {}
  BY <1>2, <1>3, Zenon DEF Task
<1> HIDE DEF t
<1>6. /\ task' \in [Handler -> Task]
      /\ \A g \in Handler \ {h} : task'[g] = task[g]
      /\ task'[h] = t
      /\ Shape(h)' => \A g \in Handler : Shape(g)'
  BY <1>2, <1>4, <1>5, TaskTyped, Zenon
<1>7. Shape(h)'
  BY <1>2, <1>5, <1>6 DEF Shape, Busy, Attaching, Detaching
<1> QED
  BY <1>2, <1>5, <1>6, <1>7 DEF todo

LEMMA SandboxDoneFields ==
  ASSUME Typed, NEW h \in Handler, SyncSandboxDone(h)
  PROVE  /\ task' \in [Handler -> Task]
         /\ \A g \in Handler \ {h} : task'[g] = task[g]
         /\ task'[h].op = task[h].op /\ task'[h].boxes = task[h].boxes /\ task'[h].s = None
         /\ task'[h].step = "pick" /\ task'[h].err = FALSE
         /\ \A g \in Handler : Shape(g)'
<1> USE SandboxAssumption DEF SandboxAssumption
<1>1. /\ TypeOK /\ Shape(h) /\ Busy(h) /\ task[h] \in Task /\ task[h].s \in Sandbox /\ proc = "up" /\ proc' = proc
      /\ task[h].op \in {"sync", "retry"} /\ task[h].taken = {} /\ None \notin task[h].boxes
  BY Fields DEF Typed, Shape, SyncSandboxDone, Busy
<1> DEFINE t == [task[h] EXCEPT !.s = None, !.step = "pick", !.nic = None, !.err = FALSE]
<1>2. /\ t \in Task
      /\ t.op = task[h].op /\ t.boxes = task[h].boxes /\ t.s = None /\ t.step = "pick"
      /\ t.err = FALSE /\ t.nic = None /\ t.taken = {}
  BY <1>1, Zenon DEF Task
<1>3. task' = [task EXCEPT ![h] = t]
  BY DEF SyncSandboxDone
<1> HIDE DEF t
<1>4. /\ task' \in [Handler -> Task]
      /\ \A g \in Handler \ {h} : task'[g] = task[g]
      /\ task'[h] = t
      /\ Shape(h)' => \A g \in Handler : Shape(g)'
  BY <1>1, <1>2, <1>3, TaskTyped, Zenon
<1>5. Shape(h)'
  BY <1>1, <1>2, <1>4 DEF Shape, Busy, Attaching, Detaching
<1> QED
  BY <1>2, <1>4, <1>5

LEMMA SandboxTyped ==
  ASSUME Typed, NEW h \in Handler, syncSandbox(h) \/ SyncSandboxDone(h)
  PROVE  Typed'
<1>1. UNCHANGED <<proc, ready, byPod, attached, prepared, conn, box, link, port, clean>>
  BY Zenon DEF syncSandbox, SyncSandboxDone, storeVars, nodeVars
<1>2. task' \in [Handler -> Task] /\ \A g \in Handler : Shape(g)'
  BY SandboxFields, SandboxDoneFields, Zenon
<1>3. failed' \subseteq Sandbox
  <2>1. failed \subseteq Sandbox
    BY DEF Typed, TypeOK
  <2>2. CASE syncSandbox(h)
    BY <2>1, <2>2, Zenon DEF syncSandbox
  <2>3. CASE SyncSandboxDone(h)
    <3>1. task[h].s \in Sandbox
      BY <2>3 DEF Typed, Shape, SyncSandboxDone
    <3> QED
      BY <2>1, <2>3, <3>1 DEF SyncSandboxDone
  <2> QED
    BY <2>2, <2>3
<1>4. TypeOK
  BY DEF Typed
<1>5. TypeOK'
  BY <1>1, <1>2, <1>3, <1>4 DEF TypeOK
<1> QED
  BY <1>1, <1>2, <1>5 DEF Typed

\* The end of a request, a Synchronize or a pass of the retry loop.
LEMMA LinksAfterType ==
  ASSUME NEW l \in [Sandbox -> [Iface -> {"none", "host", "pod"}]], link' = LinksAfter(l, box')
  PROVE  /\ link' \in [Sandbox -> [Iface -> {"none", "host", "pod"}]]
         /\ \A t \in Sandbox : box'[t] # "stopped" => \A i \in Iface : link'[t][i] = l[t][i]
  BY DEF LinksAfter

LEMMA EndedTyped ==
  ASSUME Typed, NEW h \in Handler, task' = [task EXCEPT ![h] = Idle], proc' = proc
  PROVE  task' \in [Handler -> Task] /\ \A g \in Handler : Shape(g)'
<1>1. /\ task' \in [Handler -> Task]
      /\ \A g \in Handler : task'[g] = Idle \/ (task'[g] = task[g] /\ proc' = proc)
  BY IdleType DEF Typed, TypeOK
<1> QED
  BY <1>1, ShapeKept DEF Typed

LEMMA DoneTyped ==
  ASSUME Typed, NEW h \in Handler, SyncDone(h) \/ RunDone(h) \/ (h = "retry" /\ RetryDone)
  PROVE  Typed'
<1>1. UNCHANGED <<proc, failed, byPod, attached, prepared, link, port, clean>>
      /\ task' = [task EXCEPT ![h] = Idle]
  BY DEF SyncDone, RunDone, RetryDone, storeVars, nodeVars
<1>2. task' \in [Handler -> Task] /\ \A g \in Handler : Shape(g)'
  BY <1>1, EndedTyped, Zenon
<1>3. TypeOK
  BY DEF Typed
<1>4. ready' \in BOOLEAN
  BY <1>3, Zenon DEF SyncDone, RunDone, RetryDone, TypeOK
<1>5. conn' \in {"down", "syncing", "up"}
  BY <1>3 DEF SyncDone, RunDone, RetryDone, TypeOK
<1>6. box' \in [Sandbox -> {"none", "starting", "running", "stopping", "stopped"}]
  BY <1>3 DEF SyncDone, RunDone, RetryDone, TypeOK
<1>7. TypeOK'
  BY <1>1, <1>2, <1>3, <1>4, <1>5, <1>6 DEF TypeOK
<1>8. Busy(h) /\ Shape(h)
  BY DEF SyncDone, RunDone, RetryDone, Busy, Typed
<1> QED
  BY <1>1, <1>2, <1>7, <1>8 DEF Typed, Shape

LEMMA RollbackOnly ==
  ASSUME Typed, NEW h \in Handler, RollbackDone(h)
  PROVE  PodOnly(h)
<1>1. link' = LinksAfter(link, box') /\ link \in [Sandbox -> [Iface -> {"none", "host", "pod"}]] /\ port' = port
  BY DEF RollbackDone, Typed, TypeOK
<1>2. /\ link' \in [Sandbox -> [Iface -> {"none", "host", "pod"}]]
      /\ \A t \in Sandbox : box'[t] # "stopped" => \A i \in Iface : link'[t][i] = link[t][i]
  BY <1>1, LinksAfterType
<1> QED
  BY <1>1, <1>2 DEF PodOnly

LEMMA PortsOnly ==
  ASSUME Typed, NEW h \in Handler, DetachPodPorts(h)
  PROVE  PodOnly(h)
<1> DEFINE s == task[h].s
           ports == PodPorts(PodOf[s])
           pairs(deleted) == [t \in Sandbox |-> [i \in Iface |->
                               IF <<t, i>> \in deleted THEN "none" ELSE link[t][i]]]
<1>1. PICK gone \in SUBSET ports, deleted \in SUBSET ports :
        port' = port \ gone /\ link' = LinksAfter(pairs(deleted), box')
  BY Zenon DEF DetachPodPorts
<1>2. pairs(deleted) \in [Sandbox -> [Iface -> {"none", "host", "pod"}]]
  BY DEF Typed, TypeOK
<1>3. \A t \in Sandbox : PodOf[t] # PodOf[s] => \A i \in Iface : <<t, i>> \notin gone /\ <<t, i>> \notin deleted
  BY <1>1 DEF PodPorts
<1>4. \A t \in Sandbox : PodOf[t] # PodOf[s] => \A i \in Iface : pairs(deleted)[t][i] = link[t][i]
  BY <1>3
<1>5. link' = LinksAfter(pairs(deleted), box') /\ port' = port \ gone
  BY <1>1
<1> HIDE DEF pairs, ports
<1>6. /\ link' \in [Sandbox -> [Iface -> {"none", "host", "pod"}]]
      /\ \A t \in Sandbox : box'[t] # "stopped" => \A i \in Iface : link'[t][i] = pairs(deleted)[t][i]
  BY <1>2, <1>5, LinksAfterType
<1>7. \A t \in Sandbox : PodOf[t] # PodOf[s] /\ box'[t] # "stopped" =>
        \A i \in Iface : link'[t][i] = link[t][i] /\ (<<t, i>> \in port => <<t, i>> \in port')
  BY <1>3, <1>4, <1>5, <1>6
<1> QED
  BY <1>5, <1>6, <1>7 DEF PodOnly

LEMMA StoppedTyped ==
  ASSUME Typed, NEW h \in Handler, RollbackDone(h) \/ DetachPodPorts(h)
  PROVE  Typed'
<1>1. UNCHANGED <<proc, ready, failed, byPod, attached, prepared, conn>>
      /\ task' = [task EXCEPT ![h] = Idle]
  BY DEF RollbackDone, DetachPodPorts, storeVars
<1>2. task' \in [Handler -> Task] /\ \A g \in Handler : Shape(g)'
  BY <1>1, EndedTyped, Zenon
<1>3. TypeOK /\ task[h].s \in Sandbox
  BY DEF Typed, Shape, RollbackDone, DetachPodPorts
<1>4. link' \in [Sandbox -> [Iface -> {"none", "host", "pod"}]] /\ port' \subseteq port
  BY RollbackOnly, PortsOnly DEF PodOnly
<1>5. box' = IF h = "nri" THEN [box EXCEPT ![task[h].s] = "stopped"] ELSE box
  BY Zenon DEF RollbackDone, DetachPodPorts
<1>6. box' \in [Sandbox -> {"none", "starting", "running", "stopping", "stopped"}]
  BY <1>3, <1>5 DEF TypeOK
<1>7. clean' \subseteq clean \cup {task[h].s}
  BY Zenon DEF RollbackDone, DetachPodPorts
<1>8. TypeOK'
  BY <1>1, <1>2, <1>3, <1>4, <1>6, <1>7 DEF TypeOK
<1> QED
  BY <1>1, <1>2, <1>8 DEF Typed

\* The process, its connection and the claims.
LEMMA StartTyped ==
  ASSUME Typed, StartServing \/ startNRIPlugin
  PROVE  Typed'
<1>1. UNCHANGED <<ready, failed, attached, task, prepared, conn, box, link, port, clean>>
  BY DEF StartServing, startNRIPlugin, storeVars, nodeVars
<1>2. proc # "up" /\ proc' \in {"serving", "up"}
  BY DEF StartServing, startNRIPlugin
<1>3. TypeOK
  BY DEF Typed
<1>4. \A g \in Handler : task'[g] = Idle
  BY <1>1, <1>2 DEF Typed, Shape
<1>5. \A g \in Handler : Shape(g)'
  BY <1>4, ShapeKept DEF Typed
<1>6. byPod' \subseteq UNION {NICsOf(p) : p \in Pod}
  BY <1>3 DEF StartServing, startNRIPlugin, storeVars, TypeOK
<1>7. TypeOK'
  BY <1>1, <1>2, <1>3, <1>6 DEF TypeOK
<1>8. conn' = "down"
  BY <1>1, <1>2 DEF Typed
<1> QED
  BY <1>1, <1>5, <1>7, <1>8 DEF Typed

LEMMA UnattendedType ==
  ASSUME TypeOK, box' = [s \in Sandbox |-> Unattended(box[s])], link' = LinksAfter(link, box')
  PROVE  /\ box' \in [Sandbox -> {"none", "starting", "running", "stopping", "stopped"}]
         /\ \A s \in Sandbox : /\ box'[s] \in {"starting", "running", "stopping"} => Live(s)
                               /\ box[s] = "stopped" => box'[s] = "stopped"
                               /\ box[s] # "none" => box'[s] # "none"
         /\ link' \in [Sandbox -> [Iface -> {"none", "host", "pod"}]]
         /\ \A t \in Sandbox : box'[t] # "stopped" => \A i \in Iface : link'[t][i] = link[t][i]
<1>1. /\ box' \in [Sandbox -> {"none", "starting", "running", "stopping", "stopped"}]
      /\ \A s \in Sandbox : /\ box'[s] \in {"starting", "running", "stopping"} => Live(s)
                            /\ box[s] = "stopped" => box'[s] = "stopped"
                            /\ box[s] # "none" => box'[s] # "none"
  BY DEF TypeOK, Unattended, Live
<1>2. link \in [Sandbox -> [Iface -> {"none", "host", "pod"}]]
  BY DEF TypeOK
<1> QED
  BY <1>1, <1>2, LinksAfterType DEF Live

LEMMA CrashTyped ==
  ASSUME Typed, Crash
  PROVE  Typed'
<1>1. /\ proc' = "down" /\ ready' = FALSE /\ failed' = {} /\ byPod' = {} /\ attached' = {} /\ conn' = "down"
      /\ task' = [h \in Handler |-> Idle]
      /\ UNCHANGED <<prepared, port, clean>>
  BY DEF Crash
<1>2. TypeOK
  BY DEF Typed
<1>3. /\ box' \in [Sandbox -> {"none", "starting", "running", "stopping", "stopped"}]
      /\ link' \in [Sandbox -> [Iface -> {"none", "host", "pod"}]]
  BY <1>2, UnattendedType DEF Crash
<1>4. task' \in [Handler -> Task] /\ \A g \in Handler : task'[g] = Idle
  BY <1>1, IdleType
<1>5. \A g \in Handler : Shape(g)'
  BY <1>4, ShapeKept DEF Typed
<1>6. ready' \in BOOLEAN
  BY <1>1, Zenon
<1>7. TypeOK'
  BY <1>1, <1>2, <1>3, <1>4, <1>6 DEF TypeOK
<1> QED
  BY <1>1, <1>5, <1>7 DEF Typed

\* The request that outlives its connection is the late one from then on.
LEMMA LostFields ==
  ASSUME Typed, ConnectionLost
  PROVE  /\ task' \in [Handler -> Task]
         /\ task'["nri"] = Idle /\ task'["retry"] = task["retry"]
         /\ task'["late"] = IF Busy("nri") THEN task["nri"] ELSE task["late"]
  BY IdleType DEF Typed, TypeOK, Shape, ConnectionLost, Handler

LEMMA LostTyped ==
  ASSUME Typed, ConnectionLost
  PROVE  Typed'
<1>1. /\ conn' = "down" /\ ready' = FALSE
      /\ UNCHANGED <<proc, failed, byPod, attached, prepared, port, clean>>
  BY DEF ConnectionLost, storeVars
<1>2. TypeOK /\ Shape("nri") /\ Shape("late") /\ Shape("retry")
  BY DEF Typed, Handler
<1>3. /\ box' \in [Sandbox -> {"none", "starting", "running", "stopping", "stopped"}]
      /\ link' \in [Sandbox -> [Iface -> {"none", "host", "pod"}]]
  BY <1>2, UnattendedType DEF ConnectionLost
<1>4. /\ task' \in [Handler -> Task]
      /\ task'["nri"] = Idle /\ task'["retry"] = task["retry"]
      /\ task'["late"] = task["nri"] \/ task'["late"] = task["late"]
  BY LostFields, Zenon
<1>5. Shape("late")'
  <2>1. CASE task'["late"] = task["nri"]
    BY <1>1, <1>2, <2>1 DEF Shape, Busy, Attaching, Detaching
  <2>2. CASE task'["late"] = task["late"]
    BY <1>1, <1>2, <2>2 DEF Shape, Busy, Attaching, Detaching
  <2> QED
    BY <1>4, <2>1, <2>2
<1>6. Shape("retry")'
  BY <1>1, <1>2, <1>4 DEF Shape, Busy, Attaching, Detaching
<1>7. Shape("nri")'
  <2>1. /\ Idle.op = "none" /\ Idle.boxes = {} /\ Idle.s = None /\ Idle.nic = None
        /\ Idle.taken = {} /\ Idle.step = "pick" /\ Idle.err = FALSE
    BY DEF Idle
  <2> QED
    BY <1>4, <2>1 DEF Shape, Busy, Attaching, Detaching
<1>8. ready' \in BOOLEAN
  BY <1>1, Zenon
<1>9. TypeOK'
  BY <1>1, <1>2, <1>3, <1>4, <1>8 DEF TypeOK
<1> QED
  BY <1>1, <1>5, <1>6, <1>7, <1>9 DEF Typed, Handler

LEMMA ClaimTyped ==
  ASSUME Typed, NEW p \in Pod, PrepareClaim(p) \/ UnprepareClaim(p)
  PROVE  Typed'
<1>1. UNCHANGED <<proc, ready, failed, attached, task, conn, box, link, port, clean>>
  BY DEF PrepareClaim, UnprepareClaim, nodeVars
<1>2. TypeOK
  BY DEF Typed
<1>3. byPod' \subseteq UNION {NICsOf(q) : q \in Pod} /\ prepared' \subseteq Pod
  BY <1>2 DEF PrepareClaim, UnprepareClaim, RemoveClaim, TypeOK
<1>4. \A g \in Handler : Shape(g)'
  BY <1>1, ShapeKept DEF Typed
<1>5. TypeOK'
  BY <1>1, <1>2, <1>3 DEF TypeOK
<1> QED
  BY <1>1, <1>4, <1>5 DEF Typed

\* A request of the runtime.
LEMMA RunFields ==
  ASSUME Typed, NEW s \in Sandbox, proc = "up", proc' = proc, NEW todo \in SUBSET Iface,
         task' = [task EXCEPT !["nri"] = [Idle EXCEPT !.op = "run", !.s = s, !.step = "next", !.todo = todo]]
  PROVE  /\ task' \in [Handler -> Task]
         /\ \A g \in Handler \ {"nri"} : task'[g] = task[g]
         /\ task'["nri"].op = "run" /\ task'["nri"].s = s /\ task'["nri"].step = "next"
         /\ task'["nri"].todo = todo /\ task'["nri"].boxes = {} /\ task'["nri"].err = FALSE
         /\ \A g \in Handler : Shape(g)'
<1> USE SandboxAssumption DEF SandboxAssumption
<1> DEFINE t == [Idle EXCEPT !.op = "run", !.s = s, !.step = "next", !.todo = todo]
<1>1. t \in Task /\ "nri" \in Handler
  BY IdleType, Zenon DEF Task, Handler
<1>2. /\ t.op = "run" /\ t.s = s /\ t.step = "next" /\ t.todo = todo
      /\ t.boxes = {} /\ t.nic = None /\ t.taken = {} /\ t.err = FALSE
  BY DEF Idle
<1>3. task' = [task EXCEPT !["nri"] = t]
  OBVIOUS
<1> HIDE DEF t
<1>4. /\ task' \in [Handler -> Task]
      /\ \A g \in Handler \ {"nri"} : task'[g] = task[g]
      /\ task'["nri"] = t
      /\ Shape("nri")' => \A g \in Handler : Shape(g)'
  BY <1>1, <1>3, TaskTyped, Zenon
<1>5. Shape("nri")'
  BY <1>2, <1>4, Zenon DEF Shape, Busy, Attaching, Detaching
<1> QED
  BY <1>2, <1>4, <1>5, Zenon

LEMMA StopFields ==
  ASSUME Typed, NEW s \in Sandbox, proc = "up", proc' = proc,
         task' = [task EXCEPT !["nri"] = [Idle EXCEPT !.op = "stop", !.s = s, !.step = "take"]]
  PROVE  /\ task' \in [Handler -> Task]
         /\ \A g \in Handler \ {"nri"} : task'[g] = task[g]
         /\ task'["nri"].op = "stop" /\ task'["nri"].s = s /\ task'["nri"].step = "take"
         /\ task'["nri"].boxes = {} /\ task'["nri"].err = FALSE
         /\ \A g \in Handler : Shape(g)'
<1> USE SandboxAssumption DEF SandboxAssumption
<1> DEFINE t == [Idle EXCEPT !.op = "stop", !.s = s, !.step = "take"]
<1>1. t \in Task /\ "nri" \in Handler
  BY IdleType, Zenon DEF Task, Handler
<1>2. /\ t.op = "stop" /\ t.s = s /\ t.step = "take"
      /\ t.boxes = {} /\ t.nic = None /\ t.taken = {} /\ t.err = FALSE
  BY DEF Idle
<1>3. task' = [task EXCEPT !["nri"] = t]
  OBVIOUS
<1> HIDE DEF t
<1>4. /\ task' \in [Handler -> Task]
      /\ \A g \in Handler \ {"nri"} : task'[g] = task[g]
      /\ task'["nri"] = t
      /\ Shape("nri")' => \A g \in Handler : Shape(g)'
  BY <1>1, <1>3, TaskTyped, Zenon
<1>5. Shape("nri")'
  BY <1>2, <1>4, Zenon DEF Shape, Busy, Attaching, Detaching
<1> QED
  BY <1>2, <1>4, <1>5, Zenon

LEMMA RequestTyped ==
  ASSUME Typed, NEW s \in Sandbox, RunPodSandbox(s) \/ StopPodSandbox(s)
  PROVE  Typed'
<1>1. UNCHANGED <<proc, ready, byPod, attached, prepared, conn, port, clean>>
  BY DEF RunPodSandbox, StopPodSandbox, storeVars, nodeVars
<1>2. TypeOK
  BY DEF Typed
<1>3. box' \in [Sandbox -> {"none", "starting", "running", "stopping", "stopped"}]
  BY <1>2 DEF TypeOK, RunPodSandbox, StopPodSandbox
<1>4. failed' \subseteq failed
  BY DEF RunPodSandbox, StopPodSandbox
<1>5. link' \in [Sandbox -> [Iface -> {"none", "host", "pod"}]]
  <2>1. link \in [Sandbox -> [Iface -> {"none", "host", "pod"}]]
    BY <1>2 DEF TypeOK
  <2>2. link' = link \/ link' = LinksAfter(link, box')
    BY DEF RunPodSandbox, StopPodSandbox, nodeVars
  <2> QED
    BY <2>1, <2>2, LinksAfterType
<1>6. task' \in [Handler -> Task] /\ \A g \in Handler : Shape(g)'
  <2>1. CASE UNCHANGED task
    <3>1. task' \in [Handler -> Task]
      BY <1>2, <2>1 DEF TypeOK
    <3> QED
      BY <1>1, <2>1, <3>1, ShapeKept DEF Typed
  <2>2. CASE conn = "up" /\ RunPodSandbox(s) /\ ~UNCHANGED task
    <3> DEFINE todo == {n.iface : n \in Specs(byPod, PodOf[s])}
    <3>1. task' = [task EXCEPT !["nri"] = [Idle EXCEPT !.op = "run", !.s = s, !.step = "next", !.todo = todo]]
      BY <2>2, Zenon DEF RunPodSandbox
    <3>2. todo \in SUBSET Iface
      BY <1>2, SpecsType, SandboxAssumption DEF SandboxAssumption
    <3>3. proc = "up" /\ proc' = proc
      BY <1>1, <2>2 DEF Typed
    <3> HIDE DEF todo
    <3> QED
      BY <3>1, <3>2, <3>3, RunFields, Zenon
  <2>3. CASE conn = "up" /\ StopPodSandbox(s) /\ ~UNCHANGED task
    <3>1. task' = [task EXCEPT !["nri"] = [Idle EXCEPT !.op = "stop", !.s = s, !.step = "take"]]
      BY <2>3, Zenon DEF StopPodSandbox
    <3>2. proc = "up" /\ proc' = proc
      BY <1>1, <2>3 DEF Typed
    <3> QED
      BY <3>1, <3>2, StopFields, Zenon
  <2> QED
    BY <2>1, <2>2, <2>3 DEF RunPodSandbox, StopPodSandbox
<1>7. TypeOK'
  BY <1>1, <1>2, <1>3, <1>4, <1>5, <1>6 DEF TypeOK
<1> QED
  BY <1>1, <1>6, <1>7 DEF Typed

LEMMA InitTyped == Init => Typed
<1> SUFFICES ASSUME Init PROVE Typed
  OBVIOUS
<1>1. /\ proc = "down" /\ ready = FALSE /\ failed = {} /\ byPod = {} /\ attached = {} /\ prepared = {}
      /\ conn = "down" /\ port = {} /\ clean = {} /\ box = [s \in Sandbox |-> "none"]
      /\ link = [s \in Sandbox |-> [i \in Iface |-> "none"]] /\ task = [h \in Handler |-> Idle]
  BY DEF Init
<1>2. task \in [Handler -> Task] /\ \A h \in Handler : task[h] = Idle
  BY <1>1, IdleType
<1>3. \A h \in Handler : /\ task[h].op = "none" /\ task[h].boxes = {} /\ task[h].s = None
                         /\ task[h].nic = None /\ task[h].taken = {}
                         /\ task[h].step = "pick" /\ task[h].err = FALSE
  BY <1>2 DEF Idle
<1>4. ready \in BOOLEAN
  BY <1>1, Zenon
<1>5. TypeOK
  BY <1>1, <1>2, <1>4 DEF TypeOK
<1>6. \A h \in Handler : Shape(h)
  BY <1>2, <1>3 DEF Shape, Busy, Attaching, Detaching
<1> QED
  BY <1>1, <1>5, <1>6 DEF Typed

LEMMA NextTyped ==
  ASSUME Typed, Next
  PROVE  Typed'
<1>1. ASSUME NEW h \in Handler,
             createVethPair(h) \/ moveIntoNetns(h) \/ attachToOVS(h) \/ MarkNIC(h)
      PROVE  Typed'
  BY <1>1, CreateEffect, MoveEffect, PortEffect, MarkEffect, AttachTyped
<1>2. ASSUME NEW h \in Handler, TakeNICs(h) \/ Detach(h) PROVE Typed'
  BY <1>2, TakeEffect, DeleteEffect, DetachTyped
<1>3. ASSUME NEW h \in Handler,
             \/ SyncDone(h) \/ syncSandbox(h) \/ SyncSandboxDone(h) \/ RunDone(h)
             \/ RollbackDone(h) \/ DetachPodPorts(h)
      PROVE  Typed'
  BY <1>3, DoneTyped, SandboxTyped, StoppedTyped
<1>4. ASSUME RetryDone PROVE Typed'
  BY <1>4, DoneTyped DEF Handler
<1>5. ASSUME NEW s \in Sandbox, RunPodSandbox(s) \/ StopPodSandbox(s) PROVE Typed'
  BY <1>5, RequestTyped
<1>6. ASSUME NEW p \in Pod, PrepareClaim(p) \/ UnprepareClaim(p) PROVE Typed'
  BY <1>6, ClaimTyped
<1> QED
  BY <1>1, <1>2, <1>3, <1>4, <1>5, <1>6, StartTyped, CrashTyped, BeginTyped, LostTyped DEF Next

LEMMA StutterTyped == Typed /\ UNCHANGED vars => Typed'
<1> SUFFICES ASSUME Typed, UNCHANGED vars PROVE Typed'
  OBVIOUS
<1>1. UNCHANGED <<proc, ready, failed, byPod, attached, task, prepared, conn, box, link, port, clean>>
  BY DEF vars, storeVars, nodeVars
<1>2. \A h \in Handler : Shape(h)'
  BY <1>1, ShapeKept DEF Typed
<1>3. TypeOK'
  BY <1>1 DEF Typed, TypeOK
<1> QED
  BY <1>1, <1>2, <1>3 DEF Typed

\* The NRI plugin and its sandbox handler: with any number of handlers at work at the
\* same time and stops that the runtime repeats, every variable keeps its type.  In
\* particular a handler that outlives its connection, or reads the failed sandboxes
\* while another one changes them, works on known sandboxes and NICs only.
THEOREM NriTypesAlways == Spec => []TypeOK
<1>1. Typed /\ [Next]_vars => Typed'
  BY NextTyped, StutterTyped
<1>2. Typed => TypeOK
  BY DEF Typed
<1> QED
  BY <1>1, <1>2, InitTyped, PTL DEF Spec

=============================================================================
