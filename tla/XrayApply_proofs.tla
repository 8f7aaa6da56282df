-------------------------- MODULE XrayApply_proofs --------------------------
(***************************************************************************)
(* Proofs about XrayApply, for any ports, routes and backends, and for any *)
(* kinds and number of faults: the types, that nothing is committed that   *)
(* the node has not loaded, that config.json and the node serve what the   *)
(* database says (ServesDatabase), that the steps of an apply implement    *)
(* the atomic one (AppliesAtomically), that what a remote node has not     *)
(* loaded is marked (LoadedOrMarked), and that one crash is mended by the  *)
(* boot (BootRepairs).                                                     *)
(***************************************************************************)
EXTENDS XrayApply, TLAPS

Kinds == FaultKinds \cup {"apart"}
Panels == {"down", "boot", "bootDisable", "bootWrite", "up"}
Counts == [faults : 0..MaxFaults, ops : 0..MaxOps, env : 0..MaxEnv]

\* The part of TypeOK that the end and the failure of a job are about.
Moved == /\ job' \in Job \cup {Free}
         /\ panel' \in Panels
         /\ met' \subseteq Kinds
         /\ used' \in Counts

\* A fault is noted and counted within the bound.
LEMMA FaultTyped ==
  ASSUME TypeOK, NEW kind, Fault(kind)
  PROVE  met' \subseteq Kinds /\ used' \in Counts
BY ApplyAssumption DEF TypeOK, Fault, Counts, Kinds

\* Without a fault the account of faults stays.
LEMMA NoFaultTyped ==
  ASSUME TypeOK, NoFault
  PROVE  met' \subseteq Kinds /\ used' \in Counts
BY DEF TypeOK, NoFault, Counts, Kinds

\* A job that goes on to another step is a job.
LEMMA PcTyped ==
  ASSUME NEW j \in Job, NEW pc \in Pcs
  PROVE  [j EXCEPT !.pc = pc] \in Job
BY DEF Job

\* A job that has tried a restart is a job.
LEMMA LoadedTyped ==
  ASSUME NEW j \in Job, NEW pc \in Pcs, NEW b \in BOOLEAN
  PROVE  [j EXCEPT !.pc = pc, !.loaded = b] \in Job
BY DEF Job

\* A job that has compared configurations is a job.
LEMMA ChangedTyped ==
  ASSUME NEW j \in Job, NEW pc \in Pcs, NEW b \in BOOLEAN
  PROVE  [j EXCEPT !.changed = b, !.pc = pc] \in Job
BY DEF Job

\* A job that begins is a job.
LEMMA NewJobTyped ==
  ASSUME TypeOK, NEW kind \in PanelKinds \cup {"manager"}, NEW pc \in Pcs,
         NEW work \in SUBSET Ports, NEW renewed \in SUBSET Ports
  PROVE  NewJob(kind, pc, work, renewed) \in Job
BY DEF TypeOK, Files, NewJob, Job

\* The beginning of a job keeps the types.
LEMMA BeginTyped ==
  ASSUME TypeOK, NEW kind \in PanelKinds \cup {"manager"}, NEW pc \in Pcs,
         NEW work \in SUBSET Ports, NEW renewed \in SUBSET Ports,
         Begin(kind, pc, work, renewed)
  PROVE  job' \in Job /\ met' \subseteq Kinds
<1>1. job' \in Job
  BY NewJobTyped DEF Begin
<1>2. met' \subseteq Kinds
  <2> DEFINE noted == {k \in {"apart"} : mode = "ssh" /\ ~marker /\ ~InStep}
  <2>1. met \subseteq Kinds
    BY DEF TypeOK, Kinds
  <2>2. noted \subseteq Kinds
    BY DEF Kinds
  <2>3. met' = met \cup noted
    BY DEF Begin
  <2> QED BY <2>1, <2>2, <2>3
<1> QED BY <1>1, <1>2

\* The three ways a step of a job leaves it.
LEMMA GotoTyped ==
  ASSUME TypeOK, job # Free, NEW pc \in Pcs, Goto(pc)
  PROVE  job' \in Job
BY PcTyped DEF TypeOK, Goto

\* A job that ends frees the lock.
LEMMA DoneTyped ==
  ASSUME TypeOK, Done
  PROVE  job' = Free /\ panel' \in Panels
BY DEF TypeOK, Done, Panels

\* A job that raises frees the lock.
LEMMA RaiseTyped ==
  ASSUME TypeOK, Raise
  PROVE  job' = Free /\ panel' \in Panels
BY DEF TypeOK, Raise, Panels

\* A step that fails rolls back or raises.
LEMMA FailsTyped ==
  ASSUME TypeOK, job # Free, Fails
  PROVE  Moved
<1>1. met' \subseteq Kinds /\ used' \in Counts
  BY FaultTyped DEF Fails, StepFault
<1>2. CASE Goto("undo") /\ UNCHANGED panel
  BY <1>1, <1>2, GotoTyped DEF Moved, Pcs, TypeOK, Panels
<1>3. CASE Raise
  BY <1>1, <1>3, RaiseTyped DEF Moved
<1> QED BY <1>2, <1>3 DEF Fails

\* What is rendered is a configuration.
LEMMA RenderedTyped ==
  ASSUME NEW ports \in SUBSET Ports, NEW route \in Routes
  PROVE  Rendered(ports, route) \in Config
BY DEF Rendered, Config

\* What a restart loads is a configuration.
LEMMA NodeConfTyped ==
  ASSUME TypeOK
  PROVE  NodeConf \in Config
BY DEF TypeOK, NodeConf, Files

\* The model is type-correct for any ports, routes, backends, faults and bounds.
THEOREM TypeCorrect == Spec => []TypeOK
<1>1. Init => TypeOK
  <2> SUFFICES ASSUME Init
               PROVE  TypeOK
    OBVIOUS
  <2>1. PICK ports \in SUBSET Ports :
          /\ db = [enabled |-> ports, spent |-> {}]
          /\ running = Rendered(ports, "direct")
          /\ files = [ports |-> ports, route |-> "direct", conf |-> running]
    BY DEF Init
  <2>2. running \in Config
    BY <2>1, RenderedTyped, ApplyAssumption
  <2>3. files \in Files /\ remote \in Files
    BY <2>1, <2>2, ApplyAssumption DEF Init, Files
  <2>4. used \in [faults : 0..MaxFaults, ops : 0..MaxOps, env : 0..MaxEnv]
    BY ApplyAssumption DEF Init
  <2>5. mode \in {"ssh", "docker"} /\ wanted \in Routes
    BY ApplyAssumption DEF Init
  <2> QED BY <2>1, <2>2, <2>3, <2>4, <2>5 DEF Init, TypeOK
<1>2. TypeOK /\ [Next]_vars => TypeOK'
  <2> SUFFICES ASSUME TypeOK, [Next]_vars
               PROVE  TypeOK'
    OBVIOUS
  <2> USE DEF TypeOK
  <2>1. ASSUME NEW pc \in Pcs, Goto(pc), job # Free, UNCHANGED panel, NoFault
        PROVE  Moved
    BY <2>1, GotoTyped, NoFaultTyped DEF Moved, Panels
  <2>2. ASSUME Done, NoFault
        PROVE  Moved
    BY <2>2, DoneTyped, NoFaultTyped DEF Moved
  <2>3. ASSUME Raise, NoFault
        PROVE  Moved
    BY <2>3, RaiseTyped, NoFaultTyped DEF Moved
  <2>4. ASSUME NEW kind \in PanelKinds \cup {"manager"}, NEW pc \in Pcs,
               NEW work \in SUBSET Ports, NEW renewed \in SUBSET Ports,
               Begin(kind, pc, work, renewed)
        PROVE  job' \in Job /\ met' \subseteq Kinds
    BY <2>4, BeginTyped
  <2>5. CASE BeginMutation
    <3>1. PICK p \in Ports :
            \/ Begin("mutation", "inputs",
                     (db.enabled \cup {p}) \ (db.spent \ {p}), {p})
            \/ Begin("mutation", "inputs", (db.enabled \ {p}) \ db.spent, {})
      BY <2>5 DEF BeginMutation
    <3>2. job' \in Job /\ met' \subseteq Kinds
      <4>1. /\ (db.enabled \cup {p}) \ (db.spent \ {p}) \in SUBSET Ports
            /\ (db.enabled \ {p}) \ db.spent \in SUBSET Ports
            /\ {p} \in SUBSET Ports /\ {} \in SUBSET Ports
        OBVIOUS
      <4>2. "mutation" \in PanelKinds /\ "inputs" \in Pcs
        BY DEF PanelKinds, Pcs
      <4> QED BY <2>4, <3>1, <4>1, <4>2
    <3>3. used' \in Counts
      BY <2>5, ApplyAssumption DEF BeginMutation, Counts
    <3> QED BY <2>5, <3>2, <3>3 DEF BeginMutation, Counts, Kinds
  <2>6. CASE BeginDisable
    <3>1. job' \in Job /\ met' \subseteq Kinds
      <4>1. Begin("mutation", "inputs", db.enabled \ db.spent, {})
        BY <2>6 DEF BeginDisable
      <4>2. db.enabled \ db.spent \in SUBSET Ports /\ {} \in SUBSET Ports
        OBVIOUS
      <4>3. "mutation" \in PanelKinds /\ "inputs" \in Pcs
        BY DEF PanelKinds, Pcs
      <4> QED BY <2>4, <4>1, <4>2, <4>3
    <3> QED BY <2>6, <3>1 DEF BeginDisable, Kinds
  <2>7. CASE BeginModeSync
    <3>1. job' \in Job /\ met' \subseteq Kinds
      BY <2>4, <2>7 DEF BeginModeSync, PanelKinds, Pcs
    <3>2. used' \in Counts
      BY <2>7, ApplyAssumption DEF BeginModeSync, Counts
    <3> QED BY <2>7, <3>1, <3>2 DEF BeginModeSync, Counts, Kinds
  <2>8. CASE BeginManager
    <3>1. job' \in Job /\ met' \subseteq Kinds
      BY <2>4, <2>8 DEF BeginManager, Pcs
    <3>2. used' \in Counts
      BY <2>8, ApplyAssumption DEF BeginManager, Counts
    <3>3. files' \in Files
      BY <2>8 DEF BeginManager, Files
    <3> QED BY <2>8, <3>1, <3>2, <3>3 DEF BeginManager, Counts, Kinds
  <2>9. CASE Restart
    BY <2>9 DEF Restart, NoFault
  <2>10. CASE BootCleanup
    BY <2>10 DEF BootCleanup, NoFault
  <2>11. CASE BootDisable
    <3>1. job' \in Job \cup {Free} /\ met' \subseteq Kinds
      <4>1. CASE Begin("bootDisable", "inputs", db.enabled \ db.spent, {})
        <5>1. "bootDisable" \in PanelKinds /\ "inputs" \in Pcs
          BY DEF PanelKinds, Pcs
        <5>2. db.enabled \ db.spent \in SUBSET Ports /\ {} \in SUBSET Ports
          OBVIOUS
        <5> QED BY <2>4, <4>1, <5>1, <5>2
      <4>2. CASE UNCHANGED <<job, met>>
        BY <4>2 DEF Kinds
      <4> QED BY <2>11, <4>1, <4>2 DEF BootDisable
    <3> QED BY <2>11, <3>1 DEF BootDisable, Kinds
  <2>12. CASE BootWrite
    <3>1. job' \in Job \cup {Free} /\ met' \subseteq Kinds
      <4>1. CASE Begin("bootWrite", "inputs", db.enabled, {})
        <5>1. "bootWrite" \in PanelKinds /\ "inputs" \in Pcs
          BY DEF PanelKinds, Pcs
        <5>2. db.enabled \in SUBSET Ports /\ {} \in SUBSET Ports
          OBVIOUS
        <5> QED BY <2>4, <4>1, <5>1, <5>2
      <4>2. CASE UNCHANGED <<job, met>>
        BY <4>2 DEF Kinds
      <4> QED BY <2>12, <4>1, <4>2 DEF BootWrite
    <3> QED BY <2>12, <3>1 DEF BootWrite, Kinds
  <2>13. CASE WritePorts
    <3>1. job # Free /\ job \in Job
      BY <2>13 DEF WritePorts, At
    <3>2. Moved
      BY <2>1, <2>13, <3>1 DEF WritePorts, Pcs
    <3>3. files' \in Files
      BY <2>13, <3>1 DEF WritePorts, Files, Job
    <3> QED BY <2>13, <3>2, <3>3 DEF WritePorts, Moved, Counts, Kinds, Panels
  <2>14. CASE Render
    <3>1. PICK pulled \in BOOLEAN :
            /\ IF pulled THEN NoFault
               ELSE mode = "ssh" /\ job.kind # "manager" /\ Fault("pull")
            /\ files' = [files EXCEPT
                  !.route = RouteToRender(pulled),
                  !.conf = Rendered(files.ports, RouteToRender(pulled))]
      BY <2>14 DEF Render
    <3>2. RouteToRender(pulled) \in Routes
      BY DEF RouteToRender, Files
    <3>3. files' \in Files
      BY <3>1, <3>2, RenderedTyped DEF Files
    <3>4. met' \subseteq Kinds /\ used' \in Counts
      BY <3>1, NoFaultTyped, FaultTyped
    <3>5. job' \in Job \cup {Free} /\ panel' \in Panels
      BY <2>14, GotoTyped, DoneTyped DEF Render, At, AfterRender, Pcs, Panels
    <3> QED BY <2>14, <3>3, <3>4, <3>5 DEF Render, Counts, Kinds, Panels
  <2>15. CASE RenderFails
    <3>1. Moved
      BY <2>15, FailsTyped DEF RenderFails, At
    <3>2. RouteToRender(TRUE) \in Routes
      BY DEF RouteToRender, Files
    <3>3. PICK conf \in {files.conf, Rendered(files.ports, RouteToRender(TRUE))} :
            /\ files' = [files EXCEPT !.route = RouteToRender(TRUE), !.conf = conf]
            /\ marker' = (marker \/ (job.kind = "manager" /\ conf # files.conf))
      BY <2>15, Zenon DEF RenderFails
    <3>4. conf \in Config
      <4>1. files.conf \in Config /\ files.ports \in SUBSET Ports
        BY DEF Files
      <4>2. Rendered(files.ports, RouteToRender(TRUE)) \in Config
        BY <3>2, <4>1, RenderedTyped
      <4> QED BY <3>3, <4>1, <4>2
    <3>5. files' \in Files /\ marker' \in BOOLEAN
      <4>1. files' \in Files
        BY <3>2, <3>3, <3>4 DEF Files
      <4>2. marker' \in BOOLEAN
        <5>1. marker' = TRUE \/ marker' = FALSE
          BY <3>3, Zenon
        <5> QED BY <5>1
      <4> QED BY <4>1, <4>2
    <3> QED BY <2>15, <3>1, <3>5 DEF RenderFails, Moved, Counts, Kinds, Panels
  <2>16. CASE Mark
    <3> DEFINE changed == files.conf # job.prev.conf \/ marker
               next == IF mode = "ssh" THEN "pushConf" ELSE "decide"
    <3>1. changed \in BOOLEAN /\ next \in Pcs /\ job \in Job
      BY <2>16 DEF Mark, At, Pcs
    <3>2. marker' = changed /\ job' = [job EXCEPT !.changed = changed, !.pc = next]
      BY <2>16 DEF Mark
    <3> HIDE DEF changed, next
    <3>3. job' \in Job
      BY <3>1, <3>2, ChangedTyped
    <3>4. marker' \in BOOLEAN
      BY <3>1, <3>2
    <3> QED BY <2>16, <3>3, <3>4 DEF Mark, NoFault
  <2>17. CASE PushConf
    <3> DEFINE changed == job.changed \/ remote.conf # files.conf
    <3>1. changed \in BOOLEAN /\ job \in Job
      BY <2>17 DEF PushConf, At
    <3>2. job' = [job EXCEPT !.changed = changed, !.pc = "pushPorts"]
      BY <2>17 DEF PushConf
    <3> HIDE DEF changed
    <3>3. job' \in Job
      BY <3>1, <3>2, ChangedTyped DEF Pcs
    <3>4. remote' \in Files
      BY <2>17 DEF PushConf, Files
    <3> QED BY <2>17, <3>3, <3>4 DEF PushConf, NoFault
  <2>18. CASE PushPorts
    <3>1. Moved
      BY <2>1, <2>18 DEF PushPorts, At, Pcs
    <3>2. remote' \in Files
      BY <2>18 DEF PushPorts, Files
    <3> QED BY <2>18, <3>1, <3>2 DEF PushPorts, Moved, Counts, Kinds, Panels
  <2>19. ASSUME AfterSync, job # Free, NoFault
         PROVE  Moved
    BY <2>1, <2>2, <2>19 DEF AfterSync, Pcs
  <2>20. CASE PushRoute
    <3>1. Moved
      BY <2>19, <2>20 DEF PushRoute, At
    <3>2. remote' \in Files
      BY <2>20 DEF PushRoute, Files
    <3> QED BY <2>20, <3>1, <3>2 DEF PushRoute, Moved, Counts, Kinds, Panels
  <2>21. CASE Test
    <3>1. Moved
      BY <2>19, <2>21 DEF Test, At
    <3> QED BY <2>21, <3>1 DEF Test, Moved, Counts, Kinds, Panels
  <2>22. CASE StepFails
    <3>1. ASSUME StepFault, Done
          PROVE  Moved
      <4>1. met' \subseteq Kinds /\ used' \in Counts
        BY <3>1, FaultTyped DEF StepFault
      <4>2. job' = Free /\ panel' \in Panels
        BY <3>1, DoneTyped
      <4> QED BY <4>1, <4>2 DEF Moved
    <3>2. job # Free /\ (Fails \/ (StepFault /\ Done))
      BY <2>22 DEF StepFails
    <3>3. Moved
      BY <3>1, <3>2, FailsTyped
    <3> QED BY <2>22, <3>3 DEF StepFails, Moved, Counts, Kinds, Panels
  <2>23. CASE RestartBackup
    <3>1. Moved
      BY <2>1, <2>23 DEF RestartBackup, At, Pcs
    <3> QED BY <2>23, <3>1 DEF RestartBackup, Moved, Counts, Kinds, Panels
  <2>24. CASE Decide
    <3>1. Moved
      BY <2>1, <2>2, <2>24 DEF Decide, At, Pcs
    <3>2. marker' \in BOOLEAN
      BY <2>24 DEF Decide, At, Job
    <3> QED BY <2>24, <3>1, <3>2 DEF Decide, Moved, Counts, Kinds, Panels
  <2>25. CASE RestartNode
    <3>1. running' \in Config
      BY <2>25, NodeConfTyped DEF RestartNode
    <3>2. job' \in Job \cup {Free} /\ panel' \in Panels
      BY <2>25, LoadedTyped, DoneTyped DEF RestartNode, At, Pcs, Panels
    <3> QED BY <2>25, <3>1, <3>2 DEF RestartNode, Panels, NoFault
  <2>26. CASE RestartNodeFails
    <3>1. running' \in Config
      BY <2>26, NodeConfTyped DEF RestartNodeFails
    <3>2. job' \in Job \cup {Free} /\ panel' \in Panels
      BY <2>26, LoadedTyped, DoneTyped, RaiseTyped
      DEF RestartNodeFails, At, Pcs, Panels
    <3>3. met' \subseteq Kinds /\ used' \in Counts
      BY <2>26, FaultTyped DEF RestartNodeFails, StepFault
    <3> QED BY <2>26, <3>1, <3>2, <3>3 DEF RestartNodeFails, Counts, Kinds,
                                           Panels
  <2>27. CASE ClearMarker
    <3>1. Moved
      BY <2>1, <2>2, <2>27 DEF ClearMarker, At, Pcs
    <3> QED BY <2>27, <3>1 DEF ClearMarker, Moved, Counts, Kinds, Panels
  <2>28. CASE Commit
    <3>1. Moved
      BY <2>2, <2>28 DEF Commit
    <3>2. job \in Job
      BY <2>28 DEF Commit, At
    <3>3. db' \in [enabled : SUBSET Ports, spent : SUBSET Ports]
      BY <2>28, <3>2 DEF Commit, Job
    <3> QED BY <2>28, <3>1, <3>3 DEF Commit, Moved, Counts, Kinds, Panels
  <2>29. CASE UndoPortsFile \/ UndoConfFile
    <3>1. job \in Job /\ job # Free
      BY <2>29 DEF UndoPortsFile, UndoConfFile, UndoConfFileTo, At
    <3>2. Moved
      BY <2>1, <2>3, <2>29, <3>1
      DEF UndoPortsFile, UndoConfFile, UndoConfFileTo, At, Pcs
    <3>3. files' \in Files
      BY <2>29, <3>1 DEF UndoPortsFile, UndoConfFile, UndoConfFileTo, Files,
                         Job
    <3> QED BY <2>29, <3>2, <3>3
            DEF UndoPortsFile, UndoConfFile, UndoConfFileTo, Moved, Counts,
                Kinds, Panels
  <2>30. CASE UndoConf
    <3>1. Moved
      BY <2>1, <2>30 DEF UndoConf, At, Pcs
    <3>2. remote' \in Files
      BY <2>30 DEF UndoConf, Files
    <3> QED BY <2>30, <3>1, <3>2 DEF UndoConf, Moved, Counts, Kinds, Panels
  <2>31. CASE UndoPorts
    <3>1. Moved
      BY <2>1, <2>31 DEF UndoPorts, At, Pcs
    <3>2. remote' \in Files
      BY <2>31 DEF UndoPorts, Files
    <3> QED BY <2>31, <3>1, <3>2 DEF UndoPorts, Moved, Counts, Kinds, Panels
  <2>32. CASE UndoRoute
    <3>1. Moved
      BY <2>1, <2>3, <2>32 DEF UndoRoute, At, Pcs
    <3>2. remote' \in Files
      BY <2>32 DEF UndoRoute, Files
    <3> QED BY <2>32, <3>1, <3>2 DEF UndoRoute, Moved, Counts, Kinds, Panels
  <2>33. CASE UndoRestart
    <3>1. Moved
      BY <2>3, <2>33 DEF UndoRestart
    <3>2. running' \in Config
      BY <2>33, NodeConfTyped DEF UndoRestart
    <3> QED BY <2>33, <3>1, <3>2 DEF UndoRestart, Moved, Counts, Kinds, Panels
  <2>34. CASE UndoFails
    <3>1. Moved
      BY <2>34, FaultTyped, RaiseTyped DEF UndoFails, Moved
    <3> QED BY <2>34, <3>1 DEF UndoFails, Moved, Counts, Kinds, Panels
  <2>35. CASE PanelCrash
    BY <2>35, FaultTyped DEF PanelCrash, Counts, Kinds
  <2>36. CASE ManagerCrash
    BY <2>36, FaultTyped DEF ManagerCrash, Counts, Kinds
  <2>37. CASE NodeRestarts
    BY <2>37, FaultTyped, NodeConfTyped DEF NodeRestarts, Counts, Kinds
  <2>38. CASE Spend
    <3>1. met' \subseteq Kinds /\ used' \in Counts
      BY <2>38, FaultTyped, ApplyAssumption DEF Spend, Counts, Kinds
    <3>2. db' \in [enabled : SUBSET Ports, spent : SUBSET Ports]
      BY <2>38 DEF Spend
    <3> QED BY <2>38, <3>1, <3>2 DEF Spend, Counts, Kinds
  <2>39. CASE RouteChanges
    <3>1. used' \in Counts
      BY <2>39, ApplyAssumption DEF RouteChanges, Counts, Kinds
    <3> QED BY <2>39, <3>1 DEF RouteChanges, Counts, Kinds
  <2>40. CASE UNCHANGED vars
    BY <2>40 DEF vars
  <2> QED
    BY <2>5, <2>6, <2>7, <2>8, <2>9, <2>10, <2>11, <2>12, <2>13, <2>14, <2>15,
       <2>16, <2>17, <2>18, <2>20, <2>21, <2>22, <2>23, <2>24, <2>25, <2>26,
       <2>27, <2>28, <2>29, <2>30, <2>31, <2>32, <2>33, <2>34, <2>35, <2>36,
       <2>37, <2>38, <2>39, <2>40
    DEF Next, Forward, Backward, Failing, Booting, Beginning, Environment
<1> QED BY <1>1, <1>2, PTL DEF Spec

(***************************************************************************)
(* CommitsWhatRuns needs to know how far the new ports have come at each   *)
(* step: in the ports file, in the rendered configuration, in the node's   *)
(* copy of it, and, from the restart on, in what the node runs.            *)
(***************************************************************************)
Written == {"render", "pushConf", "pushPorts", "pushRoute", "test", "backup",
            "restart", "clear", "commit"}
AtNode == {"pushPorts", "pushRoute", "backup", "restart", "clear", "commit"}

LoadOrder ==
  job # Free /\ job.kind = "mutation" =>
    /\ panel = "up"
    /\ job.pc \notin {"mark", "decide"}
    /\ mode = "ssh" => job.pc # "test"
    /\ job.pc \in Written => files.ports \subseteq job.work
    /\ job.pc \in Written \ {"render"} => files.conf.ports \subseteq job.work
    /\ job.pc \in AtNode => NodeConf.ports \subseteq job.work
    /\ job.pc \in {"clear", "commit"} => running = NodeConf

\* The configuration that is rendered has the ports of the ports file.
LEMMA RenderedPorts ==
  ASSUME NEW ports, NEW route
  PROVE  Rendered(ports, route).ports = ports
BY DEF Rendered

\* A step that frees the lock, or leaves a job to its rollback, owes nothing.
LEMMA NothingOwed ==
  ASSUME job' = Free \/ job'.kind # "mutation"
         \/ (panel' = "up" /\ job'.pc \in {"inputs", "undo", "undoFile",
               "undoConf", "undoPorts", "undoRoute", "undoRestart"})
  PROVE  LoadOrder'
BY DEF LoadOrder, Written, AtNode

\* The last conjuncts hold on while nothing they speak of changes.
LEMMA NothingMoved ==
  ASSUME LoadOrder, UNCHANGED <<mode, files, remote, job, panel>>,
         running' = running \/ running' = NodeConf
  PROVE  LoadOrder'
BY DEF LoadOrder, NodeConf

\* A step of a job ends it or leaves it what it is.
LEMMA KindStays ==
  ASSUME TypeOK, Forward \/ Backward \/ Failing
  PROVE  job # Free /\ (job' = Free \/ job'.kind = job.kind)
<1> DEFINE Keeps == job' = Free \/ job'.kind = job.kind
<1>1. job # Free /\ job \in Job
  BY DEF TypeOK, Forward, Backward, Failing, WritePorts, Render, Mark,
         PushConf, PushPorts, PushRoute, Test, RestartBackup, Decide,
         RestartNode, ClearMarker, Commit, UndoPortsFile, UndoConfFile,
         UndoConfFileTo, UndoConf, UndoPorts, UndoRoute, UndoRestart,
         RenderFails, StepFails, RestartNodeFails, UndoFails, At
<1>2. ASSUME NEW pc, Goto(pc)
      PROVE  Keeps
  BY <1>1, <1>2 DEF Goto, Job
<1>3. ASSUME Done \/ Raise \/ Fails
      PROVE  Keeps
  BY <1>2, <1>3 DEF Done, Raise, Fails
<1>4. ASSUME AfterRender \/ AfterSync
      PROVE  Keeps
  BY <1>2, <1>3, <1>4 DEF AfterRender, AfterSync
<1>5. ASSUME WritePorts \/ Render \/ PushPorts \/ PushRoute \/ Test
      PROVE  Keeps
  BY <1>2, <1>4, <1>5 DEF WritePorts, Render, PushPorts, PushRoute, Test
<1>6. ASSUME Mark \/ PushConf \/ RestartNode
      PROVE  Keeps
  BY <1>1, <1>3, <1>6 DEF Mark, PushConf, RestartNode, Job
<1>7. ASSUME RestartBackup \/ Decide \/ ClearMarker \/ Commit
      PROVE  Keeps
  BY <1>2, <1>3, <1>7 DEF RestartBackup, Decide, ClearMarker, Commit
<1>8. ASSUME Backward
      PROVE  Keeps
  BY <1>2, <1>3, <1>8
  DEF Backward, UndoPortsFile, UndoConfFile, UndoConfFileTo, UndoConf,
      UndoPorts, UndoRoute, UndoRestart
<1>9. ASSUME RenderFails \/ StepFails \/ UndoFails
      PROVE  Keeps
  BY <1>3, <1>9 DEF RenderFails, StepFails, UndoFails
<1>10. ASSUME RestartNodeFails
       PROVE  Keeps
  BY <1>1, <1>3, <1>10 DEF RestartNodeFails, Job
<1>11. Keeps
  <2> HIDE DEF Keeps
  <2> QED BY <1>5, <1>6, <1>7, <1>8, <1>9, <1>10 DEF Forward, Failing
<1> QED BY <1>1, <1>11

\* At every step of a mutation the new ports have come as far as its program
\* counter says.
THEOREM LoadOrderHolds == Spec => []LoadOrder
<1>1. Init => LoadOrder
  BY DEF Init, LoadOrder
<1>2. TypeOK /\ LoadOrder /\ [Next]_vars => LoadOrder'
  <2> SUFFICES ASSUME TypeOK, LoadOrder, [Next]_vars
               PROVE  LoadOrder'
    OBVIOUS
  <2>1. CASE BeginMutation
    BY <2>1, NothingOwed DEF BeginMutation, Begin, NewJob
  <2>2. CASE BeginDisable
    BY <2>2, NothingOwed DEF BeginDisable, Begin, NewJob
  <2>3. CASE BeginModeSync
    BY <2>3, NothingOwed DEF BeginModeSync, Begin, NewJob
  <2>4. CASE BeginManager
    BY <2>4, NothingOwed DEF BeginManager, Begin, NewJob
  <2>5. CASE Restart \/ BootCleanup
    BY <2>5 DEF Restart, BootCleanup, LoadOrder, NodeConf
  <2>6. CASE BootDisable
    BY <2>6, NothingOwed DEF BootDisable, Begin, NewJob, LoadOrder
  <2>7. CASE BootWrite
    BY <2>7, NothingOwed DEF BootWrite, Begin, NewJob, LoadOrder
  <2>8. ASSUME Forward \/ Backward \/ Failing, job.kind = "mutation"
        PROVE  LoadOrder'
    <3>1. job # Free /\ job \in Job /\ panel = "up"
      BY <2>8 DEF TypeOK, Free, LoadOrder
    <3>2. ASSUME Fails
          PROVE  LoadOrder'
      BY <2>8, <3>1, <3>2, NothingOwed DEF Fails, Transactional, Goto, Job
    <3>3. CASE WritePorts
      BY <2>8, <3>1, <3>3
      DEF WritePorts, Goto, Job, LoadOrder, Written, AtNode, TypeOK, Files
    <3>4. CASE Render
      <4>1. /\ files'.ports = files.ports
            /\ files'.conf.ports = files.ports
            /\ UNCHANGED <<mode, remote, running, panel>>
            /\ job' = [job EXCEPT !.pc = IF mode = "ssh" THEN "pushConf" ELSE "test"]
            /\ job.pc = "render"
        BY <2>8, <3>4, RenderedPorts
        DEF Render, AfterRender, Goto, At, TypeOK, Files
      <4> QED BY <2>8, <3>1, <4>1 DEF LoadOrder, Written, AtNode, Job
    <3>5. CASE PushConf
      BY <2>8, <3>1, <3>5
      DEF PushConf, At, Job, LoadOrder, Written, AtNode, NodeConf, TypeOK,
          Files
    <3>6. CASE PushPorts
      BY <2>8, <3>1, <3>6
      DEF PushPorts, At, Goto, Job, LoadOrder, Written, AtNode, NodeConf,
          TypeOK, Files
    <3>7. CASE PushRoute
      BY <2>8, <3>1, <3>7
      DEF PushRoute, At, AfterSync, Transactional, Goto, Job, LoadOrder,
          Written, AtNode, NodeConf, TypeOK, Files
    <3>8. CASE Test
      BY <2>8, <3>1, <3>8
      DEF Test, At, AfterSync, Transactional, Goto, Job, LoadOrder, Written,
          AtNode, NodeConf, TypeOK
    <3>9. CASE RestartBackup
      BY <2>8, <3>1, <3>9
      DEF RestartBackup, At, Goto, Job, LoadOrder, Written, AtNode, NodeConf
    <3>10. CASE RestartNode
      BY <2>8, <3>1, <3>10
      DEF RestartNode, At, Job, LoadOrder, Written, AtNode, NodeConf
    <3>11. CASE ClearMarker
      BY <2>8, <3>1, <3>11
      DEF ClearMarker, At, Transactional, Goto, Job, LoadOrder, Written,
          AtNode, NodeConf
    <3>12. CASE Commit
      BY <3>12, NothingOwed DEF Commit, Done
    <3>13. CASE Mark \/ Decide
      BY <2>8, <3>1, <3>13 DEF Mark, Decide, At, LoadOrder
    <3>14. CASE Backward
      BY <2>8, <3>1, <3>14, NothingOwed
      DEF Backward, UndoPortsFile, UndoConfFile, UndoConfFileTo, UndoConf,
          UndoPorts, UndoRoute, UndoRestart, Goto, Raise, Job
    <3>15. CASE RenderFails
      BY <3>2, <3>15 DEF RenderFails
    <3>16. CASE StepFails
      BY <2>8, <3>2, <3>16 DEF StepFails
    <3>17. CASE RestartNodeFails
      BY <2>8, <3>1, <3>17, NothingOwed DEF RestartNodeFails, Transactional,
                                            Job
    <3>18. CASE UndoFails
      BY <3>18, NothingOwed DEF UndoFails, Raise
    <3> QED BY <2>8, <3>3, <3>4, <3>5, <3>6, <3>7, <3>8, <3>9, <3>10, <3>11,
               <3>12, <3>13, <3>14, <3>15, <3>16, <3>17, <3>18
            DEF Forward, Failing
  <2>9. ASSUME Forward \/ Backward \/ Failing, job.kind # "mutation"
        PROVE  LoadOrder'
    BY <2>9, KindStays, NothingOwed
  <2>10. CASE PanelCrash
    BY <2>10, NothingOwed DEF PanelCrash, PanelKinds
  <2>11. CASE ManagerCrash
    BY <2>11, NothingOwed DEF ManagerCrash
  <2>12. CASE NodeRestarts
    BY <2>12, NothingMoved DEF NodeRestarts
  <2>13. CASE Spend \/ RouteChanges
    BY <2>13, NothingMoved DEF Spend, RouteChanges
  <2>14. CASE UNCHANGED vars
    BY <2>14, NothingMoved DEF vars
  <2> QED
    BY <2>1, <2>2, <2>3, <2>4, <2>5, <2>6, <2>7, <2>8, <2>9, <2>10, <2>11,
       <2>12, <2>13, <2>14 DEF Next, Booting, Beginning, Environment
<1> QED BY <1>1, <1>2, TypeCorrect, PTL DEF Spec

\* Nothing is committed that the node has not loaded, for any ports, routes
\* and faults.
THEOREM CommitsLoaded == Spec => CommitsWhatRuns
<1>1. TypeOK /\ LoadOrder /\ [Next]_vars
      => [At("commit") /\ job.kind = "mutation" /\ db'.enabled # db.enabled
          => running = NodeConf /\ running.ports \subseteq db'.enabled]_vars
  <2> SUFFICES ASSUME TypeOK, LoadOrder, [Next]_vars, At("commit"),
                      job.kind = "mutation", db'.enabled # db.enabled
               PROVE  running = NodeConf /\ running.ports \subseteq db'.enabled
    OBVIOUS
  <2>1. panel = "up" /\ running = NodeConf /\ running.ports \subseteq job.work
    BY DEF LoadOrder, At, Written, AtNode
  <2>2. Commit
    BY <2>1
    DEF Next, Forward, Backward, Failing, Booting, Beginning, Environment,
        vars, At, WritePorts, Render, Mark, PushConf, PushPorts, PushRoute,
        Test, RestartBackup, Decide, RestartNode, ClearMarker, UndoPortsFile,
        UndoConfFile, UndoConfFileTo, UndoConf, UndoPorts, UndoRoute,
        UndoRestart, RenderFails, StepFails, RestartNodeFails, UndoFails,
        Restart, BootCleanup, BootDisable, BootWrite, BeginMutation,
        BeginDisable, BeginModeSync, BeginManager, PanelCrash, ManagerCrash,
        NodeRestarts, Spend, RouteChanges, TypeOK
  <2> QED BY <2>1, <2>2 DEF Commit
<1> QED BY <1>1, LoadOrderHolds, TypeCorrect, PTL DEF Spec, CommitsWhatRuns

-----------------------------------------------------------------------------
(* What is served.                                                         *)

Undoing == {"undoFile", "undoConf", "undoPorts", "undoRoute", "undoRestart"}

\* While the panel was down nothing has fallen due.
Boots == panel # "up" => db.spent = {}

\* The jobs that are no transactions, and how far they may be.
JobShape ==
  /\ job.kind # "bootDisable"
  /\ job.kind = "modeSync" => job.pc = "render"
  /\ job.kind = "manager" =>
       job.pc \in {"render", "mark", "pushConf", "pushPorts", "pushRoute",
                   "decide", "restart", "clear"}
  /\ job.kind = "bootWrite" =>
       /\ job.pc \in {"inputs", "render", "pushConf", "pushPorts", "pushRoute",
                      "test", "restart"}
       /\ panel = "bootWrite" /\ job.work = db.enabled /\ job.renewed = {}

\* Outside a mutation the files, the node's configuration and what it has
\* loaded have the same ports, which the database says.
AtRest ==
  job.kind # "mutation" =>
    /\ files.ports = running.ports
    /\ files.conf.ports = running.ports
    /\ NodeConf.ports = running.ports
    /\ Serves(running)

\* A mutation may go back to what it found, which serves the database as it
\* is, until it has brought the new ports so far that the database as it will
\* be is served.
InMutation ==
  job.kind = "mutation" =>
    /\ Serves(job.prev)
    /\ job.prev.conf.ports = job.prev.ports
    /\ ~job.loaded => running.ports = job.prev.ports
    /\ job.pc \in Written =>
         job.work \ (db.spent \ job.renewed) \subseteq files.ports
    /\ job.pc \in Written \ {"render"} => files.conf.ports = files.ports
    /\ job.pc \in AtNode => NodeConf.ports = files.ports
    /\ job.pc \in Undoing => files.ports = job.prev.ports
    /\ job.pc \in Undoing \ {"undoFile"} =>
         files.conf = job.prev.conf
    /\ job.pc \in Undoing \ {"undoFile", "undoConf"} => NodeConf = job.prev.conf

Serving == Boots /\ JobShape /\ AtRest /\ InMutation

-----------------------------------------------------------------------------
(* What has been met stays met. *)

\* A step that fails adds to what has been met.
LEMMA FailsMeets ==
  ASSUME Fails
  PROVE  met \subseteq met'
BY DEF Fails, StepFault, Fault

\* No step takes from it.
LEMMA MetGrows == [Next]_vars => met \subseteq met'
<1> SUFFICES ASSUME [Next]_vars
             PROVE  met \subseteq met'
  OBVIOUS
<1>1. CASE Forward
  BY <1>1
  DEF Forward, WritePorts, Render, Mark, PushConf, PushPorts, PushRoute, Test,
      RestartBackup, Decide, RestartNode, ClearMarker, Commit, NoFault, Fault
<1>2. CASE Backward
  BY <1>2
  DEF Backward, UndoPortsFile, UndoConfFile, UndoConfFileTo, UndoConf,
      UndoPorts, UndoRoute, UndoRestart, NoFault
<1>3. CASE Failing
  BY <1>3, FailsMeets
  DEF Failing, RenderFails, StepFails, RestartNodeFails, UndoFails, StepFault,
      Fault
<1>4. CASE Booting
  BY <1>4 DEF Booting, Restart, BootCleanup, BootDisable, BootWrite, NoFault,
              Begin
<1>5. CASE Beginning
  BY <1>5
  DEF Beginning, BeginMutation, BeginDisable, BeginModeSync, BeginManager,
      Begin
<1>6. CASE Environment
  BY <1>6
  DEF Environment, PanelCrash, ManagerCrash, NodeRestarts, Spend, RouteChanges,
      Fault
<1>7. CASE UNCHANGED vars
  BY <1>7 DEF vars
<1> QED BY <1>1, <1>2, <1>3, <1>4, <1>5, <1>6, <1>7 DEF Next

\* So what holds after a step under Kept was under Kept before it.
LEMMA KeptBefore ==
  ASSUME [Next]_vars, Kept'
  PROVE  Kept
BY MetGrows DEF Kept

\* The faults that the promise excepts.
LEMMA KeptExcepts ==
  ASSUME Kept', NEW kind \in {"restore", "undo", "crash", "node", "outage"}
  PROVE  ~Fault(kind)
BY DEF Kept, Fault

-----------------------------------------------------------------------------
(* A step keeps Serving: the beginning of a job, the steps of a mutation,   *)
(* the steps of the others, and what happens beside them.                   *)

\* A job that begins finds its account in order.
LEMMA ServingBegins ==
  ASSUME TypeOK, Serving, Kept', Booting \/ Beginning
  PROVE  Serving'
<1> USE DEF Serving, Boots, JobShape, AtRest, InMutation
<1>1. ASSUME job = Free, panel = "up", NEW work, NEW renewed,
             Begin("mutation", "inputs", work, renewed),
             UNCHANGED <<mode, db, files, remote, running, panel>>
      PROVE  Serving'
  BY <1>1 DEF Begin, NewJob, Free, Serves, Written, AtNode, Undoing, NodeConf
<1>2. CASE BeginMutation
  BY <1>1, <1>2 DEF BeginMutation
<1>3. CASE BeginDisable
  BY <1>1, <1>3 DEF BeginDisable
<1>4. CASE BeginModeSync
  BY <1>4 DEF BeginModeSync, Begin, NewJob, Free, Serves, NodeConf
<1>5. CASE BeginManager
  BY <1>5
  DEF BeginManager, Begin, NewJob, Free, Serves, NodeConf, TypeOK, Files
<1>6. CASE Restart
  BY <1>6 DEF Restart, Serves, NodeConf
<1>7. CASE BootCleanup
  BY <1>7 DEF BootCleanup, Serves, NodeConf, TypeOK
<1>8. CASE BootDisable
  BY <1>8 DEF BootDisable, Serves, NodeConf
<1>9. CASE BootWrite
  BY <1>9 DEF BootWrite, Begin, NewJob, Free, Serves, NodeConf
<1> QED BY <1>2, <1>3, <1>4, <1>5, <1>6, <1>7, <1>8, <1>9 DEF Booting,
                                                              Beginning

\* A mutation that ends without a commit has left the old ports in force.
LEMMA MutationRaises ==
  ASSUME Boots, panel = "up", Raise, job.kind = "mutation",
         UNCHANGED <<mode, db>>, Serves(job.prev),
         running'.ports = job.prev.ports, files'.ports = job.prev.ports,
         files'.conf.ports = job.prev.ports, NodeConf'.ports = job.prev.ports
  PROVE  Serving'
BY DEF Serving, Boots, JobShape, AtRest, InMutation, Raise, Free, Serves

\* A mutation that goes on does not change what it found or wants.
LEMMA MutationMoves ==
  ASSUME Boots, panel = "up", job \in Job, job.kind = "mutation",
         UNCHANGED <<db, panel>>, NEW pc, NEW loaded \in BOOLEAN,
         NEW changed \in BOOLEAN,
         job' = [job EXCEPT !.pc = pc, !.loaded = loaded, !.changed = changed],
         Serves(job.prev), job.prev.conf.ports = job.prev.ports,
         ~loaded => running'.ports = job.prev.ports,
         pc \in Written =>
           job.work \ (db.spent \ job.renewed) \subseteq files'.ports,
         pc \in Written \ {"render"} => files'.conf.ports = files'.ports,
         pc \in AtNode => NodeConf'.ports = files'.ports,
         pc \in Undoing => files'.ports = job.prev.ports,
         pc \in Undoing \ {"undoFile"} =>
           files'.conf = job.prev.conf,
         pc \in Undoing \ {"undoFile", "undoConf"} => NodeConf' = job.prev.conf
  PROVE  Serving'
<1>1. /\ job'.kind = "mutation" /\ job'.pc = pc /\ job'.loaded = loaded
      /\ job'.work = job.work /\ job'.renewed = job.renewed
      /\ job'.prev = job.prev
  BY DEF Job
<1> QED BY <1>1 DEF Serving, Boots, JobShape, AtRest, InMutation, Serves

\* The steps of a transaction, forward, failing and back.
LEMMA ServingMutation ==
  ASSUME TypeOK, LoadOrder, Serving, Kept', job.kind = "mutation",
         Forward \/ Backward \/ Failing
  PROVE  Serving'
<1>1. job # Free /\ job \in Job /\ panel = "up" /\ Boots
  BY DEF TypeOK, Free, LoadOrder, Serving
<1>2. /\ Serves(job.prev)
      /\ job.prev.conf.ports = job.prev.ports
      /\ ~job.loaded => running.ports = job.prev.ports
      /\ job.pc \in Written =>
           job.work \ (db.spent \ job.renewed) \subseteq files.ports
      /\ job.pc \in Written \ {"render"} => files.conf.ports = files.ports
      /\ job.pc \in AtNode => NodeConf.ports = files.ports
      /\ job.pc \in Undoing => files.ports = job.prev.ports
      /\ job.pc \in Undoing \ {"undoFile"} =>
           files.conf = job.prev.conf
      /\ job.pc \in Undoing \ {"undoFile", "undoConf"} => NodeConf = job.prev.conf
  BY DEF Serving, InMutation
<1>3. job.loaded \in BOOLEAN /\ job.changed \in BOOLEAN
  BY <1>1 DEF Job
<1>4. ASSUME NEW pc, Goto(pc), UNCHANGED <<db, panel>>,
             ~job.loaded => running'.ports = job.prev.ports,
             pc \in Written =>
               job.work \ (db.spent \ job.renewed) \subseteq files'.ports,
             pc \in Written \ {"render"} => files'.conf.ports = files'.ports,
             pc \in AtNode => NodeConf'.ports = files'.ports,
             pc \in Undoing => files'.ports = job.prev.ports,
             pc \in Undoing \ {"undoFile"} =>
               files'.conf = job.prev.conf,
             pc \in Undoing \ {"undoFile", "undoConf"} => NodeConf' = job.prev.conf
      PROVE  Serving'
  <2>1. job' = [job EXCEPT !.pc = pc, !.loaded = job.loaded,
                           !.changed = job.changed]
    BY <1>1, <1>4 DEF Goto, Job
  <2> QED BY <1>1, <1>2, <1>3, <1>4, <2>1, MutationMoves
<1>5. ASSUME Fails, UNCHANGED <<mode, db, running>>
      PROVE  Serving'
  <2>1. Goto("undo") /\ UNCHANGED panel
    BY <1>5 DEF Fails, Transactional
  <2> QED BY <1>1, <1>2, <1>4, <1>5, <2>1
          DEF Written, AtNode, Undoing
<1>6. CASE WritePorts
  <2>1. files'.ports = job.work \ (db.spent \ job.renewed)
    BY <1>6 DEF WritePorts, TypeOK, Files
  <2> QED BY <1>1, <1>2, <1>4, <1>6, <2>1
          DEF WritePorts, Written, AtNode, Undoing
<1>7. CASE Render
  <2>1. /\ files'.ports = files.ports
        /\ files'.conf.ports = files.ports
        /\ UNCHANGED <<db, running, panel>>
        /\ Goto(IF mode = "ssh" THEN "pushConf" ELSE "test")
        /\ job.pc = "render"
    BY <1>7, RenderedPorts DEF Render, AfterRender, At, TypeOK, Files
  <2> QED BY <1>1, <1>2, <1>4, <2>1
          DEF Written, AtNode, Undoing
<1>8. CASE PushConf
  <2>1. /\ mode = "ssh" => remote'.conf = files.conf
        /\ UNCHANGED <<mode, db, files, running, panel>>
        /\ job.pc = "pushConf"
    BY <1>8 DEF PushConf, At, TypeOK, Files
  <2>2. NodeConf'.ports = files'.ports
    BY <1>2, <2>1 DEF NodeConf, Written
  <2> DEFINE changed == job.changed \/ remote.conf # files.conf
  <2>3. /\ job' = [job EXCEPT !.pc = "pushPorts", !.loaded = job.loaded,
                              !.changed = changed]
        /\ changed \in BOOLEAN
    BY <1>1, <1>8 DEF PushConf, Job
  <2> HIDE DEF changed
  <2> QED BY <1>1, <1>2, <1>3, <2>1, <2>2, <2>3, MutationMoves
          DEF Written, AtNode, Undoing
<1>9. CASE PushPorts \/ PushRoute
  <2>1. /\ remote'.conf = remote.conf
        /\ UNCHANGED <<mode, db, files, running, panel>>
        /\ job.pc \in {"pushPorts", "pushRoute"}
        /\ Goto("pushRoute") \/ Goto("backup")
    BY <1>9 DEF PushPorts, PushRoute, AfterSync, Transactional, At, TypeOK,
                Files
  <2>2. NodeConf' = NodeConf
    BY <2>1 DEF NodeConf
  <2> QED BY <1>1, <1>2, <1>4, <2>1, <2>2
          DEF Written, AtNode, Undoing
<1>10. CASE Test \/ RestartBackup \/ ClearMarker
  <2>1. /\ UNCHANGED <<mode, db, files, remote, running, panel>>
        /\ \/ job.pc = "test" /\ Goto("backup")
           \/ job.pc = "backup" /\ Goto("restart")
           \/ job.pc = "clear" /\ Goto("commit")
    BY <1>10 DEF Test, RestartBackup, ClearMarker, AfterSync, Transactional, At
  <2>2. NodeConf' = NodeConf
    BY <2>1 DEF NodeConf
  <2>3. job.pc = "test" => NodeConf = files.conf
    BY <1>1 DEF LoadOrder, NodeConf, TypeOK
  <2> QED BY <1>1, <1>2, <1>4, <2>1, <2>2, <2>3
          DEF Written, AtNode, Undoing
<1>11. CASE RestartNode
  <2>1. /\ UNCHANGED <<mode, db, files, remote, panel>>
        /\ job.pc = "restart"
        /\ job' = [job EXCEPT !.pc = "clear", !.loaded = TRUE]
    BY <1>11 DEF RestartNode, At
  <2>2. job' = [job EXCEPT !.pc = "clear", !.loaded = TRUE,
                           !.changed = job.changed]
    BY <1>1, <2>1 DEF Job
  <2>3. NodeConf' = NodeConf
    BY <2>1 DEF NodeConf
  <2> QED BY <1>1, <1>2, <1>3, <2>1, <2>2, <2>3, MutationMoves
          DEF Written, AtNode, Undoing
<1>12. CASE Commit
  <2>1. /\ UNCHANGED <<mode, files, remote, running>>
        /\ job.pc = "commit" /\ job' = Free /\ panel' = panel
        /\ db' = [enabled |-> job.work, spent |-> db.spent \ job.renewed]
    BY <1>12 DEF Commit, Done, At
  <2>2. NodeConf' = NodeConf /\ running = NodeConf
    BY <1>1, <2>1 DEF NodeConf, LoadOrder
  <2>3. files.ports \subseteq job.work
    BY <1>1, <2>1 DEF LoadOrder, Written
  <2> QED BY <1>1, <1>2, <2>1, <2>2, <2>3
          DEF Serving, Boots, JobShape, AtRest, InMutation, Serves, Free,
              Written, AtNode
<1>13. CASE Mark \/ Decide
  BY <1>1, <1>13 DEF Mark, Decide, At, LoadOrder
<1>14. CASE UndoPortsFile \/ UndoConfFile
  <2>1. CASE UndoPortsFile
    <3>1. /\ files'.ports = job.prev.ports
          /\ UNCHANGED <<mode, db, running, panel>> /\ Goto("undoFile")
      BY <2>1 DEF UndoPortsFile, TypeOK, Files
    <3> QED BY <1>1, <1>2, <1>4, <3>1 DEF Written, AtNode, Undoing
  <2>2. CASE UndoConfFile
    <3>1. /\ files'.ports = files.ports /\ files'.conf = job.prev.conf
          /\ UNCHANGED <<mode, db, running>> /\ job.pc = "undoFile"
          /\ \/ mode = "ssh" /\ Goto("undoConf") /\ UNCHANGED panel
             \/ mode # "ssh" /\ Goto("undoRestart") /\ UNCHANGED panel
             \/ mode # "ssh" /\ ~job.loaded /\ Raise
      BY <2>2 DEF UndoConfFile, UndoConfFileTo, At, TypeOK, Files
    <3>2. files'.ports = job.prev.ports
      BY <1>2, <3>1 DEF Undoing
    <3>3. mode # "ssh" => NodeConf' = job.prev.conf
      BY <3>1 DEF NodeConf
    <3>4. ASSUME Raise, ~job.loaded, mode # "ssh"
          PROVE  Serving'
      BY <1>1, <1>2, <3>1, <3>2, <3>3, <3>4, MutationRaises
    <3> QED BY <1>1, <1>2, <1>4, <3>1, <3>2, <3>3, <3>4
            DEF Written, AtNode, Undoing
  <2> QED BY <1>14, <2>1, <2>2
<1>15. CASE UndoConf
  <2>1. /\ remote'.conf = files.conf
        /\ UNCHANGED <<mode, db, files, running, panel>>
        /\ job.pc = "undoConf" /\ Goto("undoPorts")
    BY <1>15 DEF UndoConf, At, TypeOK, Files
  <2>2. files.conf = job.prev.conf /\ files.ports = job.prev.ports
    BY <1>2, <2>1 DEF Undoing
  <2>3. NodeConf' = job.prev.conf
    BY <2>1, <2>2 DEF NodeConf
  <2> QED BY <1>1, <1>2, <1>4, <2>1, <2>2, <2>3
          DEF Written, AtNode, Undoing
<1>16. CASE UndoPorts \/ UndoRoute
  <2>1. /\ remote'.conf = remote.conf
        /\ UNCHANGED <<mode, db, files, running>>
        /\ job.pc \in {"undoPorts", "undoRoute"}
        /\ \/ Goto("undoRoute") /\ UNCHANGED panel
           \/ Goto("undoRestart") /\ UNCHANGED panel
           \/ ~job.loaded /\ Raise
    BY <1>16 DEF UndoPorts, UndoRoute, At, TypeOK, Files
  <2>2. NodeConf' = NodeConf
    BY <2>1 DEF NodeConf
  <2>3. /\ NodeConf = job.prev.conf /\ files.conf = job.prev.conf
        /\ files.ports = job.prev.ports
    BY <1>2, <2>1 DEF Undoing
  <2>4. ASSUME Raise, ~job.loaded
        PROVE  Serving'
    BY <1>1, <1>2, <2>1, <2>2, <2>3, <2>4, MutationRaises
  <2> QED BY <1>1, <1>2, <1>4, <2>1, <2>2, <2>3, <2>4
          DEF Written, AtNode, Undoing
<1>17. CASE UndoRestart
  <2>1. /\ running' = NodeConf /\ Raise /\ job.pc = "undoRestart"
        /\ UNCHANGED <<mode, db, files, remote>>
    BY <1>17 DEF UndoRestart, At
  <2>2. NodeConf' = NodeConf
    BY <2>1 DEF NodeConf
  <2> QED BY <1>1, <1>2, <2>1, <2>2, MutationRaises DEF Undoing
<1>18. CASE RenderFails
  BY <1>5, <1>18 DEF RenderFails
<1>19. CASE StepFails
  BY <1>5, <1>19 DEF StepFails
<1>20. CASE RestartNodeFails
  <2>1. /\ UNCHANGED <<mode, db, files, remote, panel>>
        /\ job' = [job EXCEPT !.pc = "undo", !.loaded = TRUE]
    BY <1>20 DEF RestartNodeFails, Transactional
  <2>2. job' = [job EXCEPT !.pc = "undo", !.loaded = TRUE,
                           !.changed = job.changed]
    BY <1>1, <2>1 DEF Job
  <2> QED BY <1>1, <1>2, <1>3, <2>1, <2>2, MutationMoves
          DEF Written, AtNode, Undoing
<1>21. CASE UndoFails
  BY <1>21, KeptExcepts DEF UndoFails
<1> QED BY <1>6, <1>7, <1>8, <1>9, <1>10, <1>11, <1>12, <1>13, <1>14, <1>15,
           <1>16, <1>17, <1>18, <1>19, <1>20, <1>21
        DEF Forward, Backward, Failing

\* The other jobs leave every ports file, and what the node has loaded, with
\* the ports that it serves.
LEMMA OthersAgree ==
  ASSUME TypeOK, Serving, Kept', job # Free, job.kind # "mutation",
         Forward \/ Backward \/ Failing
  PROVE  /\ UNCHANGED <<mode, db>> /\ running'.ports = running.ports
         /\ files'.ports = running.ports /\ files'.conf.ports = running.ports
         /\ NodeConf'.ports = running.ports
<1> DEFINE Agree == /\ UNCHANGED <<mode, db>> /\ running'.ports = running.ports
                    /\ files'.ports = running.ports
                    /\ files'.conf.ports = running.ports
                    /\ NodeConf'.ports = running.ports
<1>1. /\ files.ports = running.ports /\ files.conf.ports = running.ports
      /\ NodeConf.ports = running.ports /\ Serves(running)
      /\ job \in Job /\ files \in Files /\ remote \in Files
  BY DEF Serving, AtRest, TypeOK
<1>2. job.kind \in {"bootWrite", "modeSync", "manager"}
  BY <1>1 DEF Job, PanelKinds, Serving, JobShape
<1>3. CASE WritePorts
  <2>1. job.pc = "inputs" /\ job.kind = "bootWrite"
    BY <1>2, <1>3 DEF WritePorts, At, Serving, JobShape
  <2>2. job.work = db.enabled /\ db.spent = {}
    BY <2>1 DEF Serving, JobShape, Boots
  <2>3. /\ files'.ports = db.enabled /\ files'.conf = files.conf
        /\ UNCHANGED <<mode, db, running, remote>>
    BY <1>1, <1>3, <2>2 DEF WritePorts, Files
  <2>4. running.ports = db.enabled
    BY <1>1, <2>2 DEF Serves
  <2> QED BY <1>1, <2>3, <2>4 DEF NodeConf
<1>4. CASE Render
  <2>1. /\ files'.ports = files.ports /\ files'.conf.ports = files.ports
        /\ UNCHANGED <<mode, db, running, remote>>
    BY <1>1, <1>4, RenderedPorts DEF Render, Files
  <2> QED BY <1>1, <2>1 DEF NodeConf
<1>5. CASE RenderFails
  <2>1. PICK conf \in {files.conf, Rendered(files.ports, RouteToRender(TRUE))} :
          files' = [files EXCEPT !.route = RouteToRender(TRUE), !.conf = conf]
    BY <1>5, Zenon DEF RenderFails
  <2>2. conf.ports = running.ports
    BY ZenonT(30), <1>1, <2>1, RenderedPorts
  <2>3. files'.ports = files.ports /\ files'.conf = conf
    BY <1>1, <2>1 DEF Files
  <2>4. UNCHANGED <<mode, db, running, remote>>
    BY <1>5 DEF RenderFails
  <2> QED BY <1>1, <2>2, <2>3, <2>4 DEF NodeConf
<1>6. CASE PushConf \/ UndoConf
  <2>1. /\ remote'.conf = files.conf
        /\ UNCHANGED <<mode, db, running, files>>
    BY <1>1, <1>6 DEF PushConf, UndoConf, Files
  <2> QED BY <1>1, <2>1 DEF NodeConf
<1>7. CASE PushPorts \/ PushRoute \/ UndoPorts \/ UndoRoute
  <2>1. /\ remote'.conf = remote.conf
        /\ UNCHANGED <<mode, db, running, files>>
    BY <1>1, <1>7 DEF PushPorts, PushRoute, UndoPorts, UndoRoute, Files
  <2> QED BY <1>1, <2>1 DEF NodeConf
<1>8. CASE RestartNode \/ RestartNodeFails \/ UndoRestart
  <2>1. /\ running' \in {running, NodeConf}
        /\ UNCHANGED <<mode, db, remote, files>>
    BY <1>8 DEF RestartNode, RestartNodeFails, UndoRestart
  <2> QED BY <1>1, <2>1 DEF NodeConf
<1>9. CASE Mark \/ Test \/ RestartBackup \/ Decide \/ ClearMarker \/ StepFails
  <2>1. UNCHANGED <<mode, db, running, remote, files>>
    BY <1>9 DEF Mark, Test, RestartBackup, Decide, ClearMarker, StepFails
  <2> QED BY <1>1, <2>1 DEF NodeConf
<1>10. CASE Commit \/ UndoPortsFile \/ UndoConfFile
  BY <1>2, <1>10 DEF Commit, UndoPortsFile, UndoConfFile, UndoConfFileTo, At,
                     Serving, JobShape
<1>11. CASE UndoFails
  BY <1>11, KeptExcepts DEF UndoFails
<1> HIDE DEF Agree
<1>12. Agree
  BY <1>3, <1>4, <1>5, <1>6, <1>7, <1>8, <1>9, <1>10, <1>11
  DEF Agree, Forward, Backward, Failing
<1> QED BY <1>12 DEF Agree

\* The other jobs end, or go on to the steps that JobShape names.
LEMMA OthersShaped ==
  ASSUME TypeOK, Serving, Kept', job # Free, job.kind # "mutation",
         Forward \/ Backward \/ Failing, UNCHANGED db
  PROVE  Boots' /\ JobShape' /\ job'.kind # "mutation"
<1> DEFINE Shaped == Boots' /\ JobShape' /\ job'.kind # "mutation"
<1>1. job \in Job /\ job.kind \in {"bootWrite", "modeSync", "manager"}
  BY DEF Job, PanelKinds, Serving, JobShape, TypeOK
<1>2. ~Transactional
  BY <1>1 DEF Transactional
<1>3. ASSUME Done \/ Raise
      PROVE  Shaped
  BY <1>1, <1>3 DEF Done, Raise, Free, Serving, Boots, JobShape
<1>4. ASSUME Fails
      PROVE  Shaped
  BY <1>2, <1>3, <1>4 DEF Fails
<1>5. ASSUME UNCHANGED panel, job'.kind = job.kind, job'.work = job.work,
             job'.renewed = job.renewed,
             job.kind = "manager" =>
               job'.pc \in {"mark", "pushConf", "pushPorts", "pushRoute",
                            "decide", "restart", "clear"},
             job.kind = "bootWrite" =>
               job'.pc \in {"render", "pushConf", "pushPorts", "pushRoute",
                            "test", "restart"},
             job.kind # "modeSync"
      PROVE  Shaped
  BY <1>1, <1>5 DEF Serving, Boots, JobShape
<1>6. ASSUME UNCHANGED panel, NEW pc, Goto(pc),
             job.kind = "manager" =>
               pc \in {"mark", "pushConf", "pushPorts", "pushRoute", "decide",
                       "restart", "clear"},
             job.kind = "bootWrite" =>
               pc \in {"render", "pushConf", "pushPorts", "pushRoute", "test",
                       "restart"},
             job.kind # "modeSync"
      PROVE  Shaped
  <2>1. /\ job'.kind = job.kind /\ job'.work = job.work
        /\ job'.renewed = job.renewed /\ job'.pc = pc
    BY <1>1, <1>6 DEF Goto, Job
  <2> QED BY <1>5, <1>6, <2>1
<1> SUFFICES Shaped
  OBVIOUS
<1> HIDE DEF Shaped
<1> USE <1>1, <1>2 DEF Serving, JobShape, At
<1>7. CASE WritePorts
  BY <1>6, <1>7 DEF WritePorts
<1>8. CASE Render
  BY <1>3, <1>6, <1>8 DEF Render, AfterRender
<1>9. CASE Mark \/ PushConf
  <2>1. /\ job.kind \in {"manager", "bootWrite"} /\ UNCHANGED panel
        /\ job.pc = "mark" => job.kind = "manager"
    BY <1>9 DEF Mark, PushConf
  <2>2. /\ job'.kind = job.kind /\ job'.work = job.work
        /\ job'.renewed = job.renewed
        /\ \/ job'.pc = "pushPorts"
           \/ job.pc = "mark" /\ job'.pc \in {"pushConf", "decide"}
    BY <1>9 DEF Mark, PushConf, Job
  <2> QED BY <1>5, <2>1, <2>2
<1>10. CASE PushPorts
  BY <1>6, <1>10 DEF PushPorts
<1>11. CASE PushRoute \/ Test
  BY <1>3, <1>6, <1>11 DEF PushRoute, Test, AfterSync
<1>12. CASE RestartBackup \/ Commit \/ Backward
  BY <1>12 DEF RestartBackup, Commit, Backward, UndoPortsFile, UndoConfFile,
               UndoConfFileTo, UndoConf, UndoPorts, UndoRoute, UndoRestart
<1>13. CASE Decide
  BY <1>3, <1>6, <1>13 DEF Decide
<1>14. CASE RestartNode
  <2>1. CASE Done
    BY <1>3, <2>1
  <2>2. CASE job' = [job EXCEPT !.pc = "clear", !.loaded = TRUE]
             /\ UNCHANGED panel /\ job.kind = "manager"
    <3>1. /\ job'.kind = job.kind /\ job'.work = job.work
          /\ job'.renewed = job.renewed /\ job'.pc = "clear"
      BY <2>2 DEF Job
    <3> QED BY <1>5, <2>2, <3>1
  <2> QED BY <1>14, <2>1, <2>2 DEF RestartNode
<1>15. CASE ClearMarker
  BY <1>3, <1>15 DEF ClearMarker
<1>16. CASE RenderFails \/ StepFails
  BY <1>3, <1>4, <1>16 DEF RenderFails, StepFails
<1>17. CASE RestartNodeFails
  BY <1>3, <1>17 DEF RestartNodeFails
<1>18. CASE UndoFails
  BY <1>18, KeptExcepts DEF UndoFails
<1> QED BY <1>7, <1>8, <1>9, <1>10, <1>11, <1>12, <1>13, <1>14, <1>15,
           <1>16, <1>17, <1>18
        DEF Forward, Failing

\* Every step keeps Serving.
LEMMA ServingStep ==
  ASSUME TypeOK, LoadOrder, Serving, [Next]_vars, Kept'
  PROVE  Serving'
<1>1. CASE Booting \/ Beginning
  BY <1>1, ServingBegins
<1>2. CASE (Forward \/ Backward \/ Failing) /\ job.kind = "mutation"
  BY <1>2, ServingMutation
<1>3. CASE (Forward \/ Backward \/ Failing) /\ job.kind # "mutation"
  <2>1. job # Free
    BY <1>3, KindStays
  <2>2. /\ UNCHANGED <<mode, db>> /\ running'.ports = running.ports
        /\ files'.ports = running.ports /\ files'.conf.ports = running.ports
        /\ NodeConf'.ports = running.ports
    BY <1>3, <2>1, OthersAgree
  <2>3. Boots' /\ JobShape' /\ job'.kind # "mutation"
    BY <1>3, <2>1, <2>2, OthersShaped
  <2>4. Serves(running)
    BY <1>3 DEF Serving, AtRest
  <2> QED BY <2>2, <2>3, <2>4 DEF Serving, AtRest, InMutation, Serves
<1>4. CASE Spend
  <2>1. /\ UNCHANGED <<mode, files, remote, running, job, panel>>
        /\ panel = "up" /\ db'.enabled = db.enabled
        /\ db.spent \subseteq db'.spent
    BY <1>4, KeptExcepts DEF Spend, TypeOK
  <2>2. NodeConf' = NodeConf
    BY <2>1 DEF NodeConf
  <2> QED BY <2>1, <2>2
          DEF Serving, Boots, JobShape, AtRest, InMutation, Serves
<1>5. CASE RouteChanges \/ UNCHANGED vars
  <2>1. UNCHANGED <<mode, db, files, remote, running, job, panel>>
    BY <1>5 DEF RouteChanges, vars
  <2> QED BY <2>1
          DEF Serving, Boots, JobShape, AtRest, InMutation, Serves, NodeConf
<1>6. CASE PanelCrash \/ ManagerCrash \/ NodeRestarts
  BY <1>6, KeptExcepts DEF PanelCrash, ManagerCrash, NodeRestarts
<1> QED BY <1>1, <1>2, <1>3, <1>4, <1>5, <1>6 DEF Next, Environment

\* As long as only steps of jobs have failed, the account of what each job has
\* done to files, node and database is right in every state.
THEOREM ServingHolds == Spec => [](Kept => Serving)
<1>1. Init => (Kept => Serving)
  <2> SUFFICES ASSUME Init
               PROVE  Serving
    OBVIOUS
  <2>1. PICK ports \in SUBSET Ports :
          /\ db = [enabled |-> ports, spent |-> {}]
          /\ running = Rendered(ports, "direct")
          /\ files = [ports |-> ports, route |-> "direct", conf |-> running]
    BY DEF Init
  <2>2. job.kind = "free" /\ job = Free /\ remote = files
    BY DEF Init, Free
  <2> QED BY <2>1, <2>2
          DEF Serving, Boots, JobShape, AtRest, InMutation, Serves, NodeConf,
              Rendered
<1>2. TypeOK /\ LoadOrder /\ (Kept => Serving) /\ [Next]_vars
      => (Kept => Serving)'
  BY ServingStep, KeptBefore
<1> QED BY <1>1, <1>2, TypeCorrect, LoadOrderHolds, PTL DEF Spec

-----------------------------------------------------------------------------
(***************************************************************************)
(* What is on the panel's disk, whatever fails, crashes or falls due.      *)
(***************************************************************************)

\* Where the panel is, and how far they may be, while the jobs run that are no
\* requests for a change.
JobPlace ==
  /\ job.kind = "modeSync" => job.pc = "render"
  /\ job.kind = "manager" =>
       job.pc \in {"render", "mark", "pushConf", "pushPorts", "pushRoute",
                   "decide", "restart", "clear"}
  /\ job.kind = "bootDisable" => panel = "bootDisable"
  /\ job.kind = "bootWrite" =>
       /\ job.pc \in {"inputs", "render", "pushConf", "pushPorts", "pushRoute",
                      "test", "restart"}
       /\ mode = "ssh" => job.pc # "test"
       /\ panel = "bootWrite" /\ job.work = db.enabled /\ job.renewed = {}

\* The ports file and the configuration of a panel that is up serve the
\* database, but for the change that is under way.
DiskAtRest ==
  panel = "up" /\ job.kind # "mutation" => Serves(files) /\ Serves(files.conf)

\* A mutation may go back to what it found, and has brought the new ports as
\* far as its program counter says.
DiskInMutation ==
  job.kind = "mutation" =>
    /\ Serves(job.prev) /\ Serves(job.prev.conf)
    /\ job.pc \in Written =>
         job.work \ (db.spent \ job.renewed) \subseteq files.ports
    /\ job.pc \in Written \ {"render"} =>
         job.work \ (db.spent \ job.renewed) \subseteq files.conf.ports
    /\ job.pc \in Undoing => files.ports = job.prev.ports
    /\ job.pc \in Undoing \ {"undoFile"} =>
         files.conf = job.prev.conf

\* So has the boot's own write, whatever it found.
DiskInBoot ==
  job.kind = "bootWrite" =>
    /\ job.pc # "inputs" => Serves(files)
    /\ job.pc \notin {"inputs", "render"} => Serves(files.conf)

OnDisk == DiskAtRest /\ DiskInMutation /\ DiskInBoot

\* The other jobs end, or go on to the steps that JobPlace names.
LEMMA PlacedMoves ==
  ASSUME TypeOK, JobPlace, job # Free, job.kind # "mutation",
         Forward \/ Backward \/ Failing
  PROVE  JobPlace'
<1> DEFINE Placed == JobPlace'
<1>1. /\ job \in Job
      /\ job.kind \in {"bootDisable", "bootWrite", "modeSync", "manager"}
  BY DEF Job, PanelKinds, TypeOK
<1>2. ASSUME Done \/ Raise
      PROVE  Placed
  BY <1>1, <1>2 DEF Done, Raise, Free, JobPlace
<1>3. ASSUME UNCHANGED <<mode, db, panel>>, job'.kind = job.kind,
             job'.work = job.work, job'.renewed = job.renewed,
             job.kind = "manager" =>
               job'.pc \in {"mark", "pushConf", "pushPorts", "pushRoute",
                            "decide", "restart", "clear"},
             job.kind = "bootWrite" =>
               /\ job'.pc \in {"render", "pushConf", "pushPorts", "pushRoute",
                               "test", "restart"}
               /\ mode = "ssh" => job'.pc # "test",
             job.kind # "modeSync"
      PROVE  Placed
  BY <1>1, <1>3 DEF JobPlace
<1>4. ASSUME UNCHANGED <<mode, db, panel>>, NEW pc, Goto(pc),
             job.kind = "manager" =>
               pc \in {"mark", "pushConf", "pushPorts", "pushRoute", "decide",
                       "restart", "clear"},
             job.kind = "bootWrite" =>
               /\ pc \in {"render", "pushConf", "pushPorts", "pushRoute",
                          "test", "restart"}
               /\ mode = "ssh" => pc # "test",
             job.kind # "modeSync"
      PROVE  Placed
  <2>1. /\ job'.kind = job.kind /\ job'.work = job.work
        /\ job'.renewed = job.renewed /\ job'.pc = pc
    BY <1>1, <1>4 DEF Goto, Job
  <2> QED BY <1>3, <1>4, <2>1
<1>5. ASSUME Fails, UNCHANGED <<mode, db>>
      PROVE  Placed
  BY <1>1, <1>2, <1>4, <1>5 DEF Fails, Transactional
<1> SUFFICES Placed
  OBVIOUS
<1> HIDE DEF Placed
<1> USE <1>1 DEF At, Transactional
<1>6. job.kind = "manager" =>
        job.pc \in {"render", "mark", "pushConf", "pushPorts", "pushRoute",
                    "decide", "restart", "clear"}
  BY DEF JobPlace
<1>7. job.kind = "bootWrite" =>
        /\ job.pc \in {"inputs", "render", "pushConf", "pushPorts", "pushRoute",
                       "test", "restart"}
        /\ mode = "ssh" => job.pc # "test"
  BY DEF JobPlace
<1>8. job.kind = "modeSync" => job.pc = "render"
  BY DEF JobPlace
<1>9. CASE WritePorts
  BY <1>4, <1>6, <1>8, <1>9 DEF WritePorts
<1>10. CASE Render
  BY <1>2, <1>4, <1>10 DEF Render, AfterRender
<1>11. CASE Mark \/ PushConf
  <2>1. /\ job'.kind = job.kind /\ job'.work = job.work
        /\ job'.renewed = job.renewed
        /\ \/ job'.pc = "pushPorts"
           \/ job.pc = "mark" /\ job'.pc \in {"pushConf", "decide"}
    BY <1>11 DEF Mark, PushConf, Job
  <2>2. /\ job.kind # "modeSync" /\ UNCHANGED <<mode, db, panel>>
        /\ job.pc = "mark" => job.kind # "bootWrite"
    BY <1>7, <1>8, <1>11 DEF Mark, PushConf
  <2> QED BY <1>3, <2>1, <2>2
<1>12. CASE PushPorts
  BY <1>4, <1>8, <1>12 DEF PushPorts
<1>13. CASE PushRoute \/ Test
  BY <1>2, <1>4, <1>6, <1>8, <1>13 DEF PushRoute, Test, AfterSync
<1>14. CASE RestartBackup \/ ClearMarker
  BY <1>2, <1>4, <1>6, <1>7, <1>8, <1>14 DEF RestartBackup, ClearMarker
<1>15. CASE Decide
  BY <1>2, <1>4, <1>7, <1>8, <1>15 DEF Decide
<1>16. CASE RestartNode
  <2>1. CASE Done
    BY <1>2, <2>1
  <2>2. CASE job' = [job EXCEPT !.pc = "clear", !.loaded = TRUE]
             /\ UNCHANGED panel /\ job.kind # "bootWrite"
    <3>1. /\ job'.kind = job.kind /\ job'.work = job.work
          /\ job'.renewed = job.renewed /\ job'.pc = "clear"
      BY <2>2 DEF Job
    <3> QED BY <1>3, <1>8, <1>16, <2>2, <3>1 DEF RestartNode
  <2> QED BY <1>16, <2>1, <2>2 DEF RestartNode
<1>17. CASE Commit
  BY <1>2, <1>17 DEF Commit
<1>18. CASE Backward
  BY <1>2, <1>4, <1>6, <1>7, <1>8, <1>18
  DEF Backward, UndoPortsFile, UndoConfFile, UndoConfFileTo, UndoConf,
      UndoPorts, UndoRoute, UndoRestart
<1>19. CASE RenderFails \/ StepFails
  BY <1>2, <1>5, <1>19 DEF RenderFails, StepFails
<1>20. CASE RestartNodeFails
  <2>1. CASE Done \/ Raise
    BY <1>2, <2>1
  <2>2. CASE job' = [job EXCEPT !.pc = "undo", !.loaded = TRUE]
             /\ UNCHANGED panel /\ job.kind = "bootDisable"
    <3>1. /\ job'.kind = job.kind /\ job'.work = job.work
          /\ job'.renewed = job.renewed /\ job'.pc = "undo"
      BY <2>2 DEF Job
    <3> QED BY <1>3, <1>20, <2>2, <3>1 DEF RestartNodeFails
  <2> QED BY <1>20, <2>1, <2>2 DEF RestartNodeFails
<1>21. CASE UndoFails
  BY <1>2, <1>21 DEF UndoFails
<1> QED BY <1>9, <1>10, <1>11, <1>12, <1>13, <1>14, <1>15, <1>16, <1>17, <1>18,
           <1>19, <1>20, <1>21
        DEF Forward, Failing

\* In every state the jobs are where JobPlace says.
LEMMA PlaceHolds == Spec => []JobPlace
<1>1. Init => JobPlace
  BY DEF Init, JobPlace, Free
<1>2. TypeOK /\ JobPlace /\ [Next]_vars => JobPlace'
  <2> SUFFICES ASSUME TypeOK, JobPlace, [Next]_vars
               PROVE  JobPlace'
    OBVIOUS
  <2>1. CASE Booting \/ Beginning
    BY <2>1
    DEF Booting, Beginning, Restart, BootCleanup, BootDisable, BootWrite,
        BeginMutation, BeginDisable, BeginModeSync, BeginManager, Begin,
        NewJob, JobPlace, Free
  <2>2. CASE (Forward \/ Backward \/ Failing) /\ job.kind = "mutation"
    BY <2>2, KindStays DEF JobPlace, Free
  <2>3. CASE (Forward \/ Backward \/ Failing) /\ job.kind # "mutation"
    BY <2>3, KindStays, PlacedMoves
  <2>4. CASE PanelCrash \/ ManagerCrash
    BY <2>4 DEF PanelCrash, ManagerCrash, JobPlace, Free, PanelKinds
  <2>5. CASE NodeRestarts \/ Spend \/ RouteChanges \/ UNCHANGED vars
    <3>1. /\ UNCHANGED <<mode, job, panel>>
          /\ db'.enabled = db.enabled
      BY <2>5 DEF NodeRestarts, Spend, RouteChanges, vars, TypeOK
    <3> QED BY <3>1 DEF JobPlace
  <2> QED BY <2>1, <2>2, <2>3, <2>4, <2>5 DEF Next, Environment
<1> QED BY <1>1, <1>2, TypeCorrect, PTL DEF Spec

\* A job that begins finds the disk in order, or takes the panel through its
\* boot.
LEMMA OnDiskBegins ==
  ASSUME TypeOK, LoadOrder, JobPlace, OnDisk, Booting \/ Beginning
  PROVE  OnDisk'
<1> USE DEF OnDisk, DiskAtRest, DiskInMutation, DiskInBoot, Serves
<1>1. ASSUME job = Free, panel = "up", NEW work, NEW renewed,
             Begin("mutation", "inputs", work, renewed),
             UNCHANGED <<db, files, panel>>
      PROVE  OnDisk'
  BY <1>1 DEF Begin, NewJob, Free, Written, Undoing
<1>2. CASE BeginMutation
  BY <1>1, <1>2 DEF BeginMutation
<1>3. CASE BeginDisable
  BY <1>1, <1>3 DEF BeginDisable
<1>4. CASE BeginModeSync
  BY <1>4 DEF BeginModeSync, Begin, NewJob, Free
<1>5. CASE BeginManager
  BY <1>5 DEF BeginManager, Begin, NewJob, Free, TypeOK, Files
<1>6. CASE Restart
  BY <1>6 DEF Restart
<1>7. CASE BootCleanup
  <2>1. job.kind \notin {"mutation", "bootWrite"}
    BY <1>7 DEF BootCleanup, JobPlace, LoadOrder, Free
  <2> QED BY <1>7, <2>1 DEF BootCleanup, TypeOK
<1>8. CASE BootDisable
  BY <1>8 DEF BootDisable, Begin, NewJob, Free, JobPlace
<1>9. CASE BootWrite
  BY <1>9 DEF BootWrite, Begin, NewJob, Free
<1> QED BY <1>2, <1>3, <1>4, <1>5, <1>6, <1>7, <1>8, <1>9 DEF Booting,
                                                              Beginning

\* The steps of a transaction that is a mutation.
LEMMA OnDiskMutation ==
  ASSUME TypeOK, LoadOrder, OnDisk, job.kind = "mutation",
         Forward \/ Backward \/ Failing, "restore" \notin met'
  PROVE  OnDisk'
<1>1. job # Free /\ job \in Job /\ panel = "up" /\ files \in Files
  BY KindStays DEF TypeOK, LoadOrder
<1>2. /\ Serves(job.prev) /\ Serves(job.prev.conf)
      /\ job.pc \in Written =>
           job.work \ (db.spent \ job.renewed) \subseteq files.ports
      /\ job.pc \in Written \ {"render"} =>
           job.work \ (db.spent \ job.renewed) \subseteq files.conf.ports
      /\ job.pc \in Undoing => files.ports = job.prev.ports
      /\ job.pc \in Undoing \ {"undoFile"} =>
           files.conf = job.prev.conf
  BY DEF OnDisk, DiskInMutation
<1>3. ASSUME NEW pc, UNCHANGED db, job'.kind = "mutation", job'.pc = pc,
             job'.work = job.work, job'.renewed = job.renewed,
             job'.prev = job.prev,
             pc \in Written =>
               job.work \ (db.spent \ job.renewed) \subseteq files'.ports,
             pc \in Written \ {"render"} =>
               job.work \ (db.spent \ job.renewed) \subseteq files'.conf.ports,
             pc \in Undoing => files'.ports = job.prev.ports,
             pc \in Undoing \ {"undoFile"} =>
               files'.conf = job.prev.conf
      PROVE  OnDisk'
  BY <1>2, <1>3 DEF OnDisk, DiskAtRest, DiskInMutation, DiskInBoot, Serves
<1>4. ASSUME NEW pc, UNCHANGED db, Goto(pc),
             pc \in Written =>
               job.work \ (db.spent \ job.renewed) \subseteq files'.ports,
             pc \in Written \ {"render"} =>
               job.work \ (db.spent \ job.renewed) \subseteq files'.conf.ports,
             pc \in Undoing => files'.ports = job.prev.ports,
             pc \in Undoing \ {"undoFile"} =>
               files'.conf = job.prev.conf
      PROVE  OnDisk'
  <2>1. /\ job'.kind = "mutation" /\ job'.pc = pc /\ job'.work = job.work
        /\ job'.renewed = job.renewed /\ job'.prev = job.prev
    BY <1>1, <1>4 DEF Goto, Job
  <2> QED BY <1>3, <1>4, <2>1
<1>5. ASSUME Fails, UNCHANGED db
      PROVE  OnDisk'
  <2>1. Goto("undo")
    BY <1>5 DEF Fails, Transactional
  <2> QED BY <1>4, <1>5, <2>1 DEF Written, Undoing
<1>6. ASSUME Raise, UNCHANGED db, files'.ports = job.prev.ports,
             files'.conf = job.prev.conf
      PROVE  OnDisk'
  BY <1>1, <1>2, <1>6
  DEF Raise, Free, OnDisk, DiskAtRest, DiskInMutation, DiskInBoot, Serves
<1>7. CASE WritePorts
  <2>1. files'.ports = job.work \ (db.spent \ job.renewed)
    BY <1>1, <1>7 DEF WritePorts, Files
  <2> QED BY <1>4, <1>7, <2>1 DEF WritePorts, Written, Undoing
<1>8. CASE Render
  <2>1. /\ files'.ports = files.ports /\ files'.conf.ports = files.ports
        /\ UNCHANGED db /\ job.pc = "render"
        /\ Goto(IF mode = "ssh" THEN "pushConf" ELSE "test")
    BY <1>1, <1>8, RenderedPorts DEF Render, AfterRender, At, Files
  <2> QED BY <1>2, <1>4, <2>1 DEF Written, Undoing
<1>9. CASE PushConf \/ PushPorts \/ PushRoute \/ Test \/ RestartBackup
           \/ RestartNode \/ ClearMarker
  <2>1. /\ UNCHANGED <<db, files>> /\ job.pc \in Written \ {"render"}
        /\ job'.kind = "mutation" /\ job'.work = job.work
        /\ job'.renewed = job.renewed /\ job'.prev = job.prev
        /\ job'.pc \notin Undoing
    BY <1>1, <1>9
    DEF PushConf, PushPorts, PushRoute, Test, RestartBackup, RestartNode,
        ClearMarker, AfterSync, Transactional, Goto, At, Job, Written, Undoing
  <2> QED BY <1>2, <1>3, <2>1
<1>10. CASE Mark \/ Decide
  BY <1>10 DEF Mark, Decide, At, LoadOrder
<1>11. CASE Commit
  <2>1. /\ job.pc = "commit" /\ job' = Free /\ panel' = panel /\ UNCHANGED files
        /\ db' = [enabled |-> job.work, spent |-> db.spent \ job.renewed]
    BY <1>11 DEF Commit, Done, At
  <2>2. files.ports \subseteq job.work /\ files.conf.ports \subseteq job.work
    BY <1>1, <2>1 DEF LoadOrder, Written
  <2>3. /\ job.work \ (db.spent \ job.renewed) \subseteq files.ports
        /\ job.work \ (db.spent \ job.renewed) \subseteq files.conf.ports
    BY <1>2, <2>1 DEF Written
  <2> QED BY <2>1, <2>2, <2>3
          DEF Free, OnDisk, DiskAtRest, DiskInMutation, DiskInBoot, Serves
<1>12. CASE UndoPortsFile \/ UndoConfFile
  <2>1. CASE UndoPortsFile
    <3>1. files'.ports = job.prev.ports /\ UNCHANGED db /\ Goto("undoFile")
      BY <1>1, <2>1 DEF UndoPortsFile, Files
    <3> QED BY <1>4, <3>1 DEF Written, Undoing
  <2>2. CASE UndoConfFile
    <3>1. /\ files'.ports = files.ports /\ files'.conf = job.prev.conf
          /\ UNCHANGED db /\ job.pc = "undoFile"
          /\ Goto("undoConf") \/ Goto("undoRestart") \/ Raise
      BY <1>1, <2>2 DEF UndoConfFile, UndoConfFileTo, At, Files
    <3>2. files'.ports = job.prev.ports
      BY <1>2, <3>1 DEF Undoing
    <3> QED BY <1>4, <1>6, <3>1, <3>2 DEF Written, Undoing
  <2> QED BY <1>12, <2>1, <2>2
<1>13. CASE UndoConf \/ UndoPorts \/ UndoRoute \/ UndoRestart \/ UndoFails
  <2>1. /\ UNCHANGED <<db, files>> /\ job.pc \in Undoing \ {"undoFile"}
        /\ \/ Goto("undoPorts") \/ Goto("undoRoute") \/ Goto("undoRestart")
           \/ Raise
    BY <1>13
    DEF UndoConf, UndoPorts, UndoRoute, UndoRestart, UndoFails, Fault, At,
        Undoing
  <2> QED BY <1>2, <1>4, <1>6, <2>1 DEF Written, Undoing
<1>14. CASE RenderFails
  BY <1>5, <1>14 DEF RenderFails
<1>15. CASE StepFails
  BY <1>5, <1>15 DEF StepFails
<1>16. CASE RestartNodeFails
  <2>1. /\ UNCHANGED db /\ job' = [job EXCEPT !.pc = "undo", !.loaded = TRUE]
    BY <1>16 DEF RestartNodeFails, Transactional
  <2>2. /\ job'.kind = "mutation" /\ job'.pc = "undo" /\ job'.work = job.work
        /\ job'.renewed = job.renewed /\ job'.prev = job.prev
    BY <1>1, <2>1 DEF Job
  <2> QED BY <1>3, <2>1, <2>2 DEF Written, Undoing
<1> QED BY <1>7, <1>8, <1>9, <1>10, <1>11, <1>12, <1>13, <1>14, <1>15, <1>16
        DEF Forward, Backward, Failing

\* The jobs that begin on a panel that is up leave its disk in order.
LEMMA OnDiskUp ==
  ASSUME TypeOK, JobPlace, OnDisk, job.kind \in {"manager", "modeSync"},
         Forward \/ Backward \/ Failing
  PROVE  OnDisk'
<1>1. job \in Job /\ files \in Files /\ ~Transactional
  BY KindStays DEF TypeOK, Transactional
<1>2. job' = Free \/ job'.kind \in {"manager", "modeSync"}
  BY KindStays
<1>3. /\ job.pc \in {"render", "mark", "pushConf", "pushPorts", "pushRoute",
                     "decide", "restart", "clear"}
  BY DEF JobPlace
<1>4. UNCHANGED db
  BY <1>3
  DEF Forward, Backward, Failing, WritePorts, Render, Mark, PushConf,
      PushPorts, PushRoute, Test, RestartBackup, Decide, RestartNode,
      ClearMarker, Commit, UndoPortsFile, UndoConfFile, UndoConfFileTo,
      UndoConf, UndoPorts, UndoRoute, UndoRestart, RenderFails, StepFails,
      RestartNodeFails, UndoFails, At
<1>5. /\ files'.ports = files.ports
      /\ files'.conf.ports \in {files.conf.ports, files.ports}
  <2>1. CASE Render
    BY <1>1, <2>1, RenderedPorts DEF Render, Files
  <2>2. CASE RenderFails
    <3>1. PICK conf \in {files.conf, Rendered(files.ports, RouteToRender(TRUE))} :
            files' = [files EXCEPT !.route = RouteToRender(TRUE), !.conf = conf]
      BY <2>2, Zenon DEF RenderFails
    <3>2. files'.ports = files.ports /\ files'.conf = conf
      BY <1>1, <3>1 DEF Files
    <3>3. conf.ports \in {files.conf.ports, files.ports}
      BY ZenonT(30), <3>1, RenderedPorts
    <3> QED BY <3>2, <3>3
  <2>3. CASE UNCHANGED files
    BY <2>3
  <2> QED BY <1>3, <2>1, <2>2, <2>3
          DEF Forward, Backward, Failing, WritePorts, Mark, PushConf,
              PushPorts, PushRoute, Test, RestartBackup, Decide, RestartNode,
              ClearMarker, Commit, UndoPortsFile, UndoConfFile, UndoConfFileTo,
              UndoConf, UndoPorts, UndoRoute, UndoRestart, StepFails,
              RestartNodeFails, UndoFails, At
<1>6. panel' = "up" => panel = "up"
  BY <1>1, <1>3
  DEF Forward, Backward, Failing, WritePorts, Render, Mark, PushConf,
      PushPorts, PushRoute, Test, RestartBackup, Decide, RestartNode,
      ClearMarker, Commit, UndoPortsFile, UndoConfFile, UndoConfFileTo,
      UndoConf, UndoPorts, UndoRoute, UndoRestart, RenderFails, StepFails,
      RestartNodeFails, UndoFails, At, AfterRender, AfterSync, Fails, Done,
      Raise
<1> QED BY <1>2, <1>4, <1>5, <1>6
        DEF Free, OnDisk, DiskAtRest, DiskInMutation, DiskInBoot, Serves

\* The boot's first transaction does not end with the panel up.
LEMMA OnDiskDisabling ==
  ASSUME TypeOK, JobPlace, job.kind = "bootDisable",
         Forward \/ Backward \/ Failing
  PROVE  OnDisk'
<1>1. job \in Job /\ panel = "bootDisable"
  BY KindStays DEF TypeOK, JobPlace
<1>2. job' = Free \/ job'.kind = "bootDisable"
  BY KindStays
<1>3. panel' # "up"
  BY <1>1
  DEF Forward, Backward, Failing, WritePorts, Render, Mark, PushConf,
      PushPorts, PushRoute, Test, RestartBackup, Decide, RestartNode,
      ClearMarker, Commit, UndoPortsFile, UndoConfFile, UndoConfFileTo,
      UndoConf, UndoPorts, UndoRoute, UndoRestart, RenderFails, StepFails,
      RestartNodeFails, UndoFails, At, AfterRender, AfterSync, Fails, Done,
      Raise
<1> QED BY <1>2, <1>3
        DEF Free, OnDisk, DiskAtRest, DiskInMutation, DiskInBoot

\* The boot's write puts the disk in order, whatever it found there, or the
\* boot starts again.
LEMMA OnDiskBoot ==
  ASSUME TypeOK, JobPlace, OnDisk, job.kind = "bootWrite",
         Forward \/ Backward \/ Failing
  PROVE  OnDisk'
<1>1. /\ job # Free /\ job \in Job /\ files \in Files /\ panel = "bootWrite"
      /\ job.work = db.enabled /\ job.renewed = {} /\ ~Transactional
      /\ job.pc \in {"inputs", "render", "pushConf", "pushPorts", "pushRoute",
                     "test", "restart"}
  BY KindStays DEF TypeOK, JobPlace, Transactional
<1>2. /\ job.pc # "inputs" => Serves(files)
      /\ job.pc \notin {"inputs", "render"} => Serves(files.conf)
  BY DEF OnDisk, DiskInBoot
<1>3. ASSUME UNCHANGED db, Serves(files)', Serves(files.conf)'
      PROVE  OnDisk'
  <2>1. job' = Free \/ job'.kind = "bootWrite"
    BY KindStays
  <2> QED BY <1>3, <2>1 DEF Free, OnDisk, DiskAtRest, DiskInMutation,
                            DiskInBoot
<1>4. ASSUME Raise
      PROVE  OnDisk'
  BY <1>4 DEF Raise, Free, OnDisk, DiskAtRest, DiskInMutation, DiskInBoot
<1>5. CASE WritePorts
  <2>1. files'.ports = db.enabled \ db.spent /\ UNCHANGED <<db, panel>>
    BY <1>1, <1>5 DEF WritePorts, Files
  <2>2. job'.kind = "bootWrite" /\ job'.pc = "render"
    BY <1>1, <1>5 DEF WritePorts, Goto, Job
  <2> QED BY <1>1, <2>1, <2>2
          DEF OnDisk, DiskAtRest, DiskInMutation, DiskInBoot, Serves
<1>6. CASE Render
  <2>1. /\ files'.ports = files.ports /\ files'.conf.ports = files.ports
        /\ UNCHANGED db /\ job.pc = "render"
    BY <1>1, <1>6, RenderedPorts DEF Render, At, Files
  <2> QED BY <1>2, <1>3, <2>1 DEF Serves
<1>7. CASE PushConf \/ PushPorts \/ PushRoute \/ Test \/ RestartNode
           \/ RestartNodeFails
  <2>1. UNCHANGED <<db, files>> /\ job.pc \notin {"inputs", "render"}
    BY <1>7
    DEF PushConf, PushPorts, PushRoute, Test, RestartNode, RestartNodeFails, At
  <2> QED BY <1>2, <1>3, <2>1 DEF Serves
<1>8. CASE StepFails
  <2>1. CASE job.pc \in {"pushConf", "pushPorts", "pushRoute"}
    <3>1. UNCHANGED <<db, files>>
      BY <1>8 DEF StepFails
    <3> QED BY <1>2, <1>3, <2>1, <3>1 DEF Serves
  <2>2. CASE job.pc \notin {"pushConf", "pushPorts", "pushRoute"}
    BY <1>1, <1>4, <1>8, <2>2 DEF StepFails, Fails
  <2> QED BY <2>1, <2>2
<1>9. CASE RenderFails
  BY <1>1, <1>4, <1>9 DEF RenderFails, Fails
<1>10. CASE UndoFails
  BY <1>4, <1>10 DEF UndoFails
<1>11. CASE Mark \/ Decide \/ RestartBackup \/ ClearMarker \/ Commit \/ Backward
  BY <1>1, <1>11
  DEF Mark, Decide, RestartBackup, ClearMarker, Commit, Backward,
      UndoPortsFile, UndoConfFile, UndoConfFileTo, UndoConf, UndoPorts,
      UndoRoute, UndoRestart, At
<1> QED BY <1>5, <1>6, <1>7, <1>8, <1>9, <1>10, <1>11 DEF Forward, Failing

\* Every step keeps the disk in order, but a rollback that cannot put a file
\* back.
LEMMA OnDiskStep ==
  ASSUME TypeOK, LoadOrder, JobPlace, OnDisk, [Next]_vars, "restore" \notin met'
  PROVE  OnDisk'
<1>1. CASE Booting \/ Beginning
  BY <1>1, OnDiskBegins
<1>2. CASE Forward \/ Backward \/ Failing
  <2>1. job \in Job
    BY <1>2, KindStays DEF TypeOK
  <2>2. job.kind \in {"mutation", "bootDisable", "bootWrite", "modeSync",
                      "manager"}
    BY <2>1 DEF Job, PanelKinds
  <2> QED BY <1>2, <2>2, OnDiskMutation, OnDiskUp, OnDiskDisabling, OnDiskBoot
<1>3. CASE PanelCrash
  BY <1>3
  DEF PanelCrash, PanelKinds, Free, OnDisk, DiskAtRest, DiskInMutation,
      DiskInBoot
<1>4. CASE ManagerCrash
  BY <1>4
  DEF ManagerCrash, Free, OnDisk, DiskAtRest, DiskInMutation, DiskInBoot,
      Serves
<1>5. CASE Spend
  <2>1. /\ UNCHANGED <<files, job, panel>> /\ db'.enabled = db.enabled
        /\ db.spent \subseteq db'.spent
    BY <1>5 DEF Spend, TypeOK
  <2> QED BY <2>1 DEF OnDisk, DiskAtRest, DiskInMutation, DiskInBoot, Serves
<1>6. CASE NodeRestarts \/ RouteChanges \/ UNCHANGED vars
  <2>1. UNCHANGED <<db, files, job, panel>>
    BY <1>6 DEF NodeRestarts, RouteChanges, vars
  <2> QED BY <2>1 DEF OnDisk, DiskAtRest, DiskInMutation, DiskInBoot, Serves
<1> QED BY <1>1, <1>2, <1>3, <1>4, <1>5, <1>6 DEF Next, Environment

\* Whatever fails, crashes, is lost or falls due, the disk of a panel that is
\* up serves the database, but for the change that is under way - unless a
\* rollback could not put a file back.
THEOREM DiskHolds == Spec => []("restore" \notin met => OnDisk)
<1>1. Init => OnDisk
  <2> SUFFICES ASSUME Init
               PROVE  OnDisk
    OBVIOUS
  <2>1. job.kind = "free" /\ panel = "down"
    BY DEF Init, Free
  <2> QED BY <2>1 DEF OnDisk, DiskAtRest, DiskInMutation, DiskInBoot
<1>2. TypeOK /\ LoadOrder /\ JobPlace /\ [Next]_vars
      /\ ("restore" \notin met => OnDisk)
      => ("restore" \notin met => OnDisk)'
  BY OnDiskStep, MetGrows
<1> QED BY <1>1, <1>2, TypeCorrect, LoadOrderHolds, PlaceHolds, PTL DEF Spec

\* ServesDatabase for any ports and routes, and any kinds and number of faults:
\* once the panel is up and no job is under way, config.json serves what the
\* database says unless a rollback could not put a file back, and so does the
\* node if only steps of the applies have failed.
THEOREM FailuresCompensated == Spec => []ServesDatabase
<1>1. (Kept => Serving) /\ ("restore" \notin met => OnDisk) => ServesDatabase
  BY DEF Serving, AtRest, ServesDatabase, Free, OnDisk, DiskAtRest
<1> QED BY <1>1, ServingHolds, DiskHolds, PTL

-----------------------------------------------------------------------------
(* The refinement of the atomic apply. *)

Change == IF job.kind = "mutation" THEN {job.work} ELSE {}

\* What the refinement mapping reads of a step that nothing is met in.
AtomicStep ==
  \/ /\ Change = {} /\ \E ports \in SUBSET Ports : Change' = {ports}
     /\ UNCHANGED <<db, running>>
  \/ /\ \E ports \in Change : /\ ports \ db.spent \subseteq running'.ports
                              /\ running'.ports \subseteq ports
     /\ UNCHANGED <<db, Change>>
  \/ /\ Change = {db'.enabled} /\ db'.spent \subseteq db.spent
     /\ Serves(running)' /\ Change' = {} /\ UNCHANGED running
  \/ /\ Change # {} /\ Change' = {} /\ UNCHANGED db
     /\ db.enabled \ db.spent \subseteq running'.ports
     /\ running'.ports \subseteq db.enabled
  \/ /\ db.spent \subseteq db'.spent /\ db'.spent \subseteq db.spent \cup db.enabled
     /\ db'.enabled = db.enabled /\ UNCHANGED <<running, Change>>
  \/ db' = db /\ running'.ports = running.ports /\ UNCHANGED Change

\* A job that begins starts a change, or does nothing one would see.
LEMMA AtomicBegins ==
  ASSUME TypeOK, Serving, Kept', Booting \/ Beginning
  PROVE  AtomicStep
<1>1. ASSUME job = Free, NEW work \in SUBSET Ports, NEW renewed,
             Begin("mutation", "inputs", work, renewed), UNCHANGED <<db, running>>
      PROVE  AtomicStep
  BY <1>1 DEF Begin, NewJob, Free, Change, AtomicStep
<1>2. CASE BeginMutation
  BY <1>1, <1>2 DEF BeginMutation, TypeOK
<1>3. CASE BeginDisable
  BY <1>1, <1>3 DEF BeginDisable, TypeOK
<1>4. CASE BeginModeSync \/ BeginManager
  BY <1>4 DEF BeginModeSync, BeginManager, Begin, NewJob, Free, Change,
              AtomicStep
<1>5. CASE Restart
  BY <1>5 DEF Restart, Change, AtomicStep
<1>6. CASE BootCleanup
  <2>1. db' = db
    BY <1>6 DEF BootCleanup, Serving, Boots, TypeOK
  <2> QED BY <1>6, <2>1 DEF BootCleanup, Change, AtomicStep
<1>7. CASE BootDisable \/ BootWrite
  BY <1>7 DEF BootDisable, BootWrite, Begin, NewJob, Free, Change, AtomicStep
<1> QED BY <1>2, <1>3, <1>4, <1>5, <1>6, <1>7 DEF Booting, Beginning

\* A step of a transaction deploys, commits or withdraws it, or is not seen.
LEMMA AtomicMutation ==
  ASSUME TypeOK, LoadOrder, Serving, Serving', Kept', job.kind = "mutation",
         Forward \/ Backward \/ Failing
  PROVE  AtomicStep
<1>1. job # Free /\ job \in Job /\ Change = {job.work}
  BY DEF TypeOK, Free, Change
<1>2. ASSUME UNCHANGED <<db, running>>, job'.kind = "mutation", job'.work = job.work
      PROVE  AtomicStep
  BY <1>2 DEF Change, AtomicStep
<1>3. ASSUME UNCHANGED <<db, running>>, NEW pc, Goto(pc)
      PROVE  AtomicStep
  BY <1>1, <1>2, <1>3 DEF Goto, Job
\* The rollback ends: the node serves the database, which has not changed.
<1>4. ASSUME UNCHANGED db, Raise
      PROVE  AtomicStep
  <2>1. Change' = {} /\ Serves(running)'
    BY <1>4 DEF Raise, Free, Change, Serving, AtRest
  <2> QED BY <1>1, <1>4, <2>1 DEF AtomicStep, Serves
<1>5. ASSUME UNCHANGED <<db, running>>, Fails
      PROVE  AtomicStep
  BY <1>3, <1>4, <1>5 DEF Fails
<1>6. CASE WritePorts \/ PushPorts
  BY <1>3, <1>6 DEF WritePorts, PushPorts
<1>7. CASE Render
  BY <1>3, <1>7 DEF Render, AfterRender
<1>8. CASE PushConf
  BY <1>1, <1>2, <1>8 DEF PushConf, Job
<1>9. CASE PushRoute \/ Test
  BY <1>3, <1>9 DEF PushRoute, Test, AfterSync, Transactional
<1>10. CASE RestartBackup \/ ClearMarker
  BY <1>3, <1>10 DEF RestartBackup, ClearMarker, Transactional
<1>11. CASE Mark \/ Decide
  BY <1>1, <1>11 DEF Mark, Decide, At, LoadOrder
\* The node loads the new ports, in a restart that succeeds or that fails.
<1>12. ASSUME job.pc = "restart", running' = NodeConf, UNCHANGED db,
              job'.kind = "mutation", job'.work = job.work
       PROVE  AtomicStep
  <2>1. /\ job.work \ (db.spent \ job.renewed) \subseteq NodeConf.ports
        /\ NodeConf.ports \subseteq job.work
    BY <1>1, <1>12 DEF Serving, InMutation, LoadOrder, Written, AtNode
  <2>2. Change' = Change
    BY <1>12 DEF Change
  <2> QED BY <1>1, <1>12, <2>1, <2>2 DEF AtomicStep
<1>13. CASE RestartNode
  BY <1>1, <1>12, <1>13 DEF RestartNode, At, Job
<1>14. CASE RestartNodeFails
  BY <1>1, <1>2, <1>12, <1>14 DEF RestartNodeFails, Transactional, At, Job
<1>15. CASE Commit
  <2>1. /\ db' = [enabled |-> job.work, spent |-> db.spent \ job.renewed]
        /\ job' = Free /\ running' = running
    BY <1>15 DEF Commit, Done
  <2>2. Change' = {} /\ Serves(running)'
    BY <2>1 DEF Free, Change, Serving, AtRest
  <2> QED BY <1>1, <2>1, <2>2 DEF AtomicStep
<1>16. CASE UndoPortsFile \/ UndoConfFile
  BY <1>3, <1>4, <1>16 DEF UndoPortsFile, UndoConfFile, UndoConfFileTo
<1>17. CASE UndoConf \/ UndoPorts \/ UndoRoute
  BY <1>3, <1>4, <1>17 DEF UndoConf, UndoPorts, UndoRoute
<1>18. CASE UndoRestart
  BY <1>4, <1>18 DEF UndoRestart
<1>19. CASE RenderFails \/ StepFails
  BY <1>5, <1>19 DEF RenderFails, StepFails
<1>20. CASE UndoFails
  BY <1>20, KeptExcepts DEF UndoFails
<1> QED BY <1>6, <1>7, <1>8, <1>9, <1>10, <1>11, <1>13, <1>14, <1>15, <1>16,
           <1>17, <1>18, <1>19, <1>20
        DEF Forward, Backward, Failing

\* Every step is a step of the abstract apply, or is not seen.
LEMMA AtomicNext ==
  ASSUME TypeOK, LoadOrder, Serving, Serving', [Next]_vars, Kept'
  PROVE  AtomicStep
<1>1. CASE Booting \/ Beginning
  BY <1>1, AtomicBegins
<1>2. CASE (Forward \/ Backward \/ Failing) /\ job.kind = "mutation"
  BY <1>2, AtomicMutation
<1>3. CASE (Forward \/ Backward \/ Failing) /\ job.kind # "mutation"
  <2>1. job # Free
    BY <1>3
    DEF Forward, Backward, Failing, WritePorts, Render, Mark, PushConf,
        PushPorts, PushRoute, Test, RestartBackup, Decide, RestartNode,
        ClearMarker, Commit, UndoPortsFile, UndoConfFile, UndoConfFileTo,
        UndoConf, UndoPorts, UndoRoute, UndoRestart, RenderFails, StepFails,
        RestartNodeFails, UndoFails, At
  <2>2. db' = db /\ running'.ports = running.ports
    BY <1>3, <2>1, OthersAgree
  <2>3. job'.kind # "mutation"
    BY <1>3, <2>1, <2>2, OthersShaped
  <2> QED BY <1>3, <2>2, <2>3 DEF Change, AtomicStep
<1>4. CASE Spend
  <2>1. UNCHANGED <<running, job, panel>> /\ panel = "up"
    BY <1>4, KeptExcepts DEF Spend
  <2>2. /\ db'.enabled = db.enabled /\ db.spent \subseteq db'.spent
        /\ db'.spent \subseteq db.spent \cup db.enabled
    BY <1>4 DEF Spend, TypeOK
  <2> QED BY <2>1, <2>2 DEF Change, AtomicStep
<1>5. CASE RouteChanges \/ UNCHANGED vars
  BY <1>5 DEF RouteChanges, vars, Change, AtomicStep
<1>6. CASE PanelCrash \/ ManagerCrash \/ NodeRestarts
  BY <1>6, KeptExcepts DEF PanelCrash, ManagerCrash, NodeRestarts
<1> QED BY <1>1, <1>2, <1>3, <1>4, <1>5, <1>6 DEF Next, Environment

\* The steps of the applies, the boot, the manager and their rollbacks
\* implement the atomic apply, for any ports and routes and any number of
\* failing steps: what AtomicApply promises (SoldServed) holds of the code.
THEOREM ApplyIsAtomic == Spec => AppliesAtomically
<1>1. Init => Atomic!Init
  <2> SUFFICES ASSUME Init
               PROVE  Atomic!Init
    OBVIOUS
  <2>1. PICK ports \in SUBSET Ports :
          /\ db = [enabled |-> ports, spent |-> {}]
          /\ running = Rendered(ports, "direct")
    BY DEF Init
  <2>2. job.kind # "mutation" /\ met = {}
    BY DEF Init, Free
  <2>3. Kept = TRUE
    BY <2>2 DEF Kept
  <2> QED BY <2>1, <2>2, <2>3, RenderedPorts DEF Atomic!Init
<1>2. TypeOK /\ LoadOrder /\ (Kept => Serving) /\ (Kept => Serving)' /\ [Next]_vars
      => [Atomic!Next]_Atomic!vars
  <2> SUFFICES ASSUME TypeOK, LoadOrder, Kept => Serving, (Kept => Serving)',
                      [Next]_vars
               PROVE  [Atomic!Next]_Atomic!vars
    OBVIOUS
  <2>1. CASE ~Kept'
    BY <2>1 DEF Atomic!Next
  <2>2. CASE Kept'
    <3>1. Kept
      BY <2>2, KeptBefore
    <3>2. AtomicStep
      BY <2>2, <3>1, AtomicNext
    <3>3. Kept' = Kept
      BY <2>2, <3>1
    <3> QED BY <3>2, <3>3
            DEF AtomicStep, Change, Serves, Atomic!Next, Atomic!vars,
                Atomic!Start, Atomic!Deploy, Atomic!Commit, Atomic!Withdraw,
                Atomic!FallsDue, Atomic!Covers
  <2> QED BY <2>1, <2>2
<1> QED BY <1>1, <1>2, TypeCorrect, LoadOrderHolds, ServingHolds, PTL
        DEF Spec, AppliesAtomically, Atomic!Spec

\* A step of the atomic apply keeps its promise: a change may break it while
\* it is under way (Deploy), and both of its ends establish it afresh.
LEMMA PromiseStep ==
  Atomic!SoldIsServed /\ [Atomic!Next]_Atomic!vars => Atomic!SoldIsServed'
<1> DEFINE Underway == IF job.kind = "mutation" THEN {job.work} ELSE {}
<1> SUFFICES ASSUME Atomic!SoldIsServed, [Atomic!Next]_Atomic!vars,
                    Kept', Underway' = {}
             PROVE  Atomic!Covers(db.enabled, db.spent)'
  BY DEF Atomic!SoldIsServed
<1> HIDE DEF Underway
<1>1. CASE UNCHANGED Atomic!vars
  BY <1>1 DEF Atomic!SoldIsServed, Atomic!Covers, Atomic!vars, Underway
<1>2. CASE Kept' = FALSE
  BY <1>2
<1>3. CASE Kept' = Kept /\ Atomic!Start
  <2>1. Underway' # {}
    BY <1>3 DEF Atomic!Start, Underway
  <2> QED BY <2>1
<1>4. CASE Kept' = Kept /\ Atomic!Deploy
  <2>1. Underway' # {}
    BY <1>4 DEF Atomic!Deploy, Underway
  <2> QED BY <2>1
<1>5. CASE Kept' = Kept /\ Atomic!Commit
  BY <1>5 DEF Atomic!Commit, Atomic!Covers
<1>6. CASE Kept' = Kept /\ Atomic!Withdraw
  BY <1>6 DEF Atomic!Withdraw, Atomic!Covers
<1>7. CASE Kept' = Kept /\ Atomic!FallsDue
  \* What is owed can only shrink.
  <2>1. Atomic!Covers(db.enabled, db.spent)
    BY <1>7 DEF Atomic!FallsDue, Atomic!SoldIsServed, Underway
  <2> QED BY <1>7, <2>1 DEF Atomic!FallsDue, Atomic!Covers
<1> QED BY <1>1, <1>2, <1>3, <1>4, <1>5, <1>6, <1>7 DEF Atomic!Next

\* What the code inherits from the atomic apply: whenever no change is under
\* way and nothing has happened that the promise excepts, the node serves every
\* port that is owed and none that is not sold.
THEOREM SoldServed == Spec => []Atomic!SoldIsServed
<1>1. Atomic!Init => Atomic!SoldIsServed
  BY DEF Atomic!Init, Atomic!SoldIsServed, Atomic!Covers
<1>2. AppliesAtomically => []Atomic!SoldIsServed
  BY <1>1, PromiseStep, PTL DEF AppliesAtomically, Atomic!Spec
<1> QED BY <1>2, ApplyIsAtomic, PTL

-----------------------------------------------------------------------------
(* What a remote node has not loaded is marked.  Each kind of job keeps its *)
(* own account of it while it is under way.                                 *)

Noted == mode = "ssh" /\ Kept /\ {"pull", "apart"} \cap met = {}

Same == running = remote.conf /\ files.conf = remote.conf

NotingManager ==
  job.kind = "manager" =>
    /\ job.pc = "render" => marker \/ (Same /\ job.prev.conf = files.conf)
    /\ job.pc = "mark" =>
         marker \/ (running = remote.conf /\ job.prev.conf = remote.conf)
    /\ job.pc \in {"pushConf", "pushPorts", "pushRoute", "decide"} =>
         IF job.changed THEN marker ELSE Same
    /\ job.pc = "restart" => marker
    /\ job.pc = "clear" => running = remote.conf

NotingBoot ==
  job.kind = "bootWrite" =>
    /\ marker \/ Same
    /\ job.pc \in {"inputs", "render"} =>
         marker \/ remote.route = remote.conf.route

NotingMutation ==
  job.kind = "mutation" =>
    /\ job.pc \in {"clear", "commit"} => job.loaded
    /\ ~job.loaded => marker \/ running = job.prev.conf

Noting ==
  /\ job = Free \/ job.kind = "modeSync" => running = remote.conf \/ marker
  /\ NotingManager /\ NotingBoot /\ NotingMutation

\* A rendering that fails removes no marker.
LEMMA RenderFailsMarks ==
  ASSUME RenderFails
  PROVE  marker => marker'
<1>1. PICK conf \in {files.conf, Rendered(files.ports, RouteToRender(TRUE))} :
        marker' = (marker \/ (job.kind = "manager" /\ conf # files.conf))
  BY Zenon DEF RenderFails
<1> QED BY <1>1, Zenon

\* What is promised after a step was promised before it.
LEMMA NotedBefore ==
  ASSUME [Next]_vars, Noted', UNCHANGED mode
  PROVE  Noted
BY MetGrows DEF Kept, Noted

\* A job that begins finds panel and node in step, or the marker.
LEMMA NotingBegins ==
  ASSUME TypeOK, Noting, Noted', mode = "ssh", Booting \/ Beginning
  PROVE  Noting'
<1>1. ASSUME NEW kind, NEW pc, NEW work, NEW renewed,
             Begin(kind, pc, work, renewed)
      PROVE  marker \/ InStep
  BY <1>1 DEF Begin, Noted, TypeOK
<1>2. ASSUME job = Free, NEW work, NEW renewed,
             Begin("mutation", "inputs", work, renewed),
             UNCHANGED <<marker, files, remote, running>>
      PROVE  Noting'
  BY <1>1, <1>2
  DEF Begin, NewJob, InStep, Free, Noting, NotingManager, NotingBoot,
      NotingMutation
<1>3. CASE BeginMutation
  BY <1>2, <1>3 DEF BeginMutation
<1>4. CASE BeginDisable
  BY <1>2, <1>4 DEF BeginDisable
<1>5. CASE BeginModeSync
  BY <1>5
  DEF BeginModeSync, Begin, NewJob, Free, Noting, NotingManager, NotingBoot,
      NotingMutation
<1>6. CASE BeginManager
  <2>1. files'.conf = files.conf
    BY <1>6 DEF BeginManager, TypeOK, Files
  <2>2. marker \/ InStep
    BY <1>1, <1>6 DEF BeginManager
  <2> QED BY <1>6, <2>1, <2>2
          DEF BeginManager, Begin, NewJob, Free, InStep, Same, Noting,
              NotingManager, NotingBoot, NotingMutation
<1>7. CASE Restart \/ BootCleanup
  BY <1>7
  DEF Restart, BootCleanup, Noting, NotingManager, NotingBoot, NotingMutation,
      Same
<1>8. CASE BootDisable
  BY <1>8
  DEF BootDisable, Begin, NewJob, Free, Noting, NotingManager, NotingBoot,
      NotingMutation, Same
<1>9. CASE BootWrite
  <2>1. CASE Begin("bootWrite", "inputs", db.enabled, {})
    BY <1>1, <1>9, <2>1
    DEF BootWrite, Begin, NewJob, Free, InStep, Same, Noting, NotingManager,
        NotingBoot, NotingMutation
  <2>2. CASE UNCHANGED <<job, met>>
    BY <1>9, <2>2
    DEF BootWrite, Noting, NotingManager, NotingBoot, NotingMutation, Same
  <2> QED BY <1>9, <2>1, <2>2 DEF BootWrite
<1> QED BY <1>3, <1>4, <1>5, <1>6, <1>7, <1>8, <1>9 DEF Booting, Beginning

\* The steps of a transaction keep its account.
LEMMA NotingMutationStep ==
  ASSUME TypeOK, LoadOrder, Serving, Noting, Noted', mode = "ssh",
         job.kind = "mutation", Forward \/ Backward \/ Failing
  PROVE  Noting'
<1>1. job # Free /\ job \in Job
  BY DEF TypeOK, Free
<1>2. /\ job.pc \in {"clear", "commit"} => job.loaded
      /\ ~job.loaded => marker \/ running = job.prev.conf
      /\ job.pc \in Undoing \ {"undoFile"} => files.conf = job.prev.conf
      /\ job.pc \in Undoing \ {"undoFile", "undoConf"} =>
           remote.conf = job.prev.conf
  BY DEF Noting, NotingMutation, Serving, InMutation, NodeConf
<1>3. ASSUME job'.kind = "mutation", job'.prev = job.prev,
             job'.pc \in {"clear", "commit"} => job'.loaded,
             ~job'.loaded => ~job.loaded /\ UNCHANGED <<marker, running>>
      PROVE  Noting'
  BY <1>2, <1>3 DEF Free, Noting, NotingManager, NotingBoot, NotingMutation
<1>4. ASSUME NEW pc, Goto(pc), UNCHANGED <<marker, running>>,
             pc \notin {"clear", "commit"} \/ job.loaded
      PROVE  Noting'
  BY <1>1, <1>3, <1>4 DEF Goto, Job
<1>5. ASSUME job' = Free, running' = remote'.conf \/ marker'
      PROVE  Noting'
  BY <1>5 DEF Free, Noting, NotingManager, NotingBoot, NotingMutation
<1>6. ASSUME Fails, UNCHANGED <<marker, running>>
      PROVE  Noting'
  BY <1>4, <1>6 DEF Fails, Transactional
<1>7. CASE WritePorts \/ PushPorts
  BY <1>4, <1>7 DEF WritePorts, PushPorts
<1>8. CASE Render
  BY <1>4, <1>8 DEF Render, AfterRender
<1>9. CASE PushConf
  BY <1>1, <1>3, <1>9 DEF PushConf, Job
<1>10. CASE PushRoute \/ Test
  BY <1>4, <1>10 DEF PushRoute, Test, AfterSync, Transactional
<1>11. CASE RestartBackup
  BY <1>4, <1>11 DEF RestartBackup
<1>12. CASE Mark \/ Decide
  BY <1>1, <1>12 DEF Mark, Decide, At, LoadOrder
<1>13. CASE RestartNode
  BY <1>1, <1>3, <1>13 DEF RestartNode, Job
<1>14. CASE RestartNodeFails
  BY <1>1, <1>3, <1>14 DEF RestartNodeFails, Transactional, Job
<1>15. CASE ClearMarker
  BY <1>1, <1>2, <1>3, <1>15 DEF ClearMarker, Transactional, Goto, At, Job
<1>16. CASE Commit
  <2>1. /\ job' = Free /\ job.pc = "commit"
        /\ UNCHANGED <<running, remote, marker>>
    BY <1>16 DEF Commit, Done, At
  <2>2. running = remote.conf
    BY <1>1, <2>1 DEF LoadOrder, NodeConf
  <2> QED BY <1>5, <2>1, <2>2
<1>17. CASE UndoPortsFile \/ UndoConfFile
  BY <1>4, <1>17 DEF UndoPortsFile, UndoConfFile, UndoConfFileTo
<1>18. CASE UndoConf \/ UndoPorts
  BY <1>4, <1>18 DEF UndoConf, UndoPorts
<1>19. CASE UndoRoute
  <2>1. /\ remote'.conf = remote.conf /\ job.pc = "undoRoute"
        /\ UNCHANGED <<running, marker>>
        /\ Goto("undoRestart") \/ (~job.loaded /\ job' = Free)
    BY <1>19 DEF UndoRoute, Raise, At, TypeOK, Files
  <2> QED BY <1>2, <1>4, <1>5, <2>1 DEF Undoing
<1>20. CASE UndoRestart
  <2>1. running' = remote.conf /\ remote' = remote /\ job' = Free
    BY <1>20 DEF UndoRestart, NodeConf, Raise
  <2> QED BY <1>5, <2>1
<1>21. CASE RenderFails
  <2>1. UNCHANGED running /\ Fails
    BY <1>21 DEF RenderFails
  <2>2. marker' = marker
    BY <1>21 DEF RenderFails, TypeOK
  <2> QED BY <1>6, <2>1, <2>2
<1>22. CASE StepFails
  BY <1>6, <1>22 DEF StepFails
<1>23. CASE UndoFails
  BY <1>23, KeptExcepts DEF UndoFails, Noted
<1> QED BY <1>7, <1>8, <1>9, <1>10, <1>11, <1>12, <1>13, <1>14, <1>15, <1>16,
           <1>17, <1>18, <1>19, <1>20, <1>21, <1>22, <1>23
        DEF Forward, Backward, Failing

\* The steps of the manager's cycle keep its account.
LEMMA NotingManagerStep ==
  ASSUME TypeOK, Serving, Noting, Noted', mode = "ssh", job.kind = "manager",
         Forward \/ Backward \/ Failing
  PROVE  Noting'
<1>1. job # Free /\ job \in Job /\ ~Transactional
  BY DEF TypeOK, Free, Transactional
<1>2. /\ job.pc = "render" => marker \/ (Same /\ job.prev.conf = files.conf)
      /\ job.pc = "mark" =>
           marker \/ (running = remote.conf /\ job.prev.conf = remote.conf)
      /\ job.pc \in {"pushConf", "pushPorts", "pushRoute", "decide"} =>
           IF job.changed THEN marker ELSE Same
      /\ job.pc = "restart" => marker
      /\ job.pc = "clear" => running = remote.conf
      /\ job.pc \in {"render", "mark", "pushConf", "pushPorts", "pushRoute",
                     "decide", "restart", "clear"}
  BY DEF Noting, NotingManager, Serving, JobShape
<1>3. ASSUME job' = Free, running' = remote'.conf \/ marker'
      PROVE  Noting'
  BY <1>3 DEF Free, Noting, NotingManager, NotingBoot, NotingMutation
<1>4. ASSUME job'.kind = "manager", NotingManager'
      PROVE  Noting'
  BY <1>4 DEF Free, Noting, NotingBoot, NotingMutation
<1>5. ASSUME Fails
      PROVE  job' = Free
  BY <1>1, <1>5 DEF Fails, Raise
<1>6. CASE Render
  <2>1. /\ job.pc = "render" /\ UNCHANGED <<marker, running, remote>>
        /\ job'.kind = job.kind /\ job'.prev = job.prev /\ job'.pc = "mark"
    BY <1>1, <1>6 DEF Render, AfterRender, Goto, At, Job
  <2> QED BY <1>2, <1>4, <2>1 DEF NotingManager, Same
<1>7. CASE RenderFails
  <2>1. job' = Free /\ job.pc = "render" /\ UNCHANGED <<running, remote>>
    BY <1>5, <1>7 DEF RenderFails, At
  <2>2. marker \/ running = remote.conf
    BY <1>2, <2>1 DEF Same
  <2>3. running' = remote'.conf \/ marker'
    BY <1>7, <2>1, <2>2, RenderFailsMarks, Zenon
  <2> QED BY <1>3, <2>1, <2>3
<1>8. CASE Mark
  <2> DEFINE changed == files.conf # job.prev.conf \/ marker
  <2>1. /\ job.pc = "mark" /\ UNCHANGED <<running, remote, files>>
        /\ job'.kind = job.kind /\ job'.pc = "pushConf"
        /\ job'.changed = changed /\ marker' = changed
    BY <1>1, <1>8 DEF Mark, At, Job
  <2>2. ~changed => Same
    BY <1>2, <2>1 DEF Same
  <2> HIDE DEF changed
  <2> QED BY <1>4, <2>1, <2>2 DEF NotingManager, Same
<1>9. CASE PushConf
  <2>1. /\ job.pc = "pushConf" /\ UNCHANGED <<running, files, marker>>
        /\ job'.kind = job.kind /\ job'.pc = "pushPorts"
        /\ remote'.conf = files.conf
        /\ job'.changed = (job.changed \/ remote.conf # files.conf)
    BY <1>1, <1>9 DEF PushConf, At, Job, TypeOK, Files
  <2>2. CASE job.changed
    <3>1. job'.changed = TRUE /\ marker'
      BY <1>2, <2>1, <2>2
    <3> QED BY <1>4, <2>1, <3>1 DEF NotingManager
  <2>3. CASE ~job.changed
    <3>1. job'.changed = FALSE /\ Same'
      BY <1>2, <2>1, <2>3 DEF Same
    <3> QED BY <1>4, <2>1, <3>1 DEF NotingManager
  <2> QED BY <2>2, <2>3
<1>10. CASE PushPorts \/ PushRoute
  <2>1. /\ job.pc \in {"pushPorts", "pushRoute"}
        /\ UNCHANGED <<running, files, marker>> /\ remote'.conf = remote.conf
        /\ job'.kind = job.kind /\ job'.pc \in {"pushRoute", "decide"}
        /\ job'.changed = job.changed
    BY <1>1, <1>10
    DEF PushPorts, PushRoute, AfterSync, Goto, At, Job, TypeOK, Files
  <2> QED BY <1>2, <1>4, <2>1 DEF NotingManager, Same
<1>11. CASE Decide
  <2>1. /\ job.pc = "decide" /\ UNCHANGED <<running, remote>>
        /\ marker' = job.changed
    BY <1>11 DEF Decide, At
  <2>2. CASE job.changed
    <3>1. job'.kind = job.kind /\ job'.pc = "restart"
      BY <1>1, <1>11, <2>2 DEF Decide, Goto, Job
    <3> QED BY <1>4, <2>1, <2>2, <3>1 DEF NotingManager
  <2>3. CASE ~job.changed
    <3>1. job' = Free
      BY <1>11, <2>3 DEF Decide, Done
    <3>2. running = remote.conf
      BY <1>2, <2>1, <2>3 DEF Same
    <3> QED BY <1>3, <2>1, <3>1, <3>2
  <2> QED BY <2>2, <2>3
<1>12. CASE RestartNode
  <2>1. /\ running' = remote.conf /\ remote' = remote
        /\ job'.kind = job.kind /\ job'.pc = "clear"
    BY <1>1, <1>12 DEF RestartNode, NodeConf, Job
  <2> QED BY <1>4, <2>1 DEF NotingManager
<1>13. CASE RestartNodeFails
  <2>1. job' = Free /\ job.pc = "restart" /\ marker' = marker
    BY <1>1, <1>13 DEF RestartNodeFails, Raise, At
  <2> QED BY <1>2, <1>3, <2>1
<1>14. CASE ClearMarker
  <2>1. job' = Free /\ job.pc = "clear" /\ UNCHANGED <<running, remote>>
    BY <1>1, <1>14 DEF ClearMarker, Done, At
  <2> QED BY <1>2, <1>3, <2>1
<1>15. CASE StepFails
  <2>1. /\ job' = Free /\ UNCHANGED <<running, remote, marker>>
        /\ job.pc \in {"pushConf", "pushPorts", "pushRoute", "clear"}
    BY <1>2, <1>5, <1>15 DEF StepFails
  <2>2. running = remote.conf \/ marker
    BY <1>2, <2>1 DEF Same
  <2> QED BY <1>3, <2>1, <2>2
<1>16. CASE WritePorts \/ Test \/ RestartBackup \/ Commit \/ Backward \/ UndoFails
  BY <1>2, <1>16
  DEF WritePorts, Test, RestartBackup, Commit, Backward, UndoPortsFile,
      UndoConfFile, UndoConfFileTo, UndoConf, UndoPorts, UndoRoute,
      UndoRestart, UndoFails, At
<1> QED BY <1>6, <1>7, <1>8, <1>9, <1>10, <1>11, <1>12, <1>13, <1>14, <1>15, <1>16
        DEF Forward, Failing

\* The steps of the boot's sync keep its account.
LEMMA NotingBootStep ==
  ASSUME TypeOK, Serving, Noting, Noted', mode = "ssh", job.kind = "bootWrite",
         Forward \/ Backward \/ Failing
  PROVE  Noting'
<1>1. job # Free /\ job \in Job /\ ~Transactional
  BY DEF TypeOK, Free, Transactional
<1>2. /\ job.pc \in {"inputs", "render", "pushConf", "pushPorts", "pushRoute",
                     "test", "restart"}
      /\ files.ports = running.ports
  BY DEF Serving, JobShape, AtRest
<1>3. /\ marker \/ Same
      /\ job.pc \in {"inputs", "render"} =>
           marker \/ remote.route = remote.conf.route
  BY DEF Noting, NotingBoot
<1>4. ASSUME job' = Free, running' = remote'.conf \/ marker'
      PROVE  Noting'
  BY <1>4 DEF Free, Noting, NotingManager, NotingBoot, NotingMutation
<1>5. ASSUME job'.kind = "bootWrite", NotingBoot'
      PROVE  Noting'
  BY <1>5 DEF Free, Noting, NotingManager, NotingMutation
<1>6. marker \/ running = remote.conf
  BY <1>3 DEF Same
<1>7. ASSUME Fails \/ Done
      PROVE  job' = Free
  BY <1>1, <1>7 DEF Fails, Raise, Done
<1>8. CASE WritePorts
  <2>1. /\ UNCHANGED <<marker, running, remote>> /\ files'.conf = files.conf
        /\ job'.kind = job.kind /\ job.pc = "inputs"
    BY <1>1, <1>8 DEF WritePorts, Goto, At, Job, TypeOK, Files
  <2> QED BY <1>2, <1>3, <1>5, <2>1 DEF NotingBoot, Same
\* The node's fragment is pulled, so the rendered configuration is the node's.
<1>9. CASE Render
  <2>1. /\ UNCHANGED <<marker, running, remote>>
        /\ job'.kind = job.kind /\ job.pc = "render" /\ job'.pc = "pushConf"
    BY <1>1, <1>9 DEF Render, AfterRender, Goto, At, Job
  <2>2. files'.conf = Rendered(files.ports, remote.route)
    <3>1. PICK pulled \in BOOLEAN :
            /\ IF pulled THEN NoFault
               ELSE mode = "ssh" /\ job.kind # "manager" /\ Fault("pull")
            /\ files' = [files EXCEPT
                  !.route = RouteToRender(pulled),
                  !.conf = Rendered(files.ports, RouteToRender(pulled))]
      BY <1>9 DEF Render
    <3>2. pulled
      BY <3>1 DEF Fault, Noted
    <3> QED BY <3>1, <3>2 DEF RouteToRender, TypeOK, Files
  <2>3. CASE marker
    BY <1>5, <2>1, <2>3 DEF NotingBoot
  <2>4. CASE ~marker
    <3>1. remote.conf = Rendered(files.ports, remote.route)
      BY <1>2, <1>3, <2>1, <2>4 DEF Rendered, Same, TypeOK, Files, Config
    <3> QED BY <1>2, <1>3, <1>5, <2>1, <2>2, <2>4, <3>1 DEF NotingBoot, Same
  <2> QED BY <2>3, <2>4
<1>10. CASE PushConf
  <2>1. /\ UNCHANGED <<marker, running, files>> /\ remote'.conf = files.conf
        /\ job'.kind = job.kind /\ job'.pc = "pushPorts"
    BY <1>1, <1>10 DEF PushConf, Job, TypeOK, Files
  <2> QED BY <1>2, <1>3, <1>5, <2>1 DEF NotingBoot, Same
<1>11. CASE PushPorts \/ PushRoute
  <2>1. /\ UNCHANGED <<marker, running, files>> /\ remote'.conf = remote.conf
        /\ \/ job'.kind = job.kind /\ job'.pc \in {"pushRoute", "restart"}
           \/ job' = Free
    BY <1>1, <1>7, <1>11
    DEF PushPorts, PushRoute, AfterSync, Goto, Job, TypeOK, Files
  <2> QED BY <1>2, <1>3, <1>4, <1>5, <1>6, <2>1 DEF NotingBoot, Same
<1>12. CASE Test
  BY <1>1, <1>2, <1>3, <1>4, <1>5, <1>6, <1>7, <1>12
  DEF Test, AfterSync, Goto, Job, NotingBoot, Same
<1>13. CASE RestartNode
  <2>1. running' = remote.conf /\ remote' = remote /\ job' = Free
    BY <1>7, <1>13 DEF RestartNode, NodeConf
  <2> QED BY <1>4, <2>1
<1>14. CASE RestartNodeFails
  <2>1. /\ running' \in {running, remote.conf} /\ job' = Free
        /\ UNCHANGED <<marker, remote>>
    BY <1>1, <1>7, <1>14 DEF RestartNodeFails, NodeConf
  <2> QED BY <1>4, <1>6, <2>1
<1>15. CASE RenderFails
  <2>1. UNCHANGED <<running, remote>> /\ job' = Free
    BY <1>7, <1>15 DEF RenderFails
  <2>2. running' = remote'.conf \/ marker'
    BY <1>6, <1>15, <2>1, RenderFailsMarks, Zenon
  <2> QED BY <1>4, <2>1, <2>2
<1>16. CASE StepFails
  <2>1. UNCHANGED <<running, remote, marker>> /\ job' = Free
    BY <1>7, <1>16 DEF StepFails
  <2> QED BY <1>4, <1>6, <2>1
<1>17. CASE Mark \/ Decide \/ RestartBackup \/ ClearMarker \/ Commit \/ Backward
            \/ UndoFails
  BY <1>2, <1>3, <1>17
  DEF Mark, Decide, RestartBackup, ClearMarker, Commit, Backward,
      UndoPortsFile, UndoConfFile, UndoConfFileTo, UndoConf, UndoPorts,
      UndoRoute, UndoRestart, UndoFails, At
<1> QED BY <1>8, <1>9, <1>10, <1>11, <1>12, <1>13, <1>14, <1>15, <1>16, <1>17
        DEF Forward, Failing

\* Every step keeps Noting.
LEMMA NotingStep ==
  ASSUME TypeOK, LoadOrder, Serving, Noting, [Next]_vars, Noted', mode = "ssh"
  PROVE  Noting'
<1>1. CASE Booting \/ Beginning
  BY <1>1, NotingBegins
<1>2. CASE Forward \/ Backward \/ Failing
  <2>1. job # Free /\ job \in Job
    BY <1>2
    DEF Forward, Backward, Failing, WritePorts, Render, Mark, PushConf,
        PushPorts, PushRoute, Test, RestartBackup, Decide, RestartNode,
        ClearMarker, Commit, UndoPortsFile, UndoConfFile, UndoConfFileTo,
        UndoConf, UndoPorts, UndoRoute, UndoRestart, RenderFails, StepFails,
        RestartNodeFails, UndoFails, At, TypeOK
  <2>2. job.kind \in {"mutation", "manager", "bootWrite", "modeSync"}
    BY <2>1 DEF Job, PanelKinds, Serving, JobShape
  \* A sync of the backup's mode renders, and that is all.
  <2>3. CASE job.kind = "modeSync"
    <3>1. job.pc = "render" /\ (running = remote.conf \/ marker)
      BY <2>3 DEF Serving, JobShape, Noting
    <3>2. Render \/ RenderFails
      BY <1>2, <2>3, <3>1
      DEF Forward, Backward, Failing, WritePorts, Mark, PushConf, PushPorts,
          PushRoute, Test, RestartBackup, Decide, RestartNode, ClearMarker,
          Commit, UndoPortsFile, UndoConfFile, UndoConfFileTo, UndoConf,
          UndoPorts, UndoRoute, UndoRestart, StepFails, RestartNodeFails,
          UndoFails, At
    <3>3. UNCHANGED <<running, remote>> /\ job' = Free
      BY <2>3, <3>2
      DEF Render, RenderFails, AfterRender, Done, Fails, Raise, Transactional
    <3>4. marker => marker'
      <4>1. CASE Render
        BY <4>1, Zenon DEF Render
      <4> QED BY <3>2, <4>1, RenderFailsMarks
    <3>5. running' = remote'.conf \/ marker'
      BY <3>1, <3>3, <3>4, Zenon
    <3> QED BY <3>3, <3>5
            DEF Free, Noting, NotingManager, NotingBoot, NotingMutation
  <2> QED BY <1>2, <2>2, <2>3, NotingMutationStep, NotingManagerStep,
             NotingBootStep
<1>3. CASE Spend \/ RouteChanges \/ UNCHANGED vars
  <2>1. UNCHANGED <<files, remote, running, marker, job>>
    BY <1>3 DEF Spend, RouteChanges, vars
  <2> QED BY <2>1
          DEF Noting, NotingManager, NotingBoot, NotingMutation, Same
<1>4. CASE PanelCrash \/ ManagerCrash \/ NodeRestarts
  BY <1>4, KeptExcepts DEF PanelCrash, ManagerCrash, NodeRestarts, Noted
<1> QED BY <1>1, <1>2, <1>3, <1>4 DEF Next, Environment

\* The kind of the data plane does not change.
LEMMA ModeFixed == [Next]_vars => mode' = mode
BY DEF Next, vars, Forward, Backward, Failing, Booting, Beginning, Environment,
       WritePorts, Render, Mark, PushConf, PushPorts, PushRoute, Test,
       RestartBackup, Decide, RestartNode, ClearMarker, Commit, UndoPortsFile,
       UndoConfFile, UndoConfFileTo, UndoConf, UndoPorts, UndoRoute,
       UndoRestart, RenderFails, StepFails, RestartNodeFails, UndoFails,
       Restart, BootCleanup, BootDisable, BootWrite, BeginMutation,
       BeginDisable, BeginModeSync, BeginManager, PanelCrash, ManagerCrash,
       NodeRestarts, Spend, RouteChanges

\* LoadedOrMarked for any ports and routes and any number of failing steps:
\* what a remote node holds and has not loaded is marked.
THEOREM UnloadedIsMarked == Spec => []LoadedOrMarked
<1>1. Init => (Noted => Noting)
  BY DEF Init, Noting, NotingManager, NotingBoot, NotingMutation, Free
<1>2. TypeOK /\ LoadOrder /\ (Kept => Serving) /\ (Noted => Noting) /\ [Next]_vars
      => (Noted => Noting)'
  <2> SUFFICES ASSUME TypeOK, LoadOrder, Kept => Serving, Noted => Noting,
                      [Next]_vars, Noted'
               PROVE  Noting'
    OBVIOUS
  <2>1. Noted
    BY NotedBefore, ModeFixed
  <2> QED BY <2>1, NotingStep DEF Noted
<1>3. (Noted => Noting) => LoadedOrMarked
  BY DEF Noted, Noting, LoadedOrMarked, NodeConf
<1> QED BY <1>1, <1>2, <1>3, TypeCorrect, LoadOrderHolds, ServingHolds, PTL
        DEF Spec

-----------------------------------------------------------------------------
(***************************************************************************)
(* What one crash, or one restart of the node by others, leaves behind on  *)
(* a remote node, and that the boot finds it (BootRepairs).                *)
(***************************************************************************)

\* Before the first fault no job goes back.
Early ==
  used.faults = 0 =>
    /\ met \subseteq {"apart"}
    /\ job.kind = "mutation" =>
         /\ job.pc \notin {"undo"} \cup Undoing
         /\ job.loaded => job.pc \in {"clear", "commit"}

\* The node serves the database, and would after a restart.
NodeRight == running.ports = db.enabled /\ remote.conf.ports = db.enabled

\* If the node does not serve the database, its file is not the one that the
\* boot will upload, so that the boot restarts it.
WillNotice == running.ports = db.enabled \/ remote.conf.ports # db.enabled

\* Nor do a manager's cycle and its restart make the file and the database
\* agree behind the node's back: they spread the ports file.
WillNoticeYet ==
  \/ running.ports = db.enabled
  \/ remote.conf.ports # db.enabled /\ files.ports # db.enabled

\* After the one fault, as long as there is no second one and nothing is due.
Mending ==
  /\ job.kind # "bootDisable"
  /\ panel = "up" /\ job.kind # "mutation" => NodeRight
  /\ job.kind = "mutation" =>
       /\ job.pc \notin {"undo"} \cup Undoing
       /\ job.pc \in AtNode => remote.conf.ports = job.work
  /\ panel # "up" /\ job.kind # "bootWrite" => WillNoticeYet
  /\ panel # "up" /\ job.kind = "manager" =>
       /\ job.pc # "render" => files.conf.ports = files.ports
       /\ job.pc \notin {"render", "mark", "pushConf"} =>
            remote.conf.ports = files.ports
  /\ job.kind = "bootWrite" =>
       /\ job.pc = "inputs" => WillNoticeYet
       /\ job.pc \in {"render", "pushConf"} => WillNotice
       /\ job.pc \in {"pushPorts", "pushRoute"} =>
            /\ remote.conf.ports = db.enabled
            /\ running.ports = db.enabled \/ job.changed
       /\ job.pc = "restart" => remote.conf.ports = db.enabled

OneFault ==
  mode = "ssh" =>
    Early /\ (used.faults = 1 /\ ~Kept => Mending /\ "restore" \notin met)

\* A step counts what it meets, or meets nothing but what it notes.
LEMMA FaultsCounted ==
  ASSUME TypeOK, [Next]_vars
  PROVE  \/ used'.faults = used.faults /\ met' \subseteq met \cup {"apart"}
         \/ \E kind \in FaultKinds : Fault(kind)
<1> DEFINE Counted == \/ /\ used'.faults = used.faults
                         /\ met' \subseteq met \cup {"apart"}
                      \/ \E kind \in FaultKinds : Fault(kind)
<1>1. used \in Counts
  BY DEF TypeOK, Counts
<1>2. ASSUME NoFault
      PROVE  Counted
  BY <1>2 DEF NoFault
<1>3. ASSUME NEW kind, Fault(kind)
      PROVE  Counted
  BY <1>3, ApplyAssumption DEF Fault
<1>4. ASSUME NEW kind, NEW pc, NEW work, NEW renewed,
             Begin(kind, pc, work, renewed), used'.faults = used.faults
      PROVE  Counted
  BY <1>4 DEF Begin
<1>5. ASSUME met' = met, used'.faults = used.faults
      PROVE  Counted
  BY <1>5
<1>6. ASSUME StepFault \/ Fails
      PROVE  Counted
  BY <1>3, <1>6 DEF Fails, StepFault
<1> SUFFICES Counted
  OBVIOUS
<1> HIDE DEF Counted
<1>7. CASE Forward
  BY <1>2, <1>3, <1>7
  DEF Forward, WritePorts, Render, Mark, PushConf, PushPorts, PushRoute, Test,
      RestartBackup, Decide, RestartNode, ClearMarker, Commit
<1>8. CASE Backward
  BY <1>2, <1>8
  DEF Backward, UndoPortsFile, UndoConfFile, UndoConfFileTo, UndoConf,
      UndoPorts, UndoRoute, UndoRestart
<1>9. CASE Failing
  BY <1>3, <1>6, <1>9
  DEF Failing, RenderFails, StepFails, RestartNodeFails, UndoFails
<1>10. CASE Booting
  BY <1>2, <1>4, <1>5, <1>10
  DEF Booting, Restart, BootCleanup, BootDisable, BootWrite
<1>11. CASE Beginning
  <2>1. used'.faults = used.faults
    BY <1>1, <1>11
    DEF Beginning, BeginMutation, BeginDisable, BeginModeSync, BeginManager,
        Counts
  <2> QED BY <1>4, <1>11, <2>1
          DEF Beginning, BeginMutation, BeginDisable, BeginModeSync,
              BeginManager
<1>12. CASE Environment
  BY <1>1, <1>3, <1>5, <1>12
  DEF Environment, PanelCrash, ManagerCrash, NodeRestarts, Spend, RouteChanges,
      Counts
<1>13. CASE UNCHANGED vars
  BY <1>5, <1>13 DEF vars
<1> QED BY <1>7, <1>8, <1>9, <1>10, <1>11, <1>12, <1>13 DEF Next

\* A fault is one more.
LEMMA FaultAdds ==
  ASSUME TypeOK, NEW kind, Fault(kind)
  PROVE  used'.faults = used.faults + 1 /\ used.faults \in Nat
BY DEF TypeOK, Fault

\* Only a rollback meets a file that cannot be put back.
LEMMA RestoreInRollback ==
  ASSUME TypeOK, [Next]_vars, "restore" \notin met, "restore" \in met'
  PROVE  job # Free /\ job.pc \in {"undo"} \cup Undoing
<1>1. ASSUME met' \subseteq met \cup {"apart", "step", "bootStep", "pull", "undo",
                                    "crash", "node", "outage"}
      PROVE  FALSE
  BY <1>1
<1>2. CASE Forward \/ Backward
  BY <1>1, <1>2
  DEF Forward, Backward, WritePorts, Render, Mark, PushConf, PushPorts,
      PushRoute, Test, RestartBackup, Decide, RestartNode, ClearMarker, Commit,
      UndoPortsFile, UndoConfFile, UndoConfFileTo, UndoConf, UndoPorts,
      UndoRoute, UndoRestart, NoFault, Fault
<1>3. CASE RenderFails \/ StepFails \/ RestartNodeFails
  BY <1>1, <1>3
  DEF RenderFails, StepFails, RestartNodeFails, Fails, StepFault, Fault
<1>4. CASE UndoFails
  BY <1>4 DEF UndoFails, Fault, At, Undoing
<1>5. CASE Booting \/ Beginning
  BY <1>1, <1>5
  DEF Booting, Beginning, Restart, BootCleanup, BootDisable, BootWrite,
      BeginMutation, BeginDisable, BeginModeSync, BeginManager, Begin, NoFault
<1>6. CASE Environment \/ UNCHANGED vars
  BY <1>1, <1>6
  DEF Environment, PanelCrash, ManagerCrash, NodeRestarts, Spend, RouteChanges,
      Fault, vars
<1> QED BY <1>2, <1>3, <1>4, <1>5, <1>6 DEF Next, Failing

\* Before the first fault jobs only go forward.
LEMMA EarlyStep ==
  ASSUME TypeOK, LoadOrder, JobPlace, Early, [Next]_vars
  PROVE  Early'
<1> SUFFICES ASSUME used'.faults = 0
             PROVE  Early'
  BY DEF Early
<1>1. ~\E kind : Fault(kind)
  BY FaultAdds
<1>2. used.faults = 0 /\ met' \subseteq {"apart"}
  BY <1>1, FaultsCounted DEF Early
<1>3. job.kind = "mutation" =>
        /\ job.pc \notin {"undo"} \cup Undoing
        /\ job.loaded => job.pc \in {"clear", "commit"}
  BY <1>2 DEF Early
<1>4. ASSUME job' = Free \/ job' = job \/ job'.kind # "mutation"
      PROVE  Early'
  BY <1>2, <1>3, <1>4 DEF Early, Free
<1>5. CASE Booting \/ Beginning
  BY <1>2, <1>4, <1>5
  DEF Booting, Beginning, Restart, BootCleanup, BootDisable, BootWrite,
      BeginMutation, BeginDisable, BeginModeSync, BeginManager, Begin, NewJob,
      Early, Undoing
<1>6. CASE (Forward \/ Backward) /\ job.kind = "mutation"
  <2>1. job # Free /\ job \in Job
    BY <1>6, KindStays DEF TypeOK
  <2>2. ASSUME NEW pc, Goto(pc), pc \notin {"undo"} \cup Undoing,
               job.loaded => pc \in {"clear", "commit"}
        PROVE  Early'
    <3>1. job'.pc = pc /\ job'.loaded = job.loaded
      BY <2>1, <2>2 DEF Goto, Job
    <3> QED BY <1>2, <2>2, <3>1 DEF Early
  <2>3. CASE WritePorts
    BY <1>3, <1>6, <2>2, <2>3 DEF WritePorts, At, Undoing
  <2>4. CASE Render
    BY <1>3, <1>6, <2>2, <2>4 DEF Render, AfterRender, At, Undoing
  <2>5. CASE PushConf
    <3>1. job'.pc = "pushPorts" /\ job'.loaded = job.loaded
      BY <2>1, <2>5 DEF PushConf, Job
    <3> QED BY <1>2, <1>3, <1>6, <2>5, <3>1 DEF PushConf, At, Early, Undoing
  <2>6. CASE PushPorts \/ PushRoute \/ Test
    BY <1>3, <1>6, <2>2, <2>6
    DEF PushPorts, PushRoute, Test, AfterSync, Transactional, At, Undoing
  <2>7. CASE RestartBackup
    BY <1>3, <1>6, <2>2, <2>7 DEF RestartBackup, At, Undoing
  <2>8. CASE RestartNode
    <3>1. job'.pc = "clear"
      BY <1>6, <2>1, <2>8 DEF RestartNode, Job
    <3> QED BY <1>2, <3>1 DEF Early, Undoing
  <2>9. CASE ClearMarker
    BY <1>3, <1>6, <2>2, <2>9 DEF ClearMarker, Transactional, At, Undoing
  <2>10. CASE Commit
    BY <1>4, <2>10 DEF Commit, Done
  <2>11. CASE Mark \/ Decide
    BY <1>6, <2>1, <2>11 DEF Mark, Decide, At, LoadOrder
  <2>12. CASE Backward
    BY <1>3, <1>6, <2>12
    DEF Backward, UndoPortsFile, UndoConfFile, UndoConfFileTo, UndoConf,
        UndoPorts, UndoRoute, UndoRestart, At, Undoing
  <2> QED BY <1>6, <2>3, <2>4, <2>5, <2>6, <2>7, <2>8, <2>9, <2>10, <2>11, <2>12
          DEF Forward
<1>7. CASE (Forward \/ Backward) /\ job.kind # "mutation"
  BY <1>4, <1>7, KindStays
<1>8. CASE Failing
  BY <1>1, <1>8
  DEF Failing, RenderFails, StepFails, RestartNodeFails, UndoFails, Fails,
      StepFault
<1>9. CASE Environment
  BY <1>4, <1>9
  DEF Environment, PanelCrash, ManagerCrash, NodeRestarts, Spend, RouteChanges
<1>10. CASE UNCHANGED vars
  BY <1>4, <1>10 DEF vars
<1> QED BY <1>5, <1>6, <1>7, <1>8, <1>9, <1>10 DEF Next

\* The first crash, or restart of the node, leaves behind what Mending says.
LEMMA FirstFault ==
  ASSUME TypeOK, LoadOrder, JobPlace, Serving, Early, [Next]_vars, mode = "ssh",
         used.faults = 0, NothingDue, NothingDue', ~Kept'
  PROVE  Mending'
<1>1. /\ files \in Files /\ met \subseteq {"apart"}
      /\ NodeConf = remote.conf /\ db.spent = {}
  BY DEF TypeOK, NodeConf, NothingDue, Early
<1>2. job.kind # "mutation" =>
        /\ running.ports = db.enabled /\ files.ports = db.enabled
        /\ files.conf.ports = db.enabled /\ remote.conf.ports = db.enabled
  BY <1>1 DEF Serving, AtRest, Serves
<1>3. job.kind = "mutation" =>
        \/ running.ports = db.enabled
        \/ remote.conf.ports = running.ports /\ files.ports = running.ports
  <2> SUFFICES ASSUME job.kind = "mutation"
               PROVE  \/ running.ports = db.enabled
                      \/ /\ remote.conf.ports = running.ports
                         /\ files.ports = running.ports
    OBVIOUS
  <2>1. CASE ~job.loaded
    BY <1>1, <2>1 DEF Serving, InMutation, Serves
  <2>2. CASE job.loaded
    <3>1. job # Free /\ job.pc \in {"clear", "commit"}
      BY <2>2 DEF Early, Free
    <3>2. running = NodeConf /\ NodeConf.ports = files.ports
      BY <3>1 DEF LoadOrder, Serving, InMutation, AtNode
    <3> QED BY <1>1, <3>2
  <2> QED BY <2>1, <2>2
<1>4. job.kind = "mutation" =>
        /\ job.pc \notin {"undo"} \cup Undoing /\ panel = "up"
        /\ job.pc \in AtNode => remote.conf.ports = job.work
  <2> SUFFICES ASSUME job.kind = "mutation"
               PROVE  /\ job.pc \notin {"undo"} \cup Undoing /\ panel = "up"
                      /\ job.pc \in AtNode => remote.conf.ports = job.work
    OBVIOUS
  <2>1. job # Free
    BY DEF Free
  <2>2. ASSUME job.pc \in AtNode
        PROVE  remote.conf.ports = job.work
    <3>1. /\ job.work \ (db.spent \ job.renewed) \subseteq files.ports
          /\ NodeConf.ports = files.ports /\ files.ports \subseteq job.work
      BY <2>1, <2>2 DEF Serving, InMutation, LoadOrder, Written, AtNode
    <3> QED BY <1>1, <3>1
  <2> QED BY <2>1, <2>2 DEF Early, LoadOrder
<1>5. CASE PanelCrash
  <2>1. /\ UNCHANGED <<db, files, remote, running>> /\ panel' = "down"
        /\ job' = IF job.kind \in PanelKinds THEN Free ELSE job
    BY <1>5 DEF PanelCrash
  <2>2. job'.kind \notin PanelKinds
    BY <2>1 DEF Free, PanelKinds
  <2>3. WillNoticeYet'
    BY <1>2, <1>3, <2>1 DEF WillNoticeYet
  <2>4. job'.kind = "manager" =>
          files.conf.ports = files.ports /\ remote.conf.ports = files.ports
    BY <1>2, <2>1 DEF Free, PanelKinds
  <2> QED BY <2>1, <2>2, <2>3, <2>4 DEF Mending, PanelKinds
<1>6. CASE ManagerCrash
  BY <1>2, <1>6 DEF ManagerCrash, Free, Mending, NodeRight, WillNoticeYet
<1>7. CASE NodeRestarts
  <2>1. /\ UNCHANGED <<db, files, remote, job, panel>>
        /\ running'.ports = remote.conf.ports
    BY <1>1, <1>7 DEF NodeRestarts
  <2>2. CASE job.kind = "mutation"
    BY <1>4, <2>1, <2>2 DEF Mending
  <2>3. CASE job.kind # "mutation"
    <3>1. job.kind # "bootDisable"
      BY DEF Serving, JobShape
    <3> QED BY <1>2, <2>1, <2>3, <3>1
            DEF Mending, NodeRight, WillNotice, WillNoticeYet
  <2> QED BY <2>2, <2>3
<1>8. CASE Spend
  BY <1>8 DEF Spend, NothingDue, TypeOK
<1>9. CASE UndoFails
  <2>1. job \in Job /\ job.pc \in {"undo"} \cup Undoing
    BY <1>9, KindStays DEF UndoFails, At, Undoing, TypeOK, Failing
  <2>2. job.kind \in {"mutation", "bootDisable", "bootWrite", "modeSync",
                      "manager"}
    BY <2>1 DEF Job, PanelKinds
  <2> QED BY <1>4, <2>1, <2>2 DEF Serving, JobShape, Undoing
<1>10. ASSUME met' \subseteq met \cup {"apart", "step", "bootStep", "pull"}
       PROVE  FALSE
  BY <1>1, <1>10 DEF Kept
<1>11. CASE Forward \/ Backward
  BY <1>10, <1>11
  DEF Forward, Backward, WritePorts, Render, Mark, PushConf, PushPorts,
      PushRoute, Test, RestartBackup, Decide, RestartNode, ClearMarker, Commit,
      UndoPortsFile, UndoConfFile, UndoConfFileTo, UndoConf, UndoPorts,
      UndoRoute, UndoRestart, NoFault, Fault
<1>12. CASE RenderFails \/ StepFails \/ RestartNodeFails
  BY <1>10, <1>12
  DEF RenderFails, StepFails, RestartNodeFails, Fails, StepFault, Fault
<1>13. CASE Booting \/ Beginning
  BY <1>10, <1>13
  DEF Booting, Beginning, Restart, BootCleanup, BootDisable, BootWrite,
      BeginMutation, BeginDisable, BeginModeSync, BeginManager, Begin, NoFault
<1>14. CASE RouteChanges \/ UNCHANGED vars
  BY <1>10, <1>14 DEF RouteChanges, vars
<1> QED BY <1>5, <1>6, <1>7, <1>8, <1>9, <1>11, <1>12, <1>13, <1>14
        DEF Next, Failing, Environment

\* A job that begins after it.
LEMMA MendingBegins ==
  ASSUME TypeOK, LoadOrder, JobPlace, Mending, NothingDue, Booting \/ Beginning
  PROVE  Mending'
<1> USE DEF Mending, NodeRight, WillNotice, WillNoticeYet
<1>1. db.spent = {}
  BY DEF NothingDue
<1>2. panel # "up" => job.kind # "mutation"
  BY DEF LoadOrder, Free
<1>3. CASE BeginMutation
  BY <1>3 DEF BeginMutation, Begin, NewJob, AtNode, Undoing
<1>4. CASE BeginDisable \/ BootCleanup
  BY <1>1, <1>2, <1>4 DEF BeginDisable, BootCleanup, JobPlace, TypeOK
<1>5. CASE BeginModeSync
  BY <1>5 DEF BeginModeSync, Begin, NewJob, Free
<1>6. CASE BeginManager
  BY <1>6 DEF BeginManager, Begin, NewJob, Free, TypeOK, Files
<1>7. CASE Restart
  BY <1>2, <1>7 DEF Restart, JobPlace
<1>8. CASE BootDisable
  BY <1>1, <1>2, <1>8 DEF BootDisable, JobPlace
<1>9. CASE BootWrite
  BY <1>2, <1>9 DEF BootWrite, Begin, NewJob, Free
<1> QED BY <1>3, <1>4, <1>5, <1>6, <1>7, <1>8, <1>9 DEF Booting, Beginning

\* A mutation after it.
LEMMA MendingMutation ==
  ASSUME TypeOK, LoadOrder, OnDisk, Mending, mode = "ssh", NothingDue,
         job.kind = "mutation", Forward
  PROVE  Mending'
<1>1. /\ job # Free /\ job \in Job /\ panel = "up" /\ files \in Files
      /\ remote \in Files /\ NodeConf = remote.conf /\ db.spent = {}
  BY KindStays DEF TypeOK, LoadOrder, NodeConf, NothingDue
<1>2. /\ job.pc \notin {"undo"} \cup Undoing
      /\ job.pc \in AtNode => remote.conf.ports = job.work
  BY DEF Mending
<1>3. ASSUME job'.kind = "mutation", UNCHANGED panel,
             job'.pc \notin {"undo"} \cup Undoing,
             job'.pc \in AtNode => remote'.conf.ports = job'.work
      PROVE  Mending'
  BY <1>1, <1>3 DEF Mending
<1>4. CASE WritePorts \/ Render
  <2>1. /\ job'.kind = "mutation" /\ UNCHANGED panel
        /\ job'.pc \in {"render", "pushConf", "test"}
    BY <1>1, <1>4 DEF WritePorts, Render, AfterRender, Goto, Job
  <2> QED BY <1>3, <2>1 DEF AtNode, Undoing
<1>5. CASE PushConf
  <2>1. /\ remote'.conf = files.conf /\ job.pc = "pushConf" /\ UNCHANGED panel
        /\ job'.kind = "mutation" /\ job'.work = job.work
        /\ job'.pc = "pushPorts"
    BY <1>1, <1>5 DEF PushConf, At, Job, Files
  <2>2. files.conf.ports = job.work
    BY <1>1, <2>1 DEF OnDisk, DiskInMutation, LoadOrder, Written
  <2> QED BY <1>3, <2>1, <2>2 DEF Undoing
<1>6. CASE PushPorts \/ PushRoute \/ RestartBackup \/ RestartNode \/ ClearMarker
  <2>1. ASSUME NEW pc \in AtNode, Goto(pc)
        PROVE  /\ job'.kind = "mutation" /\ job'.work = job.work
               /\ job'.pc \in AtNode
    BY <1>1, <2>1 DEF Goto, Job
  <2>2. /\ job'.kind = "mutation" /\ job'.work = job.work
        /\ job'.pc \in AtNode
    <3>1. CASE PushPorts
      BY <2>1, <3>1 DEF PushPorts, AtNode
    <3>2. CASE PushRoute
      BY <2>1, <3>2 DEF PushRoute, AfterSync, Transactional, AtNode
    <3>3. CASE RestartBackup
      BY <2>1, <3>3 DEF RestartBackup, AtNode
    <3>4. CASE RestartNode
      BY <1>1, <3>4 DEF RestartNode, Job, AtNode
    <3>5. CASE ClearMarker
      BY <2>1, <3>5 DEF ClearMarker, Transactional, AtNode
    <3> QED BY <1>6, <3>1, <3>2, <3>3, <3>4, <3>5
  <2>3. remote'.conf = remote.conf /\ job.pc \in AtNode /\ UNCHANGED panel
    BY <1>1, <1>6
    DEF PushPorts, PushRoute, AfterSync, RestartBackup, RestartNode,
        ClearMarker, Transactional, At, AtNode, Files
  <2> QED BY <1>2, <1>3, <2>2, <2>3 DEF Undoing, AtNode
<1>7. CASE Commit
  <2>1. /\ job.pc = "commit" /\ job' = Free /\ panel' = panel
        /\ db'.enabled = job.work /\ UNCHANGED <<remote, running>>
    BY <1>7 DEF Commit, Done, At
  <2>2. running.ports = job.work /\ remote.conf.ports = job.work
    BY <1>1, <1>2, <2>1 DEF LoadOrder, AtNode
  <2> QED BY <1>1, <2>1, <2>2 DEF Mending, NodeRight, Free
<1>8. CASE Mark \/ Decide \/ Test
  BY <1>1, <1>8 DEF Mark, Decide, Test, At, LoadOrder
<1> QED BY <1>4, <1>5, <1>6, <1>7, <1>8 DEF Forward

\* The manager and the mode sync after it, while the panel is up, and while it
\* is down or boots.
LEMMA MendingUp ==
  ASSUME TypeOK, JobPlace, OnDisk, Mending, mode = "ssh", NothingDue,
         job.kind \in {"manager", "modeSync"}, Forward
  PROVE  Mending'
<1>1. /\ job # Free /\ job \in Job /\ files \in Files /\ remote \in Files
      /\ NodeConf = remote.conf /\ ~Transactional
  BY KindStays DEF TypeOK, NodeConf, Transactional
<1>2. job' = Free \/ (job'.kind = job.kind /\ job'.kind # "mutation")
  BY KindStays
<1>3. job.pc \in {"render", "mark", "pushConf", "pushPorts", "pushRoute",
                  "decide", "restart", "clear"}
  BY DEF JobPlace
<1>4. UNCHANGED panel
  BY <1>1, <1>3
  DEF Forward, WritePorts, Render, Mark, PushConf, PushPorts, PushRoute, Test,
      RestartBackup, Decide, RestartNode, ClearMarker, Commit, At, AfterRender,
      AfterSync, Done
<1>5. CASE panel = "up"
  <2>1. /\ running.ports = db.enabled /\ remote.conf.ports = db.enabled
        /\ files.conf.ports = db.enabled
    BY <1>5 DEF Mending, NodeRight, OnDisk, DiskAtRest, Serves, NothingDue
  <2>2. /\ UNCHANGED db /\ remote'.conf \in {remote.conf, files.conf}
        /\ running' \in {running, remote.conf}
    BY <1>1, <1>3
    DEF Forward, WritePorts, Render, Mark, PushConf, PushPorts, PushRoute,
        Test, RestartBackup, Decide, RestartNode, ClearMarker, Commit, At,
        Files
  <2>3. NodeRight'
    BY <2>1, <2>2 DEF NodeRight
  <2> QED BY <1>2, <1>4, <1>5, <2>3 DEF Mending, Free
<1>6. CASE panel # "up"
  <2>1. /\ WillNoticeYet
        /\ job.kind = "manager" =>
             /\ job.pc # "render" => files.conf.ports = files.ports
             /\ job.pc \notin {"render", "mark", "pushConf"} =>
                  remote.conf.ports = files.ports
    BY <1>6 DEF Mending
  <2>2. job.kind = "modeSync" => job.pc = "render"
    BY DEF JobPlace
  <2>3. ASSUME WillNoticeYet', UNCHANGED panel,
               job' # Free /\ job.kind = "manager" =>
                 /\ job'.pc # "render" => files'.conf.ports = files'.ports
                 /\ job'.pc \notin {"render", "mark", "pushConf"} =>
                      remote'.conf.ports = files'.ports
        PROVE  Mending'
    BY <1>2, <1>6, <2>3 DEF Mending, Free
  <2>4. CASE Render
    <3>1. /\ files'.ports = files.ports /\ files'.conf.ports = files.ports
          /\ UNCHANGED <<db, remote, running>>
      BY <1>1, <2>4, RenderedPorts DEF Render, Files
    <3>2. job.kind = "manager" => job'.pc = "mark"
      BY <1>1, <2>4 DEF Render, AfterRender, Goto, Job
    <3> QED BY <1>4, <2>1, <2>3, <3>1, <3>2 DEF WillNoticeYet
  <2>5. CASE Mark
    <3>1. /\ UNCHANGED <<db, files, remote, running>> /\ job.pc = "mark"
      BY <2>5 DEF Mark, At
    <3>2. job'.pc = "pushConf"
      BY <1>1, <2>5 DEF Mark, Job
    <3> QED BY <1>4, <2>1, <2>2, <2>3, <3>1, <3>2 DEF WillNoticeYet
  <2>6. CASE PushConf
    <3>1. /\ UNCHANGED <<db, files, running>> /\ remote'.conf = files.conf
          /\ job.pc = "pushConf"
      BY <1>1, <2>6 DEF PushConf, At, Files
    <3>2. files.conf.ports = files.ports
      BY <1>1, <2>1, <2>2, <3>1
    <3> QED BY <1>4, <2>1, <2>3, <3>1, <3>2 DEF WillNoticeYet
  <2>7. CASE PushPorts \/ PushRoute \/ Decide \/ ClearMarker
    <3>1. /\ UNCHANGED <<db, files, running>> /\ remote'.conf = remote.conf
          /\ job.pc \in {"pushPorts", "pushRoute", "decide", "clear"}
      BY <1>1, <2>7 DEF PushPorts, PushRoute, Decide, ClearMarker, At, Files
    <3> QED BY <1>4, <2>1, <2>2, <2>3, <3>1 DEF WillNoticeYet
  <2>8. CASE RestartNode
    <3>1. /\ UNCHANGED <<db, files, remote>> /\ running' = remote.conf
          /\ job.pc = "restart"
      BY <1>1, <2>8 DEF RestartNode, At
    <3>2. remote.conf.ports = files.ports /\ files.conf.ports = files.ports
      BY <2>1, <2>2, <3>1
    <3> QED BY <1>4, <2>3, <3>1, <3>2 DEF WillNoticeYet
  <2>9. CASE WritePorts \/ Test \/ RestartBackup \/ Commit
    BY <1>3, <2>9 DEF WritePorts, Test, RestartBackup, Commit, At
  <2> QED BY <2>4, <2>5, <2>6, <2>7, <2>8, <2>9 DEF Forward
<1> QED BY <1>5, <1>6

\* The boot's write: a node that does not serve the database has another
\* configuration than the one uploaded, and is restarted.
LEMMA MendingBoot ==
  ASSUME TypeOK, JobPlace, OnDisk, Mending, mode = "ssh", NothingDue,
         job.kind = "bootWrite", Forward
  PROVE  Mending'
<1>1. /\ job # Free /\ job \in Job /\ files \in Files /\ remote \in Files
      /\ NodeConf = remote.conf /\ ~Transactional /\ panel = "bootWrite"
      /\ job.pc \in {"inputs", "render", "pushConf", "pushPorts", "pushRoute",
                     "restart"}
  BY KindStays DEF TypeOK, NodeConf, Transactional, JobPlace
<1>2. /\ job.pc = "inputs" => WillNoticeYet
      /\ job.pc \in {"render", "pushConf"} => WillNotice
      /\ job.pc \in {"pushPorts", "pushRoute"} =>
           /\ remote.conf.ports = db.enabled
           /\ running.ports = db.enabled \/ job.changed
      /\ job.pc = "restart" => remote.conf.ports = db.enabled
  BY DEF Mending
<1>3. job.pc \notin {"inputs", "render"} => files.conf.ports = db.enabled
  BY DEF OnDisk, DiskInBoot, Serves, NothingDue
<1>4. ASSUME UNCHANGED panel, job'.kind = "bootWrite",
             job'.pc \in {"render", "pushConf"} => WillNotice',
             job'.pc \in {"pushPorts", "pushRoute"} =>
               /\ remote'.conf.ports = db'.enabled
               /\ running'.ports = db'.enabled \/ job'.changed,
             job'.pc = "restart" => remote'.conf.ports = db'.enabled,
             job'.pc # "inputs"
      PROVE  Mending'
  BY <1>1, <1>4 DEF Mending
<1>5. ASSUME Done, NodeRight'
      PROVE  Mending'
  BY <1>5 DEF Done, Free, Mending
<1>6. CASE WritePorts \/ Render
  <2>1. /\ UNCHANGED <<db, remote, running, panel>>
        /\ job.pc \in {"inputs", "render"}
        /\ job'.kind = "bootWrite" /\ job'.pc \in {"render", "pushConf"}
    BY <1>1, <1>6 DEF WritePorts, Render, AfterRender, Goto, At, Job
  <2>2. WillNotice
    BY <1>2, <2>1 DEF WillNotice, WillNoticeYet
  <2> QED BY <1>4, <2>1, <2>2 DEF WillNotice
<1>7. CASE PushConf
  <2>1. /\ UNCHANGED <<db, running, panel>> /\ remote'.conf = files.conf
        /\ job.pc = "pushConf" /\ job'.kind = "bootWrite"
        /\ job'.pc = "pushPorts"
        /\ job'.changed = (job.changed \/ remote.conf # files.conf)
    BY <1>1, <1>7 DEF PushConf, At, Job, Files
  <2>2. running.ports = db.enabled \/ remote.conf # files.conf
    BY <1>2, <1>3, <2>1 DEF WillNotice
  <2>3. files.conf.ports = db.enabled
    BY <1>3, <2>1
  <2> QED BY <1>4, <2>1, <2>2, <2>3
<1>8. CASE PushPorts
  <2>1. /\ UNCHANGED <<db, running, panel>> /\ remote'.conf = remote.conf
        /\ job.pc = "pushPorts" /\ job'.kind = "bootWrite"
        /\ job'.pc = "pushRoute" /\ job'.changed = job.changed
    BY <1>1, <1>8 DEF PushPorts, Goto, At, Job, Files
  <2> QED BY <1>2, <1>4, <2>1
<1>9. CASE PushRoute
  <2>1. /\ UNCHANGED <<db, running>> /\ remote'.conf = remote.conf
        /\ job.pc = "pushRoute"
    BY <1>1, <1>9 DEF PushRoute, At, Files
  <2>2. CASE job.changed
    <3>1. UNCHANGED panel /\ job'.kind = "bootWrite" /\ job'.pc = "restart"
      BY <1>1, <1>9, <2>2 DEF PushRoute, AfterSync, Goto, Job
    <3> QED BY <1>2, <1>4, <2>1, <3>1
  <2>3. CASE ~job.changed
    <3>1. Done
      BY <1>1, <1>9, <2>3 DEF PushRoute, AfterSync
    <3>2. NodeRight'
      BY <1>2, <2>1, <2>3 DEF NodeRight
    <3> QED BY <1>5, <3>1, <3>2
  <2> QED BY <2>2, <2>3
<1>10. CASE RestartNode
  <2>1. /\ UNCHANGED <<db, remote>> /\ running' = remote.conf /\ Done
        /\ job.pc = "restart"
    BY <1>1, <1>10 DEF RestartNode, At
  <2> QED BY <1>2, <1>5, <2>1 DEF NodeRight
<1>11. CASE Mark \/ Test \/ RestartBackup \/ Decide \/ ClearMarker \/ Commit
  BY <1>1, <1>11 DEF Mark, Test, RestartBackup, Decide, ClearMarker, Commit, At
<1> QED BY <1>6, <1>7, <1>8, <1>9, <1>10, <1>11 DEF Forward

\* After the one fault, every step that meets no second one keeps Mending.
LEMMA MendingStep ==
  ASSUME TypeOK, LoadOrder, JobPlace, OnDisk, Mending, mode = "ssh",
         NothingDue, NothingDue', [Next]_vars, used'.faults = used.faults
  PROVE  Mending'
<1>1. ~\E kind : Fault(kind)
  BY FaultAdds
<1>2. CASE Forward
  <2>1. job \in Job
    BY <1>2, KindStays DEF TypeOK
  <2>2. job.kind \in {"mutation", "bootWrite", "modeSync", "manager"}
    BY <2>1 DEF Job, PanelKinds, Mending
  <2> QED BY <1>2, <2>2, MendingMutation, MendingUp, MendingBoot
<1>3. CASE Backward
  <2>1. job \in Job /\ job.pc \in {"undo"} \cup Undoing
    BY <1>3, KindStays
    DEF TypeOK, Backward, UndoPortsFile, UndoConfFile, UndoConfFileTo,
        UndoConf, UndoPorts, UndoRoute, UndoRestart, At, Undoing
  <2>2. job.kind \in {"mutation", "bootWrite", "modeSync", "manager"}
    BY <2>1 DEF Job, PanelKinds, Mending
  <2> QED BY <2>1, <2>2 DEF Mending, JobPlace, Undoing
<1>4. CASE Failing \/ PanelCrash \/ ManagerCrash \/ NodeRestarts
  BY <1>1, <1>4
  DEF Failing, RenderFails, StepFails, RestartNodeFails, UndoFails, Fails,
      StepFault, PanelCrash, ManagerCrash, NodeRestarts
<1>5. CASE Booting \/ Beginning
  BY <1>5, MendingBegins
<1>6. CASE Spend
  BY <1>6 DEF Spend, NothingDue, TypeOK
<1>7. CASE RouteChanges \/ UNCHANGED vars
  <2>1. UNCHANGED <<db, files, remote, running, job, panel>>
    BY <1>7 DEF RouteChanges, vars
  <2> QED BY <2>1 DEF Mending, NodeRight, WillNotice, WillNoticeYet
<1> QED BY <1>2, <1>3, <1>4, <1>5, <1>6, <1>7 DEF Next, Environment

\* A step while nothing is due keeps the account of the first fault.
LEMMA OneFaultStep ==
  TypeOK /\ LoadOrder /\ JobPlace /\ ("restore" \notin met => OnDisk)
    /\ (Kept => Serving) /\ OneFault /\ NothingDue /\ NothingDue' /\ [Next]_vars => OneFault'
<1> SUFFICES ASSUME TypeOK, LoadOrder, JobPlace, "restore" \notin met => OnDisk,
                    Kept => Serving, OneFault, NothingDue, NothingDue',
                    [Next]_vars, mode' = "ssh"
             PROVE  /\ Early'
                    /\ used'.faults = 1 /\ ~Kept'
                         => Mending' /\ "restore" \notin met'
  BY DEF OneFault
<1>1. mode = "ssh" /\ Early
  BY ModeFixed DEF OneFault
<1>2. Early'
  BY <1>1, EarlyStep
<1>3. ASSUME used'.faults = 1, ~Kept'
      PROVE  Mending' /\ "restore" \notin met'
  <2>1. CASE \E kind \in FaultKinds : Fault(kind)
    <3>1. used.faults = 0
      BY <1>3, <2>1, FaultAdds
    <3>2. Serving
      BY <1>1, <3>1 DEF Early, Kept
    <3>3. /\ job.pc \in {"undo"} \cup Undoing => job.kind # "mutation"
          /\ "restore" \notin met
      BY <1>1, <3>1 DEF Early
    <3>4. "restore" \notin met'
      <4> SUFFICES ASSUME "restore" \in met'
                   PROVE  FALSE
        OBVIOUS
      <4>1. job \in Job /\ job.pc \in {"undo"} \cup Undoing
        BY <3>3, RestoreInRollback DEF TypeOK
      <4>2. job.kind \in {"mutation", "bootDisable", "bootWrite", "modeSync",
                          "manager"}
        BY <4>1 DEF Job, PanelKinds
      <4> QED BY <3>2, <3>3, <4>1, <4>2 DEF Serving, JobShape, Undoing
    <3> QED BY <1>1, <1>3, <3>1, <3>2, <3>4, FirstFault
  <2>2. CASE used'.faults = used.faults /\ met' \subseteq met \cup {"apart"}
    <3>1. used.faults = 1 /\ ~Kept
      BY <1>3, <2>2 DEF Kept
    <3>2. Mending /\ "restore" \notin met
      BY <1>1, <3>1 DEF OneFault
    <3> QED BY <1>1, <2>2, <3>2, MendingStep
  <2> QED BY <2>1, <2>2, FaultsCounted
<1> QED BY <1>2, <1>3

\* BootRepairs for any ports and routes: what a single crash or restart of the
\* node has left, the boot and the jobs after it mend by the time that the
\* panel is up and idle.
THEOREM BootMends == Spec => BootRepairs
<1>1. Init => OneFault
  BY DEF Init, OneFault, Early, Kept, Free
<1>2. TypeOK /\ (Kept => Serving) /\ OneFault /\ NothingDue => OneFaultMended
  <2> SUFFICES ASSUME TypeOK, Kept => Serving, OneFault, NothingDue,
                      mode = "ssh", used.faults <= 1, panel = "up", job = Free
               PROVE  Serves(running)
    BY DEF OneFaultMended
  <2>1. CASE Kept
    BY <2>1 DEF Serving, AtRest, Free
  <2>2. CASE ~Kept
    <3>1. used.faults = 1
      BY <2>2 DEF OneFault, Early, Kept, TypeOK
    <3>2. NodeRight
      BY <2>2, <3>1 DEF OneFault, Mending, Free
    <3> QED BY <3>2 DEF NodeRight, Serves
  <2> QED BY <2>1, <2>2
<1> QED BY <1>1, <1>2, OneFaultStep, TypeCorrect, LoadOrderHolds, PlaceHolds,
           DiskHolds, ServingHolds, PTL DEF Spec, BootRepairs

=============================================================================
