----------------------------- MODULE XrayApply -----------------------------
(***************************************************************************)
(* How a change reaches the ordinary data plane: the apply transaction of  *)
(* app/xray/apply.py, the AI domain manager's apply of a new route         *)
(* (app/xray/ai_routing/manager.py), the backup-mode sync and the boot of  *)
(* the panel, over the database, the runtime files, the node's copies of   *)
(* them (app/xray/node/files.py), and what the node has loaded.            *)
(*                                                                         *)
(* Every one of them holds the same non-blocking file lock from beginning  *)
(* to end, so there is at most one job at a time; a second one is refused  *)
(* (a request), skipped (maintenance, the manager's cycle) or fatal (the   *)
(* last step of the boot).  What still interferes with a job is a step     *)
(* that fails, a crash, time, and a restart of the node by other hands.    *)
(***************************************************************************)
EXTENDS FiniteSets, Naturals

CONSTANTS
  Ports,       \* listening ports on sale
  Sold,        \* those with a customer: disabled when due, the rest deleted
  Routes,      \* routes for AI domains; "direct" is the absent fragment
  Modes,       \* node backends explored
  Faults,      \* kinds of fault explored
  MaxFaults,   \* bound on the faults of one behaviour
  MaxOps,      \* bound on requests that change a port
  MaxEnv       \* bound on changes of the environment

FaultKinds == {"step", "bootStep", "pull", "restore", "undo", "crash", "node",
               "outage"}

ASSUME ApplyAssumption ==
  /\ Sold \subseteq Ports
  /\ "direct" \in Routes
  /\ Modes \subseteq {"ssh", "docker"}
  /\ Faults \subseteq FaultKinds
  /\ MaxFaults \in Nat
  /\ MaxOps \in Nat
  /\ MaxEnv \in Nat

VARIABLES
  mode,     \* the node's backend, fixed when the panel is deployed
  db,       \* committed: the enabled ports, and those past a limit
  files,    \* panel-ports.json, dynamic-routing.json and config.json
  remote,   \* the node's copies of them, when it is managed over ssh
  running,  \* the configuration the node has loaded
  marker,   \* config.json.pending-apply exists
  job,      \* the holder of the apply lock, and its locals
  panel,    \* the panel process: where its boot is, or up
  wanted,   \* the route that the candidates' probes and the mode call for
  met,      \* history: the kinds of fault met so far, and "apart" (see Begin)
  used      \* faults, requests and environment changes so far

vars == <<mode, db, files, remote, running, marker, job, panel, wanted, met, used>>

Config == [ports : SUBSET Ports, route : Routes]
Files == [ports : SUBSET Ports, route : Routes, conf : Config]

PanelKinds == {"mutation", "bootDisable", "bootWrite", "modeSync"}
Pcs == {"inputs", "render", "mark", "pushConf", "pushPorts", "pushRoute",
        "test", "backup", "decide", "restart", "clear", "commit",
        "undo", "undoFile", "undoConf", "undoPorts", "undoRoute", "undoRestart"}

\* work and renewed are the transaction's own writes, prev what the files held
\* before it, changed what is remembered of the configuration's novelty, and
\* loaded that a restart has been attempted.
Job == [kind : PanelKinds \cup {"manager"}, pc : Pcs,
        work : SUBSET Ports, renewed : SUBSET Ports,
        prev : [ports : SUBSET Ports, conf : Config],
        changed : BOOLEAN, loaded : BOOLEAN]
Free == [kind |-> "free"]

Rendered(ports, route) == [ports |-> ports, route |-> route]

\* The file that a restart of the node loads.
NodeConf == IF mode = "ssh" THEN remote.conf ELSE files.conf

\* An installation that was provisioned and is at rest; the panel is started.
Init ==
  /\ mode \in Modes
  /\ \E ports \in SUBSET Ports :
       /\ db = [enabled |-> ports, spent |-> {}]
       /\ running = Rendered(ports, "direct")
       /\ files = [ports |-> ports, route |-> "direct", conf |-> running]
  /\ remote = files
  /\ marker = FALSE
  /\ job = Free
  /\ panel = "down"
  /\ wanted = "direct"
  /\ met = {}
  /\ used = [faults |-> 0, ops |-> 0, env |-> 0]

-----------------------------------------------------------------------------
(* What the steps below share. *)

Fault(kind) ==
  /\ kind \in Faults
  /\ used.faults < MaxFaults
  /\ used' = [used EXCEPT !.faults = @ + 1]
  /\ met' = met \cup {kind}

NoFault == UNCHANGED <<met, used>>

At(pc) == job # Free /\ job.pc = pc
Goto(pc) == job' = [job EXCEPT !.pc = pc]
Transactional == job.kind \in {"mutation", "bootDisable"}

NewJob(kind, pc, work, renewed) ==
  [kind |-> kind, pc |-> pc, work |-> work, renewed |-> renewed,
   prev |-> [ports |-> files.ports, conf |-> files.conf],
   changed |-> FALSE, loaded |-> FALSE]

\* The panel and a remote node have the same configuration, with the route that
\* the node's fragment gives, and the node has loaded it.
InStep == /\ running = remote.conf /\ files.conf = remote.conf
          /\ remote.route = remote.conf.route

\* A job takes the lock.  That it finds panel and node out of step, and no
\* marker that says so, is noted.
Begin(kind, pc, work, renewed) ==
  /\ job' = NewJob(kind, pc, work, renewed)
  /\ met' = met \cup {k \in {"apart"} : mode = "ssh" /\ ~marker /\ ~InStep}

\* The lock is released; a boot goes on with its next step.
Done ==
  /\ job' = Free
  /\ panel' = CASE job.kind = "bootDisable" -> "bootWrite"
                [] job.kind = "bootWrite" -> "up"
                [] OTHER -> panel

\* The job raises: a boot's exception ends the panel process.
Raise ==
  /\ job' = Free
  /\ panel' = IF job.kind \in {"bootDisable", "bootWrite"} THEN "down" ELSE panel

\* The kind of fault that a failing step of this job is.
StepFault == Fault(IF job.kind \in {"bootDisable", "bootWrite"} THEN "bootStep"
                                                               ELSE "step")

\* What a failing step leads to: rollback, or the exception.
Fails ==
  /\ StepFault
  /\ IF Transactional THEN Goto("undo") /\ UNCHANGED panel ELSE Raise

-----------------------------------------------------------------------------
(* Beginnings *)

\* apply_mutation: create, renew or enable a port, or disable or delete it;
\* whatever is due is disabled by the same transaction.
BeginMutation ==
  /\ panel = "up" /\ job = Free
  /\ used.ops < MaxOps
  /\ used' = [used EXCEPT !.ops = @ + 1]
  /\ \E p \in Ports :
       \/ Begin("mutation", "inputs", (db.enabled \cup {p}) \ (db.spent \ {p}), {p})
       \/ Begin("mutation", "inputs", (db.enabled \ {p}) \ db.spent, {})
  /\ UNCHANGED <<mode, db, files, remote, running, marker, panel, wanted>>

\* disable_auto_stopped_ports in the maintenance cycle, when a port is due.
BeginDisable ==
  /\ panel = "up" /\ job = Free
  /\ db.enabled \cap db.spent # {}
  /\ Begin("mutation", "inputs", db.enabled \ db.spent, {})
  /\ UNCHANGED <<mode, db, files, remote, running, marker, panel, wanted, used>>

\* sync_backup_xray_mode: the mode of the control plane's backup node changed.
BeginModeSync ==
  /\ panel = "up" /\ job = Free
  /\ used.env < MaxEnv
  /\ used' = [used EXCEPT !.env = @ + 1]
  /\ Begin("modeSync", "render", {}, {})
  /\ UNCHANGED <<mode, db, files, remote, running, marker, panel, wanted>>

\* _run_once_locked up to the fragment, which is written or unlinked in place.
\* Cycles are an hour apart, so the number of those that meet a boot is bounded.
BeginManager ==
  /\ job = Free
  /\ IF panel = "up" THEN UNCHANGED used
     ELSE used.env < MaxEnv /\ used' = [used EXCEPT !.env = @ + 1]
  /\ Begin("manager", "render", {}, {})
  /\ files' = [files EXCEPT !.route = wanted]
  /\ UNCHANGED <<mode, db, remote, running, marker, panel, wanted>>

Restart ==
  /\ panel = "down"
  /\ panel' = "boot"
  /\ UNCHANGED <<mode, db, files, remote, running, marker, job, wanted>>
  /\ NoFault

\* The boot's first transaction deletes what is due and has no customer; it
\* needs no lock and applies nothing.
BootCleanup ==
  /\ panel = "boot"
  /\ db' = [db EXCEPT !.enabled = @ \ (db.spent \ Sold)]
  /\ panel' = "bootDisable"
  /\ UNCHANGED <<mode, files, remote, running, marker, job, wanted>>
  /\ NoFault

\* disable_auto_stopped_ports(reload_xray=False); a busy lock is skipped.
BootDisable ==
  /\ panel = "bootDisable"
  /\ \/ /\ job = Free
        /\ db.enabled \cap db.spent # {}
        /\ Begin("bootDisable", "inputs", db.enabled \ db.spent, {})
        /\ UNCHANGED panel
     \/ /\ job.kind # "bootDisable"
        /\ job # Free \/ db.enabled \cap db.spent = {}
        /\ panel' = "bootWrite"
        /\ UNCHANGED <<job, met>>
  /\ UNCHANGED <<mode, db, files, remote, running, marker, wanted, used>>

\* write_current_config; a busy lock is an exception that ends the boot.
BootWrite ==
  /\ panel = "bootWrite"
  /\ \/ /\ job = Free
        /\ Begin("bootWrite", "inputs", db.enabled, {})
        /\ UNCHANGED panel
     \/ /\ job # Free /\ job.kind # "bootWrite"
        /\ panel' = "down"
        /\ UNCHANGED <<job, met>>
  /\ UNCHANGED <<mode, db, files, remote, running, marker, wanted, used>>

-----------------------------------------------------------------------------
(* The steps of a job *)

\* panel-ports.json is written from the transaction's view of the database.
WritePorts ==
  /\ At("inputs")
  /\ files' = [files EXCEPT !.ports = job.work \ (db.spent \ job.renewed)]
  /\ Goto("render")
  /\ UNCHANGED <<mode, db, remote, running, marker, panel, wanted>>
  /\ NoFault

\* Mutant: an absent fragment is not recognised as such.
RouteToRenderUnread(pulled) ==
  IF mode = "ssh" /\ job.kind # "manager" /\ pulled
  THEN IF remote.route = "direct" THEN "unreadable" ELSE remote.route
  ELSE files.route

\* The panel pulls the fragment from an ssh node before it renders; an error
\* of the pull is only logged.
RouteToRender(pulled) ==
  IF mode = "ssh" /\ job.kind # "manager" /\ pulled
  THEN remote.route ELSE files.route

AfterRender ==
  CASE job.kind = "manager" -> Goto("mark") /\ UNCHANGED panel
    [] job.kind = "modeSync" -> Done
    [] OTHER -> /\ Goto(IF mode = "ssh" THEN "pushConf" ELSE "test")
                /\ UNCHANGED panel

Render ==
  /\ At("render")
  /\ \E pulled \in BOOLEAN :
       /\ IF pulled THEN NoFault
          ELSE mode = "ssh" /\ job.kind # "manager" /\ Fault("pull")
       /\ LET route == RouteToRender(pulled)
          IN files' = [files EXCEPT !.route = route,
                                    !.conf = Rendered(files.ports, route)]
  /\ AfterRender
  /\ UNCHANGED <<mode, db, remote, running, marker, wanted>>

\* The renderer fails before it has written config.json, or after it: then the
\* manager leaves the marker for its next cycle.
RenderFails ==
  /\ At("render")
  /\ LET route == RouteToRender(TRUE)
     IN \E conf \in {files.conf, Rendered(files.ports, route)} :
          /\ files' = [files EXCEPT !.route = route, !.conf = conf]
          /\ marker' = (marker \/ (job.kind = "manager" /\ conf # files.conf))
  /\ Fails
  /\ UNCHANGED <<mode, db, remote, running, wanted>>

\* Mutant: what an earlier cycle left pending is forgotten.
MarkIgnoresPending ==
  /\ At("mark")
  /\ LET changed == files.conf # job.prev.conf
     IN /\ marker' = changed
        /\ job' = [job EXCEPT !.changed = changed,
                              !.pc = IF mode = "ssh" THEN "pushConf" ELSE "decide"]
  /\ UNCHANGED <<mode, db, files, remote, running, panel, wanted>>
  /\ NoFault

\* The manager compares with what it had read before rendering.
Mark ==
  /\ At("mark")
  /\ LET changed == files.conf # job.prev.conf \/ marker
     IN /\ marker' = changed
        /\ job' = [job EXCEPT !.changed = changed,
                              !.pc = IF mode = "ssh" THEN "pushConf" ELSE "decide"]
  /\ UNCHANGED <<mode, db, files, remote, running, panel, wanted>>
  /\ NoFault

\* Mutant: the answer of the upload, that it replaced the file, is ignored.
PushConfUnnoticed ==
  /\ At("pushConf")
  /\ remote' = [remote EXCEPT !.conf = files.conf]
  /\ Goto("pushPorts")
  /\ UNCHANGED <<mode, db, files, running, marker, panel, wanted>>
  /\ NoFault

\* sync_generated_files: three files, one after the other.
PushConf ==
  /\ At("pushConf")
  /\ remote' = [remote EXCEPT !.conf = files.conf]
  /\ job' = [job EXCEPT !.changed = @ \/ remote.conf # files.conf,
                        !.pc = "pushPorts"]
  /\ UNCHANGED <<mode, db, files, running, marker, panel, wanted>>
  /\ NoFault

PushPorts ==
  /\ At("pushPorts")
  /\ remote' = [remote EXCEPT !.ports = files.ports]
  /\ Goto("pushRoute")
  /\ UNCHANGED <<mode, db, files, running, marker, panel, wanted>>
  /\ NoFault

\* Where a job goes once the node has its files and they are valid: the boot
\* restarts the node only when the upload changed its configuration.
AfterSync ==
  CASE Transactional -> Goto("backup") /\ UNCHANGED panel
    [] job.kind = "manager" -> Goto("decide") /\ UNCHANGED panel
    [] OTHER -> IF mode = "ssh" /\ job.changed
                THEN Goto("restart") /\ UNCHANGED panel ELSE Done

PushRoute ==
  /\ At("pushRoute")
  /\ remote' = [remote EXCEPT !.route = files.route]
  /\ AfterSync
  /\ UNCHANGED <<mode, db, files, running, marker, wanted>>
  /\ NoFault

\* A local node validates the file in place.
Test ==
  /\ At("test")
  /\ AfterSync
  /\ UNCHANGED <<mode, db, files, remote, running, marker, wanted>>
  /\ NoFault

\* A write, an upload, a validation, the restart of the backup or the commit
\* fails.  The boot only logs what fails on a remote node.
StepFails ==
  /\ job # Free
  /\ job.pc \in {"inputs", "pushConf", "pushPorts", "pushRoute", "test",
                 "backup", "clear", "commit"}
  /\ IF job.kind = "bootWrite" /\ job.pc \in {"pushConf", "pushPorts", "pushRoute"}
     THEN StepFault /\ Done ELSE Fails
  /\ UNCHANGED <<mode, db, files, remote, running, marker, wanted>>

\* Mutant: the node's own restart is left out.
RestartBackupOnly ==
  /\ At("backup")
  /\ Goto("clear")
  /\ UNCHANGED <<mode, db, files, remote, running, marker, panel, wanted>>
  /\ NoFault

\* The backup node of the control plane is restarted.
RestartBackup ==
  /\ At("backup")
  /\ Goto(IF job.kind = "mutation" THEN "restart" ELSE "clear")
  /\ UNCHANGED <<mode, db, files, remote, running, marker, panel, wanted>>
  /\ NoFault

\* The manager applies what changed, or what an earlier cycle left pending.
Decide ==
  /\ At("decide")
  /\ marker' = job.changed
  /\ IF job.changed THEN Goto("restart") /\ UNCHANGED panel ELSE Done
  /\ UNCHANGED <<mode, db, files, remote, running, wanted>>
  /\ NoFault

RestartNode ==
  /\ At("restart")
  /\ running' = NodeConf
  /\ IF job.kind = "bootWrite" THEN Done
     ELSE job' = [job EXCEPT !.pc = "clear", !.loaded = TRUE] /\ UNCHANGED panel
  /\ UNCHANGED <<mode, db, files, remote, marker, wanted>>
  /\ NoFault

\* The restart fails, or times out after the node has loaded the file; the
\* boot only logs it.
RestartNodeFails ==
  /\ At("restart")
  /\ running' \in {running, NodeConf}
  /\ StepFault
  /\ CASE Transactional -> /\ job' = [job EXCEPT !.pc = "undo", !.loaded = TRUE]
                           /\ UNCHANGED panel
       [] job.kind = "bootWrite" -> Done
       [] OTHER -> Raise
  /\ UNCHANGED <<mode, db, files, remote, marker, wanted>>

\* The marker goes before the database is committed.
ClearMarker ==
  /\ At("clear")
  /\ marker' = FALSE
  /\ IF Transactional THEN Goto("commit") /\ UNCHANGED panel ELSE Done
  /\ UNCHANGED <<mode, db, files, remote, running, wanted>>
  /\ NoFault

Commit ==
  /\ At("commit")
  /\ db' = [enabled |-> job.work, spent |-> db.spent \ job.renewed]
  /\ Done
  /\ UNCHANGED <<mode, files, remote, running, marker, wanted>>
  /\ NoFault

-----------------------------------------------------------------------------
(* The rollback of a transaction *)

\* The files get their earlier contents back one after the other - all but the
\* fragment.
UndoPortsFile ==
  /\ At("undo")
  /\ files' = [files EXCEPT !.ports = job.prev.ports]
  /\ Goto("undoFile")
  /\ UNCHANGED <<mode, db, remote, running, marker, panel, wanted>>
  /\ NoFault

\* The configuration is given a content; what follows depends on the node.
UndoConfFileTo(conf) ==
  /\ At("undoFile")
  /\ files' = [files EXCEPT !.conf = conf]
  /\ IF mode = "ssh" THEN Goto("undoConf") /\ UNCHANGED panel
     ELSE IF job.loaded THEN Goto("undoRestart") /\ UNCHANGED panel ELSE Raise
  /\ UNCHANGED <<mode, db, remote, running, marker, wanted>>
  /\ NoFault

\* Mutant: the rollback keeps the rendered configuration.
UndoConfFileKeepsConfig == UndoConfFileTo(files.conf)

UndoConfFile == UndoConfFileTo(job.prev.conf)

UndoConf ==
  /\ At("undoConf")
  /\ remote' = [remote EXCEPT !.conf = files.conf]
  /\ Goto("undoPorts")
  /\ UNCHANGED <<mode, db, files, running, marker, panel, wanted>>
  /\ NoFault

UndoPorts ==
  /\ At("undoPorts")
  /\ remote' = [remote EXCEPT !.ports = files.ports]
  /\ Goto("undoRoute")
  /\ UNCHANGED <<mode, db, files, running, marker, panel, wanted>>
  /\ NoFault

UndoRoute ==
  /\ At("undoRoute")
  /\ remote' = [remote EXCEPT !.route = files.route]
  /\ IF job.loaded THEN Goto("undoRestart") /\ UNCHANGED panel ELSE Raise
  /\ UNCHANGED <<mode, db, files, running, marker, wanted>>
  /\ NoFault

UndoRestart ==
  /\ At("undoRestart")
  /\ running' = NodeConf
  /\ Raise
  /\ UNCHANGED <<mode, db, files, remote, marker, wanted>>
  /\ NoFault

\* A file that cannot be put back raises out of the rollback, which leaves the
\* files after it, the node's copies and what the node has loaded as they are.
\* What fails on the node is logged and ends the rollback (the backup's
\* configuration, put back last, fails like the first step on the node).
UndoFails ==
  /\ \/ (At("undo") \/ At("undoFile")) /\ Fault("restore")
     \/ /\ At("undoConf") \/ At("undoPorts") \/ At("undoRoute")
           \/ At("undoRestart")
        /\ Fault("undo")
  /\ Raise
  /\ UNCHANGED <<mode, db, files, remote, running, marker, wanted>>

-----------------------------------------------------------------------------
(* Crashes and the environment *)

PanelCrash ==
  /\ panel # "down"
  /\ Fault("crash")
  /\ panel' = "down"
  /\ job' = IF job.kind \in PanelKinds THEN Free ELSE job
  /\ UNCHANGED <<mode, db, files, remote, running, marker, wanted>>

ManagerCrash ==
  /\ job.kind = "manager"
  /\ Fault("crash")
  /\ job' = Free
  /\ UNCHANGED <<mode, db, files, remote, running, marker, panel, wanted>>

\* The admin's restart button, or the node's own supervisor: no lock is taken.
NodeRestarts ==
  /\ Fault("node")
  /\ running' = NodeConf
  /\ UNCHANGED <<mode, db, files, remote, marker, job, panel, wanted>>

\* A port expires, or its recorded traffic reaches the limit.
Spend ==
  /\ used.env < MaxEnv
  /\ \E p \in db.enabled \ db.spent : db' = [db EXCEPT !.spent = @ \cup {p}]
  /\ IF panel = "up"
     THEN used' = [used EXCEPT !.env = @ + 1] /\ UNCHANGED met
     ELSE Fault("outage")
  /\ UNCHANGED <<mode, files, remote, running, marker, job, panel, wanted>>

\* Another candidate answers, none does, or an admin picks a mode.
RouteChanges ==
  /\ used.env < MaxEnv
  /\ used' = [used EXCEPT !.env = @ + 1]
  /\ wanted' \in Routes \ {wanted}
  /\ UNCHANGED <<mode, db, files, remote, running, marker, job, panel, met>>

-----------------------------------------------------------------------------
Forward == \/ WritePorts \/ Render \/ Mark \/ PushConf \/ PushPorts
           \/ PushRoute \/ Test \/ RestartBackup \/ Decide \/ RestartNode
           \/ ClearMarker \/ Commit
Backward == \/ UndoPortsFile \/ UndoConfFile \/ UndoConf \/ UndoPorts
            \/ UndoRoute \/ UndoRestart
Failing == RenderFails \/ StepFails \/ RestartNodeFails \/ UndoFails
Booting == Restart \/ BootCleanup \/ BootDisable \/ BootWrite
Beginning == BeginMutation \/ BeginDisable \/ BeginModeSync \/ BeginManager
Environment == \/ PanelCrash \/ ManagerCrash \/ NodeRestarts \/ Spend
               \/ RouteChanges

Next == Forward \/ Backward \/ Failing \/ Booting \/ Beginning \/ Environment

Spec == Init /\ [][Next]_vars

\* A job that was begun runs to its end, a dead panel is restarted by its
\* container policy, and the two periodic jobs, though refused while another
\* holds the lock, do not meet a held lock forever: jobs take seconds, cycles
\* are a minute and an hour apart.
Fairness ==
  /\ WF_vars(Forward \/ Backward)
  /\ WF_vars(Restart)
  /\ WF_vars(BootCleanup)
  /\ WF_vars(BootDisable)
  /\ WF_vars(BootWrite)
  /\ SF_vars(BeginDisable)
  /\ SF_vars(BeginManager)

FairSpec == Spec /\ Fairness

-----------------------------------------------------------------------------
(* Properties *)

\* Types of the variables.
TypeOK ==
  /\ mode \in {"ssh", "docker"}
  /\ db \in [enabled : SUBSET Ports, spent : SUBSET Ports]
  /\ files \in Files
  /\ remote \in Files
  /\ running \in Config
  /\ marker \in BOOLEAN
  /\ job \in Job \cup {Free}
  /\ panel \in {"down", "boot", "bootDisable", "bootWrite", "up"}
  /\ wanted \in Routes
  /\ met \subseteq FaultKinds \cup {"apart"}
  /\ used \in [faults : 0..MaxFaults, ops : 0..MaxOps, env : 0..MaxEnv]

\* A configuration serves every port that is enabled and not due, and none
\* that is not enabled.
Serves(conf) ==
  /\ db.enabled \ db.spent \subseteq conf.ports
  /\ conf.ports \subseteq db.enabled

\* No fault has been met but steps of jobs that fail.
Kept == {"restore", "undo", "crash", "node", "outage"} \cap met = {}

\* Once the panel is up and no job is under way, config.json serves what the
\* database says, whatever has failed, crashed, been lost or fallen due before:
\* any restart of a local node then puts it right.  The one exception is a
\* rollback whose own writes to the panel's disk fail: what it has not put back
\* stays ahead of the database until the next apply or boot.  And whatever steps of the
\* applies have failed, the node itself serves what the database says: every
\* failure is compensated, in the files, on the node and in what it has loaded,
\* whether it came before the upload, between two files of it, or after the
\* node had loaded it.
ServesDatabase ==
  job = Free /\ panel = "up" =>
    /\ "restore" \notin met => Serves(files.conf)
    /\ Kept => Serves(running)

\* What a remote node holds and has not loaded is marked, so that the next
\* cycle of the manager restarts it even when nothing has changed since
\* (docs/ai-routing.md on the pending-apply marker) - whichever steps of
\* whichever jobs fail, as long as no fragment was rendered that the node does
\* not have, and every job found panel and node in step, or the marker.
LoadedOrMarked ==
  mode = "ssh" /\ Kept /\ {"pull", "apart"} \cap met = {} /\ job = Free
    => running = NodeConf \/ marker

\* No change of the ports by a request or by maintenance is committed unless
\* the node has loaded a configuration without any port that the commit takes
\* away - also when the node was restarted by others, or time went by, during
\* the transaction.
CommitsWhatRuns ==
  [][ At("commit") /\ job.kind = "mutation" /\ db'.enabled # db.enabled
      => running = NodeConf /\ running.ports \subseteq db'.enabled ]_vars

\* Failing steps but no crash, lost rollback, outage or restart by others have
\* been met.
Atomic == INSTANCE AtomicApply WITH
  sold <- db.enabled, due <- db.spent, served <- running.ports,
  change <- IF job.kind = "mutation" THEN {job.work} ELSE {},
  kept <- Kept

\* The steps of a transaction, a restart of the node that fails but loads the
\* file, the rollback of the files in three uploads, the manager's jobs and the
\* boot implement an atomic change: the node goes from serving the old ports to
\* serving the new ones, and back if the change is withdrawn.
AppliesAtomically == Atomic!Spec

\* No port is due.
NothingDue == db.spent = {}

\* After a crash of the panel or the manager at any step of an apply, or a
\* failed step, a remote node ends up serving the database and the wanted
\* route again, as long as no port falls due.
Heals == []NothingDue => <>[](Serves(running) /\ running.route = wanted)

\* A single crash of the panel or of the manager at any step of any job, or a
\* single restart of the node by others, is mended by the time the panel is up
\* and idle: the boot's upload finds that the node has another configuration,
\* or the node has loaded the right one all along.  No later cycle is needed.
\* The promise needs that no port falls due, as Heals does.
OneFaultMended ==
  mode = "ssh" /\ used.faults <= 1 /\ panel = "up" /\ job = Free
    => Serves(running)
BootRepairs == []NothingDue => []OneFaultMended

\* A port that is due is in the end not served any more (docs/operations.md:
\* due and over-quota ports are stopped automatically).
DueIsCutOff == <>[](running.ports \subseteq db.enabled)

=============================================================================
