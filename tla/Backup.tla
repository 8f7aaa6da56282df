------------------------------- MODULE Backup -------------------------------
(***************************************************************************)
(* Backups and the recovery of a node (scripts/run_db_backup_cycle.py and  *)
(* the scripts it calls, scripts/node_recovery.py).  A cycle takes a       *)
(* snapshot of the panel's database, reads the nodes' files over SSH,      *)
(* bundles them with the control plane's own files while those are being   *)
(* rewritten, prunes by age, verifies the bundle, writes its readiness     *)
(* down, and uploads it.  The scheduled cycle and one started by hand may  *)
(* overlap.  An operator prepares a replacement node from a bundle.        *)
(*                                                                         *)
(* A file's content is its version.  A role needs two files: of its node,  *)
(* when the node has an SSH target, or else of the control plane.  Two     *)
(* cycles do not start within one second (their names would be equal), and *)
(* the time-outs end a cycle within the day.                               *)
(***************************************************************************)
EXTENDS Integers, FiniteSets, Functions

CONSTANTS
    KeepDays,      \* DB_BACKUP_KEEP_DAYS and DB_BACKUP_BUNDLE_KEEP_DAYS
    BackupBudgets  \* one record per scenario: remote (roles with an SSH
                   \* target), strict, gated (the two ..._REQUIRED settings);
                   \* bounds day, cron and manual (cycles), rewrite,
                   \* lose, unread, down, stop, prepare

Roles == {"normal", "ai"}

ASSUME BackupAssumption ==
    /\ KeepDays \in Nat \ {0}
    /\ BackupBudgets \subseteq
         [remote : SUBSET Roles, strict : BOOLEAN, gated : BOOLEAN, day : Nat, cron : Nat,
          manual : Nat, rewrite : Nat, lose : Nat, unread : Nat, down : Nat, stop : Nat,
          prepare : Nat]

VARIABLES
    day,
    live, gone,    \* the version of each source, and the sources not there
    stamps,        \* snapshots taken: their names
    snapshots,     \* <prefix>-<stamp>.db
    cycles,        \* of the scheduler and of the operator
    bundles,       \* <prefix>-disaster-<stamp>.tar.gz
    placed,        \* history: a bundle has been made
    status,        \* node-recovery-status.json
    draft,         \* its temporary file, which the cycles share
    bucket,        \* the uploaded bundles
    uploaded,      \* r2-upload-record.json: its bundle's stamp
    preparing,     \* node_recovery.py prepare, under way
    output,        \* the directory it writes
    torn,          \* history: what forced preparations that did not end restore
    backupLeft     \* what is left of the bounds

sourceVars == <<day, live, gone>>
statusVars == <<status, draft>>
bundleVars == <<bundles, placed, statusVars>>
uploadVars == <<bucket, uploaded>>
prepareVars == <<preparing, output, torn>>
backupVars == <<sourceVars, stamps, snapshots, cycles, bundleVars, uploadVars,
                prepareVars, backupLeft>>

Cyclers == {"cron", "manual"}
Database == <<"database", "panel">>
NoFiles == [f \in {} |-> 0]
OneFile(f, version) == [g \in {f} |-> version]

\* The files new, written over the files old.
Overwritten(new, old) ==
    [f \in DOMAIN new \cup DOMAIN old |-> IF f \in DOMAIN new THEN new[f] ELSE old[f]]

Ended == [pc |-> "off", stamp |-> 0, nodes |-> {}, staged |-> NoFiles,
          todo |-> {}, data |-> NoFiles, hash |-> NoFiles, since |-> NoFiles]
NotPreparing == [on |-> FALSE]
NoStatus == [stamp |-> 0, ready |-> FALSE, made |-> 0]

Remote == backupLeft.remote

\* required_paths: the role's config and environment, and where they come from.
Required(role) ==
    IF role \in Remote THEN {<<role, "config">>, <<role, "env">>}
    ELSE {<<"local", role>>, <<"local", "env">>}

Local == UNION {Required(role) : role \in Roles \ Remote}
Sources == {Database} \cup UNION {Required(role) : role \in Roles}

\* portable_restore_path: every role's files have the same two places.
RestorePath(f) == IF f[2] = "env" THEN "env" ELSE "config"

SpendBackup(what) ==
    backupLeft[what] > 0 /\ backupLeft' = [backupLeft EXCEPT ![what] = @ - 1]

BackupInit ==
    /\ backupLeft \in BackupBudgets
    /\ day = 0
    /\ live = [f \in Sources |-> 1] /\ gone = {}
    /\ stamps = 0 /\ snapshots = {}
    /\ cycles = [c \in Cyclers |-> Ended]
    /\ bundles = {} /\ placed = FALSE /\ status = NoStatus /\ draft = NoStatus
    /\ bucket = {} /\ uploaded = 0
    /\ preparing = NotPreparing /\ torn = {}
    /\ output = [files |-> NoFiles, record |-> [stamp |-> 0]]

-----------------------------------------------------------------------------
(* What goes on meanwhile.                                                  *)

DayPasses ==
    /\ \A c \in Cyclers : cycles[c].pc = "off"
    /\ SpendBackup("day")
    /\ day' = day + 1
    /\ UNCHANGED <<live, gone, stamps, snapshots, cycles, bundleVars, uploadVars, prepareVars>>

\* The panel commits; a renderer or a node's sync replaces a file.
Rewrite(f) ==
    /\ SpendBackup("rewrite")
    /\ live' = [live EXCEPT ![f] = @ + 1] /\ gone' = gone \ {f}
    /\ UNCHANGED <<day, stamps, snapshots, cycles, bundleVars, uploadVars, prepareVars>>

Lose(f) ==
    /\ f \notin gone
    /\ SpendBackup("lose")
    /\ gone' = gone \cup {f}
    /\ UNCHANGED <<day, live, stamps, snapshots, cycles, bundleVars, uploadVars, prepareVars>>

-----------------------------------------------------------------------------
(* A cycle, run_db_backup_cycle.main.                                       *)

Goes(c, pc) == cycles' = [cycles EXCEPT ![c].pc = pc]

\* backup_db.main: SQLite's online backup, renamed into place.
Snapshot(c) ==
    /\ cycles[c].pc = "off" /\ Database \notin gone
    /\ SpendBackup(c)
    /\ stamps' = stamps + 1
    /\ snapshots' = snapshots \cup {[stamp |-> stamps', made |-> day, db |-> live[Database]]}
    /\ cycles' = [cycles EXCEPT ![c] =
           [Ended EXCEPT !.pc = "tidy", !.stamp = stamps', !.nodes = Remote,
                         !.todo = Local, !.since = live]]
    /\ UNCHANGED <<sourceVars, bundleVars, uploadVars, prepareVars>>

Expired(x) == day - x.made > KeepDays

PruneSnapshots(c) ==
    /\ cycles[c].pc = "tidy"
    /\ snapshots' = {s \in snapshots : ~Expired(s)}
    /\ Goes(c, IF Remote = {} THEN "archive" ELSE "collect")
    /\ UNCHANGED <<sourceVars, stamps, bundleVars, uploadVars, prepareVars, backupLeft>>

\* REMOTE_READ_SCRIPT: one command on the node reads its files, as far as they
\* are there, regular and readable.
ReadOnNode(role) ==
    LET there == Required(role) \ gone IN
    {[files |-> there, cost |-> "none"]}
    \cup {[files |-> there \ {f}, cost |-> "unread"] : f \in there}

\* read_remote: or the node is not reached at all.
Answers(role) == ReadOnNode(role) \cup {[files |-> {}, cost |-> "down"]}

\* A fault is paid for.
Costs(what) == IF what = "none" THEN UNCHANGED backupLeft ELSE SpendBackup(what)

\* write_collection
Staged(files) == [f \in files |-> live[f]]

\* collect_nodes: into a staging directory of the cycle's own.
Collect(c, role) ==
    /\ cycles[c].pc = "collect" /\ role \in cycles[c].nodes
    /\ "normal" \in cycles[c].nodes => role = "normal"
    /\ \E a \in Answers(role) :
          /\ Costs(a.cost)
          /\ cycles' = [cycles EXCEPT ![c] =
                IF backupLeft.strict /\ (a.files # Required(role) \/ "normal" \notin Remote)
                THEN Ended
                ELSE [cycles[c] EXCEPT
                          !.staged = Overwritten(Staged(a.files), @), !.nodes = @ \ {role},
                          !.pc = IF cycles[c].nodes = {role} THEN "archive" ELSE "collect"]]
    /\ UNCHANGED <<sourceVars, stamps, snapshots, bundleVars, uploadVars, prepareVars>>

\* Mutant: the source is hashed when it has been archived.
HashedAfter(read) == {read, read + 1}

\* The hash of what was read.
Hashed(read) == {read}

\* _add_source: the bytes read are archived and hashed; a file that cannot be
\* read is in neither the archive nor the manifest.
AddSource(c, f) ==
    /\ cycles[c].pc = "archive" /\ f \in cycles[c].todo
    /\ \/ /\ f \notin gone /\ UNCHANGED backupLeft
          /\ \E hash \in Hashed(live[f]) :
                cycles' = [cycles EXCEPT ![c].todo = @ \ {f},
                                         ![c].data = Overwritten(OneFile(f, live[f]), @),
                                         ![c].hash = Overwritten(OneFile(f, hash), @)]
       \/ /\ Costs(IF f \in gone THEN "none" ELSE "unread")
          /\ cycles' = [cycles EXCEPT ![c].todo = @ \ {f}]
    /\ UNCHANGED <<sourceVars, stamps, snapshots, bundleVars, uploadVars, prepareVars>>

\* _remote_node_manifest, _local_runtime_node_manifest.
Configured(role, files) == role \in Remote \/ Required(role) \cap files # {}
NodeReady(role, files) == Required(role) \subseteq files

\* build_node_recovery_manifest: the roles it lists as configured, and whether
\* each of these can be recovered from the archive's files.
Manifest(files) ==
    LET roles == {role \in Roles : Configured(role, files)} IN
    [roles |-> roles,
     ready |-> roles # {} /\ Database \in files /\ \A role \in roles : NodeReady(role, files)]

\* create_backup_bundle: the snapshot and the staged files, which nobody else
\* writes, are added; the archive is renamed into place.
Place(c) ==
    LET r == cycles[c]
        db == (CHOOSE s \in snapshots : s.stamp = r.stamp).db
        mine == Overwritten(OneFile(Database, db), r.staged) IN
    /\ r.pc = "archive" /\ r.todo = {}
    /\ \E lost \in SUBSET DOMAIN mine :
          /\ Cardinality(lost) <= 1
          /\ Costs(IF lost = {} THEN "none" ELSE "unread")
          /\ LET added == Restrict(mine, DOMAIN mine \ lost) IN
             bundles' = bundles \cup
                 {[stamp |-> r.stamp, made |-> day, since |-> r.since,
                   data |-> Overwritten(added, r.data), hash |-> Overwritten(added, r.hash),
                   says |-> Manifest(DOMAIN added \cup DOMAIN r.data)]}
    /\ placed' = TRUE
    /\ Goes(c, "prune")
    /\ UNCHANGED <<sourceVars, stamps, snapshots, statusVars, uploadVars, prepareVars>>

PruneBundles(c) ==
    /\ cycles[c].pc = "prune"
    /\ bundles' = {b \in bundles : ~Expired(b)}
    /\ Goes(c, "verify")
    /\ UNCHANGED <<sourceVars, stamps, snapshots, placed, statusVars, uploadVars, prepareVars,
                   backupLeft>>

\* validate_backup_bundle
Valid(b) == b.data = b.hash

\* The bundle whose cycle c is.
BundleOf(c) == CHOOSE b \in bundles : b.stamp = cycles[c].stamp

\* enforce_recovery_readiness, write_recovery_status: the temporary file is
\* written (truncated and filled in one step)...
DraftStatus(c) ==
    LET b == BundleOf(c) IN
    /\ cycles[c].pc = "verify" /\ Valid(b)
    /\ draft' = [stamp |-> b.stamp, ready |-> b.says.ready, made |-> b.made]
    /\ Goes(c, "publish")
    /\ UNCHANGED <<sourceVars, stamps, snapshots, bundles, placed, status, uploadVars,
                   prepareVars, backupLeft>>

\* ... and renamed, whichever cycle has written it last; when the other one has
\* renamed or removed it, the cycle fails...
PublishStatus(c) ==
    /\ cycles[c].pc = "publish"
    /\ \/ /\ draft # NoStatus
          /\ status' = draft /\ draft' = NoStatus
          /\ Goes(c, "clear")
       \/ /\ draft = NoStatus /\ UNCHANGED statusVars
          /\ cycles' = [cycles EXCEPT ![c] = Ended]
    /\ UNCHANGED <<sourceVars, stamps, snapshots, bundles, placed, uploadVars, prepareVars,
                   backupLeft>>

\* ... and removed if it is there again; the readiness may be required.
ClearDraft(c) ==
    /\ cycles[c].pc = "clear"
    /\ draft' = NoStatus
    /\ IF backupLeft.gated /\ ~BundleOf(c).says.ready
       THEN cycles' = [cycles EXCEPT ![c] = Ended]
       ELSE Goes(c, "upload")
    /\ UNCHANGED <<sourceVars, stamps, snapshots, bundles, placed, status, uploadVars,
                   prepareVars, backupLeft>>

\* encrypt_bundle, upload_bundle.
Upload(c) ==
    /\ cycles[c].pc = "upload"
    /\ bucket' = bucket \cup {b \in bundles : b.stamp = cycles[c].stamp}
    /\ Goes(c, "record")
    /\ UNCHANGED <<sourceVars, stamps, snapshots, bundleVars, uploaded, prepareVars, backupLeft>>

RecordUpload(c) ==
    /\ cycles[c].pc = "record"
    /\ uploaded' = cycles[c].stamp
    /\ cycles' = [cycles EXCEPT ![c] = Ended]
    /\ UNCHANGED <<sourceVars, stamps, snapshots, bundleVars, bucket, prepareVars, backupLeft>>

\* A step raises, or the container is stopped: what was staged is gone, and the
\* temporary file too unless the process is killed.
CycleStops(c) ==
    /\ cycles[c].pc # "off"
    /\ SpendBackup("stop")
    /\ cycles' = [cycles EXCEPT ![c] = Ended]
    /\ \/ draft' = draft
       \/ cycles[c].pc \in {"publish", "clear"} /\ draft' = NoStatus
    /\ UNCHANGED <<sourceVars, stamps, snapshots, bundles, placed, status, uploadVars,
                   prepareVars>>

-----------------------------------------------------------------------------
(* A replacement node's directory, prepare_node.                            *)

StartPrepare(b, role, force, partial) ==
    /\ ~preparing.on
    /\ Valid(b)
    /\ NodeReady(role, DOMAIN b.data) \/ partial
    /\ (output.files = NoFiles /\ output.record.stamp = 0) \/ force
    /\ SpendBackup("prepare")
    /\ preparing' = [on |-> TRUE, of |-> b, role |-> role, force |-> force,
                     todo |-> Required(role) \cap DOMAIN b.data]
    /\ UNCHANGED <<sourceVars, stamps, snapshots, cycles, bundleVars, uploadVars, output, torn>>

\* The files that a role's preparation from a bundle restores, at their places.
AtPlaces(files, data) ==
    [path \in {RestorePath(f) : f \in files} |->
        data[CHOOSE f \in files : RestorePath(f) = path]]
Restored(b, role) == AtPlaces(Required(role) \cap DOMAIN b.data, b.data)

\* Mutant: a file that is there already is left alone, also by --force.
WrittenOnce(f, files) == Overwritten(files, OneFile(RestorePath(f), preparing.of.data[f]))

Written(f, files) == Overwritten(OneFile(RestorePath(f), preparing.of.data[f]), files)

\* _write_file, each through a temporary file of its own.
WriteFile(f) ==
    /\ preparing.on /\ f \in preparing.todo
    /\ output' = [output EXCEPT !.files = Written(f, @)]
    /\ preparing' = [preparing EXCEPT !.todo = @ \ {f}]
    /\ UNCHANGED <<sourceVars, stamps, snapshots, cycles, bundleVars, uploadVars, torn, backupLeft>>

\* node-recovery.json
FinishPrepare ==
    LET p == preparing IN
    /\ p.on /\ p.todo = {}
    /\ output' = [output EXCEPT !.record =
           [stamp |-> p.of.stamp, ready |-> NodeReady(p.role, DOMAIN p.of.data),
            files |-> Restored(p.of, p.role)]]
    /\ torn' = {}
    /\ preparing' = NotPreparing
    /\ UNCHANGED <<sourceVars, stamps, snapshots, cycles, bundleVars, uploadVars, backupLeft>>

PrepareStops ==
    /\ preparing.on
    /\ SpendBackup("stop")
    /\ torn' = IF preparing.force THEN torn \cup {Restored(preparing.of, preparing.role)}
               ELSE torn
    /\ preparing' = NotPreparing
    /\ UNCHANGED <<sourceVars, stamps, snapshots, cycles, bundleVars, uploadVars, output>>

-----------------------------------------------------------------------------
BackupStep(c) ==
    \/ Snapshot(c) \/ PruneSnapshots(c)
    \/ \E role \in Roles : Collect(c, role)
    \/ \E f \in Local : AddSource(c, f)
    \/ Place(c) \/ PruneBundles(c)
    \/ DraftStatus(c) \/ PublishStatus(c) \/ ClearDraft(c)
    \/ Upload(c) \/ RecordUpload(c)

BackupNext ==
    \/ DayPasses
    \/ \E f \in Sources : Rewrite(f) \/ Lose(f)
    \/ \E c \in Cyclers : BackupStep(c) \/ CycleStops(c)
    \/ \E b \in bundles \cup bucket, role \in Roles, force, partial \in BOOLEAN :
          StartPrepare(b, role, force, partial)
    \/ \E f \in Sources : WriteFile(f)
    \/ FinishPrepare \/ PrepareStops

BackupSpec == BackupInit /\ [][BackupNext]_backupVars

-----------------------------------------------------------------------------
\* A cycle has archived what it no longer has to do; its snapshot is there.
BackupTypeOK ==
    /\ day \in Nat /\ gone \subseteq Sources /\ placed \in BOOLEAN
    /\ \A c \in Cyclers :
          LET r == cycles[c] IN
          /\ r.todo \cap DOMAIN r.data = {} /\ DOMAIN r.data = DOMAIN r.hash
          /\ DOMAIN r.staged \subseteq Sources \ Local
          /\ r.pc # "off" => \E s \in snapshots : s.stamp = r.stamp
          /\ r.pc \in {"prune", "verify", "publish", "clear", "upload", "record"} =>
                \E b \in bundles : b.stamp = r.stamp
    /\ \A b \in bundles : b.stamp \in 1 .. stamps /\ b.made <= day

\* A bundle that says it is ready holds the panel's database and both files of
\* every role that is in use, none of them older than the start of its cycle,
\* and passes the validation: whatever was rewritten, lost or not reached
\* meanwhile, also by a cycle that overlaps.
ReadyBundlesRestore ==
    \A b \in bundles \cup bucket : b.says.ready =>
        /\ Valid(b) /\ Database \in DOMAIN b.data
        /\ \A role \in b.says.roles : Required(role) \subseteq DOMAIN b.data
        /\ Remote \subseteq b.says.roles
        /\ \A f \in DOMAIN b.data : b.data[f] >= b.since[f]

\* The status file speaks of the bundle it names, as long as that is there, and
\* the pruning leaves a younger one in its place; the upload's record names a
\* bundle in the bucket, where only ready ones are if that is required.
RecordsHold ==
    /\ status.stamp # 0 => \/ \E b \in bundles : /\ b.stamp = status.stamp
                                                 /\ Valid(b) /\ b.says.ready = status.ready
                           \/ \E b \in bundles : b.made > status.made
    /\ placed => bundles # {}
    /\ uploaded # 0 => \E b \in bucket : b.stamp = uploaded
    /\ backupLeft.gated => \A b \in bucket : b.says.ready

BackupsRestore == ReadyBundlesRestore /\ RecordsHold

\* What preparations that were forced into the directory have put there, since
\* its record was written.
ForcedIn ==
    torn \cup (IF preparing.on THEN {Restored(preparing.of, preparing.role)} ELSE {})

\* In a node's directory with a node-recovery.json each file that this lists is
\* as it is in the bundle, all from the same one; a file that is not comes from
\* a preparation that was forced over it later and has not ended, and none is
\* lost.  The directory has what it takes to start, if it says so.  So it is
\* over preparations that stop, and others from an older or newer bundle.
RestoreIsWhole ==
    output.record.stamp # 0 =>
        /\ \A path \in DOMAIN output.record.files :
              /\ path \in DOMAIN output.files
              /\ \/ output.files[path] = output.record.files[path]
                 \/ \E r \in ForcedIn : path \in DOMAIN r /\ output.files[path] = r[path]
        /\ output.record.ready => {"config", "env"} \subseteq DOMAIN output.files
=============================================================================
