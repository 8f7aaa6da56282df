# Formal models of the Xray routing panel

TLA+ models of the parts of the panel in which state is shared between threads,
processes, machines and an outside service, and in which the order of steps, a
failure in the middle, or a restart decides whether the result is right.  TLC
checks them on small instances; TLAPS proves their safety properties, and the
refinements of an abstract apply and an abstract report, for every value of the
constants.  `PROJECT.json` ties each definition to the lines it models, each run to
what it shows, each property to a fault of the code that
breaks it, and lists the hazards at the lines where they bite.

    tlc -workers 2 -config DnsFailover_views.cfg MC_DnsFailover.tla
    tlapm DnsFailover_proofs.tla

## 1. The system

The control plane is one Python process (Flask requests in threads, a
maintenance thread and a DNS thread) over a SQLite file.  It writes the Xray
configuration of the ordinary data plane (local, in Docker, or on a remote node
through ssh), and may run a backup Xray of its own.  A separate process, the AI
domain manager, decides how AI domains are routed and applies its own changes to
the same files and node; it runs every hour, and once more whenever the admin
sets a routing mode by hand.  Cloudflare holds the DNS record that decides which
of the two data planes clients meet.  Beside it stand an operations service,
which writes, publishes and archives a daily report from what Prometheus and its
own samples say, and a scheduled backup of panel and nodes.  The collector of the
nodes' logs is still in the repository with its database, its commands and its
tests, but it is retired: no container runs it and it must not be deployed
(`docs/ops-reporting/log-collector.md`).  Its model says what the code does if
an operator runs it.

| Component | State it keeps | Operations | What is hard |
|---|---|---|---|
| DNS failover (`app/state/dns_failover.py`, `app/dns_failover.py`, `app/runtime/dns_failover.py`) | row `dns_failover_state` (target, two streak counters, error), the Cloudflare record | periodic check, manual check and switch, start-up refresh | API calls between two transactions, lost answers, crash between the call and the store, flapping |
| Xray apply (`app/xray/apply.py`) | ports file, `config.json`, share files, the node's copies, the pending marker, what the node runs | apply transaction and its rollback, boot sync, backup mode sync | many steps with effects on three media, compensation, commit last |
| AI domain manager (`app/xray/ai_routing/*`) | `dynamic-routing.json`, `ai-domain-decisions.json`, the book of the log (`.state.json`), hourly reports, `ai_domains` and `ai_domain_observations` | hourly cycle, manual mode run | a second process with the same files; what was not loaded must be remembered; reports with overlapping windows |
| AI routing service (`app/state/ai_routing.py`, `launcher.py`, `runner.py`) | manual mode in `app_state`, the two lock files | set the mode, launch the manager, compensate | launcher time-out, store after apply, a run of the old mode in between |
| Search tool (`app/xray/google_search_mcp.py`) | `ai-domain-decisions.json` | collect, search, classify and write back | no lock: its copy may be older than a run's |
| Commerce (`app/state/commerce.py`) | customers, plans, orders, payment submissions and files, services | order, upload proof, review, fulfil, renew, cancel, expire | deadlines racing reviews, file written before its transaction, tests made long before they are used |
| Ports (`app/state/ports.py`) | ports, tokens, credentials | create, change, toggle, delete, clean up | ports that were paid for must survive every clean-up |
| Traffic (`app/state/traffic.py`, `app/xray/stats.py`) | totals and daily rows by listening port, access-log offset | sync, reset | the read resets the node's counters; rows outlive ports |
| Lifecycle and maintenance (`app/state/lifecycle.py`, `app/runtime/maintenance.py`) | none | boot, stop, the periodic cycle | order of the boot's steps, each in a transaction of its own |
| Node backends (`app/xray/node/*`) | the node's files | upload, validate, restart, read | part of a sync done; restarts by hand |
| Storage (`app/storage/*`) | SQLite | one write lock, `BEGIN IMMEDIATE` | none beyond the lock |
| Renderer (`app/xray/render_config.py` and others) | none | configuration from ports and route | pure |
| Ops collector and storage (`components/xray_ops/collector.py`, `storage.py`, `remote.py`, `parsing.py`, `xray_stats.py`) | cursors, raw events, roll-ups, traffic samples | collect, backfill, prune (retired), sample | cursor and events together, rotation, reads cut by the limit, concurrent runs, counter resets |
| Ops reporter (`reporter.py`, `report_contract.py`, `rules.py`, `github_reports.py`, `codex_runner.py`, `ai_domains.py`) | `report_runs`, generations and pointer on disk, the archive's git work tree | schedule, analyse, publish, roll back, expire, push | two files that must be of one report, interrupted runs, verdicts from missing evidence |
| Backup and recovery (`scripts/run_db_backup_cycle.py`, `build_backup_bundle.py`, `collect_remote_backup.py`, `node_recovery.py`, `upload_backup_r2.py`) | snapshots, bundles, readiness and upload records, a node's prepared directory | a cycle, prune, verify, upload, prepare | files rewritten while they are archived, overlapping cycles, preparations done again |
| Upstream probes (`app/state/probes.py`) | `upstream_probes` and their history | a probing round | probes outlive the ports they were made for |
| Web, auth, subscriptions, deployment, front end | request-local, or none | | not protocol state |

How they interact: web requests and the maintenance thread call Commerce, Ports
and Traffic; whatever changes the served ports goes through the apply
transaction, under the apply file lock (shared with the manager) and then the
database's write lock.  The DNS worker takes the write lock only and is
independent of the apply.  A request for a routing mode holds the manager's gate
file while the manager it launches takes the apply lock; a scheduled cycle takes
both.  The operations service shares no state with the panel but reads its
metrics over the network; the backup reads the panel's files without any lock.

What makes each correct, in a sentence: the panel's idea of the DNS record is
the record (DNS failover); the node runs what the database says, or there is a
mark that it does not yet (apply, manager); nothing is committed that the node
has not loaded (apply); a customer has what the fulfilled orders say and is
charged for no other's traffic (Commerce, Ports, Traffic); the node routes AI
domains as the stored mode says (AI routing); what was written to a log is
counted once or a gap is reported, and a report is whole and says only what was
observed (Ops, Traffic); what claims to be restorable can be restored (Backup).

## 2. Modules

| Module | Models | Lines of code behind it |
|---|---|---|
| `DnsFailover` | the DNS row, the record, and every caller's request step by step | `dns_failover.py`, worker, boot refresh |
| `XrayApply` | the holder of the apply lock step by step: apply transaction, boot's disable and write, mode sync, manager cycle | `apply.py`, `manager.py`, `node/files.py`, boot |
| `Commerce` | orders, submissions, proofs, services, ports, traffic rows and counters; the apply transaction as one step | `commerce.py`, `ports.py`, `traffic.py`, `stats.py` |
| `AtomicApply` | abstract: what an apply promises; `XrayApply` implements it | |
| `AiRouting` | cycles and manual runs of the manager, the panel's request, the search tool, reports and what a day's analysis counts | `ai_routing/*`, `state/ai_routing.py`, `google_search_mcp.py`, `ai_domains.py` |
| `LogCollector` | collection by cursor, rotation, the backfill, retention, roll-ups | `collector.py`, `storage.py`, `remote.py`, `parsing.py` |
| `DailyReports` | schedule, lock, analysis, generations, retention, archive | `reporter.py`, `report_contract.py`, `github_reports.py`, `codex_runner.py`, `storage.py` |
| `AtomicReport` | abstract: what the replacement of a report promises; `DailyReports` implements it | |
| `DailyEvidence` | scrapes and samples, what the panel's metrics say of a node, and the report's verdicts from them | `rules.py`, `xray_stats.py`, `prometheus.py`, `web/metrics.py`, `node/probes.py` |
| `Backup` | backup cycles, pruning, verification, upload, preparation of a node | `scripts/run_db_backup_cycle.py` and the scripts it calls, `node_recovery.py` |
| `TrafficLog` | connections from the access log, upstream probes | `traffic.py`, `node/files.py`, `probes.py` |
| `MC_*` | values of the constants for TLC; `MC_OpsEvidence` and `MC_PanelJobs` also put parts side by side | |
| `DnsFailover_proofs`, `XrayApply_proofs`, `Commerce_proofs`, `AiRouting_proofs`, `PanelJobs_proofs`, `DailyReports_proofs`, `LogCollector_proofs`, `DailyEvidence_proofs` | theorems and their proofs | |

`Commerce` rests on `XrayApply`: there an apply that fails is shown to be
compensated, here it either happens or leaves only the traffic read before it.

### DnsFailover

`db` is the row `dns_failover_state`, `record` what Cloudflare serves, `call` the
locals and the program counter of each thread that runs a check or a switch,
`panel` and `seen` the boot and its refresh.  One database transaction is one
step, for the write lock is held around it; a TCP probe, a GET and a PUT are steps
of their own, between which other threads run: `StartCheck`, `Probe`, `Evaluate`
are `run_dns_failover_check`; `StartSwitch`, `GetRecord`, `RecordNoop`,
`PutRecord`, `RecordSwitch`, `RecordError` are `switch_dns_target`;
`ManualSwitch` is the admin API; `Restart` and `Refresh...` are the boot.  Faults
are a GET or PUT that fails, a PUT that takes effect and whose answer is lost, a
transaction that fails, a crash, an edit by hand, and a resolver that fails.
`drift` and `spacing` are history variables and guard nothing.  The peak window's
clock arithmetic is reduced to a flag that flips.

### XrayApply

`files` are the panel's files, `remote` the node's copies, `running` what the node has
loaded, `marker` the pending-apply file, `db` the committed database and `job` the one
holder of the apply lock, with its program counter and locals.  A step is a file
write, an upload of one file, a validation, a restart or the commit, and can fail; a
restart that fails may have loaded the configuration.  `Undo...` are the rollback: the
ports file and `config.json` are put back one after the other, outside any try, so
that a write that fails there leaves the rest, and the node, as they were; the uploads
and the restart follow, a step each.  The node may be restarted by hand at any time
(`NodeRestarts`), for that takes no lock.  Faults are kinds: a step that fails in a
job (`step`) or while the panel boots (`bootStep`), a write of the panel's own files
in a rollback (`restore`), an upload or the restart in it (`undo`), a crash, a node
that was restarted by others, an outage of the node while the panel boots, and a
failed pull of the node's route fragment before a rendering, which the code only logs
(`pull`).  `met` is the history of the kinds met; it also holds `apart` once a job has
begun (`Begin`) with panel and node out of step and no marker to say so (`InStep` is
its negation), which takes several failing steps to come about.  A configuration is
abstracted to its ports and its route.  Share and client files, external reloaders and
the contents of the backup's configuration are left out.

### AtomicApply

Five variables: the ports committed as enabled, those of them past a limit, those
the node serves, the change under way, and whether anything was met that the
promise excepts.  A change is deployed, then committed as it is served or
withdrawn as if it had never been tried; nothing else alters what is served.
`XrayApply!AppliesAtomically` is `Atomic!Spec` under the mapping `sold <-
db.enabled`, `due <- db.spent`, `served <- running.ports`, `change <-` the work of
the mutation that holds the lock, and `kept <- Kept`, that no fault but failing
steps of jobs, pulls and the boot was met: a crash of the panel in the middle, or a
rollback that fails itself (`restore`, `undo`), is what the docs leave to the boot
and to the operator.  Between a deployment and its
withdrawal the code does a dozen steps, an upload each; the mapping says that a
customer sees two.

### AiRouting

A run of the manager (`managers[m]`, with its program counter and the locals of
`_run_once_locked`) gathers (log past the book, decisions, mode, probes), classifies
batch by batch, applies, records into the panel's tables, writes the hourly report and
saves the book: one action each, between which the other manager, the panel, the
search tool, rotation and the clock run.  `Select` is `select_ai_target` for two
candidates.  `panel` is `set_ai_routing_manual_mode` with the launcher: `Request`,
`Launch`, `PanelTimesOut`, `PanelStores`, `StoreFails` and the compensating second
launch.  `gate` and `applying` are the two lock files.  `decided` is the file of
decisions, which a run holds a copy of and saves whole, and so does the search tool
(`SearchStarts`, `SearchEnds`), which takes no lock: each may overwrite what the other
decided in between.  `XrayApply` has the application of a route file by file; here it
happens, or it stops (`Stops`, by a failure or a death): before it changes anything,
after the rendering, the upload or the restart with its marker, or after the upload
without one.  The marker is set after the rendering only if that changed the panel's
file or a marker stood already (`MarkedFirst`); for a change of the node's file alone
it is set when the upload has answered.  An upload that replaces the file and then
fails leaves what no later run will see, and `drift` holds `unmarked` until a run or a
restart loads the file.  The book takes the file and the offset of the read, wherever
the log has been rotated to since (`Booked`); the end of a child that nobody waits for
any more leaves a request that is about to launch its own alone (`Answered`).  Faults:
an application, a save or a store that fails, a manager or the panel that dies, a
launcher that times out (on a node the manager goes on), a mode or a probe that cannot
be read, a classifier that does not answer.  `DayHits` is the count of a day in
`xray_ops/ai_domains.py`, from the reports and from the tables.

### LogCollector, DailyReports, DailyEvidence

`LogCollector` counts bytes in half lines, so that a read may end inside a line.
A stream's open log is renamed, or copied and truncated; a run reads all cursors,
then each stream from where its cursor allows (`ResumeAt`: the same inode and an
offset inside the file, else the rotated file, else a reported gap), and commits
events, roll-ups and cursors in one transaction.  A manual run (`once`) and the
backfill, which reads rotated files and places the cursor at its end, interleave
with the looping process; any of them may be killed.  A rename may cut a line in
half: the cursor then stays before it for good (`Stops`), until the file is gone
and a gap is reported.  `moved` marks the reads that no
reader could tell from good ones: a truncated log that has grown past the offset.
`beyond` marks a backfill that stored what the retention deletes: nothing compares
`--hours` with the retention, so `BackfillSpans` has a span within it and one beyond.
A rotation and the opening of the new file are one step, as they are for the
writer (Docker's `max-size`); a copy is made and the log truncated at the end of a
line.

`DailyReports` has the scheduler and an operator's command as processes: taking
the lock, marking dead runs, the attempts at an analysis, the generation's
directory and files, the pointer's switch, the roll back if a later step fails,
the row's result, the retention, and outside the lock the copy into the archive,
commit and push, while another clone may push.  A report is a serial number.

`AtomicReport` is what a reader of the two files may rely on: both change at once, to
a newer report; from then on until the run has settled it the report is on trial and
may be withdrawn, whereupon the one before is back; only what the readers have is
ever recorded as successful; nothing but the retention takes a report away.
`PublishesAtomically` is the mapping.  A page is what the two links lead to (`Page`), the
trial lasts from the switch of the pointer to the clean-up (`Trial`), what is recorded
is the generations of the rows that succeeded, and `lost` the dates whose roll back
failed (`undone`).  So the directory and its files, the links, the clean-up, the lock
and a death before the switch are stutters.

`DailyEvidence` is what the report says: `Downtime`, `Classify` and `Overall`
are `rules.py` on a window of scrapes, some of them missed.  What a node is (`down`)
and what the panel was told of it are two things: a question may fail over SSH,
and the metric is 0 then as well (`Stopped`), and an answer may be the one of the
scrape before, from the cache (`AskedAt`); the rules see the metric (`Low`) and not
the node.  `Attributed` is the
traffic of a window from the samples of Xray's counters, which Xray's restarts
reset and which two processes may store out of order.

### Backup

`cycles` are the scheduled cycle and one by hand: the snapshot, the nodes' files over
ssh (staged file by file), the sources added one at a time while they are rewritten
(`Rewrite`, `Lose`), pruning, verification, the status file, the upload and its
record.  The status file is written through a temporary file (`draft`) whose name the
cycles share: `DraftStatus` writes it (truncation and content in one step),
`PublishStatus` renames whichever was written last and fails if the other cycle has
renamed or removed it, `ClearDraft` removes what is left.  `NodeReady` and `Manifest`
are the readiness that a bundle states of itself, `Valid` is its validation.
`preparing` and `output` are `node_recovery.py prepare`, from any bundle, file by
file; `torn` has what forced preparations that stopped would have put there.  A file's
content is its version.

### TrafficLog

`syncing` is the transaction that reads the access log: the stat, the read from
the cursor, and the commit of counts with the cursor, which may fail and roll
back; the log is rotated or truncated in between.  `round` is a probing round,
which reads the ports, lets go of the database while it probes, and stores.  A
port's `life` tells a number from the port that had it before.

### Commerce

`orders` are the rows with their submissions, `services` and `ports` the rows of
those tables, `usage` the bytes in `traffic_totals` by listening port, `counters`
and `loaded` the node's side, `uploads` and `files` the proofs between the file
write and the transaction, and on disk.  Each action is a handler with its whole
transaction: the expiry of overdue orders that it begins with, and for those that
apply, the reading of the counters before it and the disabling of due and spent
ports at its end (`AutoStop`).  A transaction that raises rolls back its own
expiries too and is a stutter; if it applied, the traffic read before it stays, as
`SyncTraffic` leaves it.  Time is two flags, an order's deadline and a port's
expiry, that turn at any moment.  A renewal is due or out of quota only by the
same two tests as in `status_payload`.  Traffic saturates at the quota, the only
value it is compared with.  `edited` and `stray` are history variables.

New purchases have no route any more (`docs/project-overview.md`), but the
operation and the orders it made are still served; the model keeps it.  Customers
and plans are left out because they only refuse operations, and an order carries a
snapshot of its plan.  Tokens and credentials, and the counts of connections, are
left out.

## 3. Runs

| Run | Result | Shows |
|---|---|---|
| `dns_views` | passes | panel and record differ only for one of six named causes (`ViewAgrees`, `StoresTruth`), with one worker and one admin, every fault and every initial record |
| `dns_live` | passes | `FailsOver`, `Recovers`, `AutoSwitchesSpaced` for the worker with two faults of any kind: refused and lost calls, failing transactions and resolvers, crashes.  A lost switch that is no longer called for when it would be tried again is the one exception (`Unseen`, section 6) |
| `dns_peak` | violated: `NeverToDeadPrimary` | finding 1 |
| `dns_overlap` | violated: `FailsOver` | finding 2 |
| `apply_faults` | passes | `ServesDatabase`, `LoadedOrMarked`, `CommitsWhatRuns` with two faults of any kind at any step, remote and Docker node; and the refinement `AppliesAtomically`.  All four are proved for any number of faults.  `ServesDatabase` has two halves: config.json is right whenever the panel is up and idle, unless a rollback could not write it back, and the node runs the right one if only steps have failed |
| `apply_heals` | passes | after a crash or failed step a remote node ends up serving the database and the wanted route (`Heals`), and serves the database already when the panel is up and idle again (`BootRepairs`) |
| `apply_boot` | violated: `DueIsCutOff` | finding 3 |
| `commerce_books` | passes | services survive, reviews match, at most one open renewal, proofs are kept, traffic has an owner, renewals run, closed orders stay closed |
| `commerce_purchase` | violated: `PurchaseRuns` | finding 4 |
| `commerce_resubmit` | violated: `RejectedMayResubmit` | finding 5 |
| `ops_evidence` | passes | logs are collected once or a gap is reported (`NoSilentLoss`, `CountedOnce`); reports appear whole and at once, stay, and are archived (`PublishesAtomically`, `ReadersSeePairs`, `SuccessOnDisk`, `LiveRunStands`, `DueReportAppears`, `DueArchiveSettles`); their verdicts rest on what was observed: every sample of an outage is a scrape in it that no answer of the node's being up was shown for (`DowntimeIsMeasured`), no long outage is called normal (`NormalMeansWatched`), and traffic was carried in its window (`AttributionSound`) |
| `panel_jobs` | passes | the node's route is the stored mode's but for a named cause, and becomes it unless an upload stopped before the marker (`RouteFollowsMode`, `ModeReachesNode`); hourly reports and the day's count lose no visit (`ReportsComplete`); what says it is ready can be restored (`BackupsRestore`), and each file of a prepared node is of the bundle its record says, or of a later forced preparation that has not ended (`RestoreIsWhole`); a line of the access log is counted once (`LinesCountedOnce`) |

Each property of a passing run has a mutant of the modelled code in `PROJECT.json`
that breaks it: a dropped guard, a comparison off by one, a reset that is missing,
a step too early, columns swapped.  The mutants are definitions of the modules
that nothing uses.

Some properties state what they except, as a history variable that guards nothing:
`drift` in `DnsFailover` and `AiRouting`, `met` in `XrayApply`, `moved`, `beyond`,
`rotated`, `undone`, `crossed`, `torn`, `excused`.  Each exception is an action of the model
that a reader can weigh: a log rotated twice between two reads, a launcher that
gave up waiting, a roll back that failed.

`ops_evidence` and `panel_jobs` run several modules side by side.  These share no
variable that a property reads, so a state of one beside every state of another
would only be the same state again; a variable `part` names the one that moves,
and the others rest.

### Bounds

* `DnsFailover`: a worker and an admin are two threads in the same window, which is
  all that overlapping needs; thresholds of 1 to 3 with counters that saturate at
  or just above them; one fault, so that each property is tried against every
  single cause (two faults of one kind are two causes of the same drift).
  Liveness is checked with the worker alone, for a manual switch defeats it
  (finding 2), and with two faults of any kinds, so that a lost call may be followed
  by a refused retry, a resolver that fails or a crash.
* `XrayApply`: one port that was sold and one that was not, since due ports are
  disabled or deleted accordingly; one AI route besides the direct one; two faults,
  so that a rollback, a boot or a manager cycle meets a second one; one or two
  requests, one or two environment changes.  One job at a time is no bound: the
  lock sees to it.
* `Commerce`: `Budgets` is a set of bounds, one chosen at the start: three orders
  and two proofs (a purchase, a renewal and a second one), two orders with an
  admin's edit and two ports, three uploads to one order, and two ports with two
  edits and a boot.  A quota is one unit, two listening ports, one of them for
  sale: enough for a port to move away and another to come.

* `AiRouting`, `LogCollector`, `DailyReports`, `DailyEvidence`, `Backup`,
  `TrafficLog`: as in `Commerce`, a set of budgets, one of which is chosen at the
  start and names how often each thing of the environment, and each fault, may
  happen.  Each record is a scenario, named in the `MC_*` module: all pairs of
  faults at once would be too many states and mostly unrelated, so those are put
  together that meet in one place of the code (a store that fails and the undo's
  application that fails; a rotation and a crash beside a manual run; two failing
  writes, one of them in the roll back).  Two hours are enough for windows that
  overlap, for a report's window is one interval longer than the cycle; two
  builtin or classified domains for a route that lacks one; three half lines a
  read for lines that are cut; backfills of the retention's two lines and of one
  more; ten scrapes for a window that may miss one, and shorter windows with an
  answer that fails and two that are shown again; two days for the retention of
  one; two scheduled cycles (`cron`) with a file rewritten between them for two
  preparations, the second forced over a stopped one, and one cycle by hand
  (`manual`) for the overlaps; a death before the marker and then an upload that
  fails for what stays unmarked.  The resident manager's cycles and the collector's
  runs are not counted.

Deadlock checking is off for `Commerce`, whose bounds run out and which has no loop
of its own, and for the two runs side by side: backups, evidence and the traffic
log end when their budget is spent.

### Fairness

* `DnsFailover`: the worker's loop never ends while the process lives
  (`DNSFailoverWorker.run`), a request that has begun is carried on, and the
  container is restarted (`docker-compose.yml`, `restart: unless-stopped`).  Weak
  fairness for these; none for admins, faults or the environment.
* `XrayApply`: weak fairness for the running job and the boot; strong fairness for
  the beginning of maintenance and of the manager's cycle, which try again each
  minute and each hour and are refused only while another job, seconds long, holds
  the lock.
* `DailyReports`: the scheduler's loop goes on unless another holds the lock for
  ever, and an operator's command ends, by success, failure or death.
* `AiRouting`: the clock's hours pass, the resident manager's loop goes on unless a
  manual run or a request holds a lock for ever, and requests and their children
  come to an end (the launcher has a time-out).
* `Commerce`, `Backup`, `TrafficLog` and `DailyEvidence` state safety only, and so
  does `LogCollector`, for nothing starts or restarts the retired collector.

Where a process always has a step, its weak fairness is written `[]<><<Step>>_vars`:
the same behaviours, cheaper to check than `WF_vars(Step)`.

## 4. Findings

1. **The peak window turns failover round** (`dns_peak`).  With the window
   preferring the backup, failing probes count against the preferred target, but
   they are probes of the primary: the record moves from the backup to the primary
   that does not answer.
2. **Overlapping switches** (`dns_overlap`).  A manual and an automatic switch may
   store their targets in the other order than the record took them; the row is
   then wrong for good, and a dead primary is not left.
3. **A due port that outlives the boot** (`apply_boot`).  The boot disables with
   `reload_xray=False`, which uploads; the sync that follows sees nothing changed
   and does not restart the node, which goes on serving the port.
4. **A purchase that inherits traffic** (`commerce_purchase`).  Traffic is kept by
   listening port.  The row stays when a port is moved to another listening port,
   and returns when the boot deletes a due port before it reads the counters; a
   purchase there is charged with it and may be disabled as it is fulfilled.
5. **A rejected order that cannot be submitted again** (`commerce_resubmit`).  The
   deadline runs during the review and a rejection does not renew it, though the
   API answers that the customer may submit again.

## 5. Proofs

All proofs are complete and checked to the last leaf.  They assume only what the
modules state of their constants, which TLC evaluates in every run of them:
`DnsAssumption`, `ApplyAssumption`, `CommerceAssumption`, `AiAssumption` (builtin
domains are domains), `ReportAssumption` (numbers are numbers, and the holder
`"nobody"` of a free lock is no process), `CollectAssumption` (a line fits in one
read, events are kept for a day at least, and a backfill goes back some hours, however
many), `BackupAssumption` (bundles are kept for a day at least, the scenarios have
their fields), `TrafficAssumption` (0, the cursor's "no file", is no port) and
`EvidenceAssumption` (the window and the padding are numbers).  `AtomicApply` assumes
nothing.  Bounds are constants or initial values that no proof looks at: a theorem
holds for every bound, where a run has one.

**DNS failover** (`DnsFailover_proofs`).

* `TypeCorrect`: `Spec => []TypeOK`, also that no request outlives its process.
* `DriftExplainsDisagreement`: `Spec => [](ViewAgrees /\ StoresTruth)` for any set
  of callers.  `ViewAgrees` alone is not inductive: it says nothing of a call that
  has seen the record and not stored it.  `StoresTruth` is what such a call is bound
  to store, as long as `drift` is empty, and the two together are inductive.
  `StoresAreTrue` is the second half by itself.
* `AutoSwitchesAreSpaced`: for one caller and no peak window, from `Streaks`: a
  streak is no longer than the checks since the record last moved the other way,
  and a call that is to switch carries a streak that is long enough.  Both
  hypotheses are needed: a second caller counts a check twice in the same time, and
  the peak window turns the streaks round (finding 1).
* `PrimaryOnlyWhenProbed`: without the peak window, and for any number of callers
  and faults, no automatic switch goes to a primary whose probe failed
  (`AimsByProbe`).  It is the property that `dns_peak` finds violated; together they
  say that the window is the only cause.

**Apply** (`XrayApply_proofs`).

* `TypeCorrect` and `CommitsLoaded` (`Spec => CommitsWhatRuns`).  The latter follows
  from `LoadOrder` (`LoadOrderHolds`): how far the new ports have come in the ports
  file, the configuration, the node's copy and what it runs, at each value of the
  program counter.
* `FailuresCompensated`: `Spec => []ServesDatabase`, from two invariants.  The half
  about the disk holds under any faults but a rollback whose own writes to it fail
  (`restore`), and `OnDisk` (`DiskHolds`) is what it rests on: a mutation can go back
  to files that serve the database, has written the new ports, or in a rollback the
  old ones, as far as its program counter says; the boot's own write puts the disk in
  order whatever it found, before the panel is up; and all other jobs only render what
  the ports file says.  A crash leaves the disk wrong until the boot, and the
  invariant says so: it speaks of a panel that is up.  `PlaceHolds` says which step of
  which job goes with which stage of the boot.  The half about the node is for any
  number of failing steps.  Its invariant `Serving` (`ServingHolds`) adds the other
  half to `LoadOrder`: which ports a transaction must already have written, what each
  step of its rollback has put back, and that outside of a transaction files, node and
  what runs have the same ports.  It is only claimed while `Kept` holds; `MetGrows`
  lets the proof of a step assume it before the step as well.
* `ApplyIsAtomic`: `Spec => AppliesAtomically`.  Each step of a transaction, of its
  rollback, of the boot and the manager is shown to be a step of `Atomic` or a
  stutter, under `Serving`, which says what the node serves wherever a step alters
  it.
* `SoldServed`: `Spec => []Atomic!SoldIsServed`: between changes every port that is
  owed is served and none that is not sold.  `PromiseStep` proves it of the abstract
  apply alone, and the refinement carries it over: it is what a reader may conclude
  without knowing a step of `XrayApply`.
* `BootMends`: `Spec => BootRepairs`: while no port falls due, one crash of the panel or
  of the manager, or one restart of the node by others, at any step of any job, is
  mended for a remote node by the time the panel is up and idle.  The boot restarts
  the node only when its upload changed `config.json`, so the proof has to show that a
  node that runs the wrong ports never holds the right file: `Mending` follows that
  through the manager's cycles that come in between (`WillNoticeYet`), the boot's
  write (`WillNotice`), and the mutations afterwards; `Early` says how far a job can be
  when it is the first fault that ends it, and `Serving` and `LoadOrder` what it has
  then done.  The premise is needed: without it TLC finds a crash between the
  restart and the commit, and a port that falls due meanwhile; the boot's first
  transaction then uploads the right file without a restart, the boot's write sees no
  change (finding 3), and the node goes on as the lost change left it, without a port
  that is owed.
* `UnloadedIsMarked`: `Spec => []LoadedOrMarked`, from `Noting`: at each step of a job,
  what it has uploaded and not loaded is marked, or the job remembers it and will
  put it back.  The proof attempt changed the property.  It used to except all faults
  but failing steps only; with three or more of those it is false: once they have
  left the panel's files and the node's out of step without a marker (or a failed
  pull has made the panel render a route of its own), the next job may render what
  the panel has already, so that nothing is marked before the upload
  (`manager.py:239`), and an upload that then fails after `config.json` was replaced
  leaves a configuration that is neither loaded nor marked, for the marker of a
  change on the node is only touched once the upload has returned (`manager.py:258`).
  `docs/ai-routing.md:29` promises it from the rendering on.  `apply_faults` has two
  faults and could not show this.  The property now names the two causes (`pull`,
  `apart`), and is proved.

**Commerce** (`Commerce_proofs`), for any ports, range, quota, customers and orders.
`OrderMoves` lists what can happen to an order's row and `PortsMoved` what an apply
does to the ports; that every handler stays within them is shown once, and the
invariants are then kept row by row.

* `PaidServicesAreKept`: `Spec => [](TypeOK /\ PaidServiceKept)`.  Neither is inductive
  alone: the type of a renewal's order needs its service to exist, and the
  uniqueness of listening ports needs the types.  `CommerceTyped` is the first half.
* `ReviewsAgree`, `OneRenewalAtATime`, and the action properties `FinalOrdersStay`,
  `RenewalsRun`: inductive with these.
* `ProofsAreKept`: from `ProofNames`, that no two submissions or uploads in flight name
  the same file, and that one which is stored still has it.
* `StrayTraffic`: from `TrafficKnown`, which says of each listening port with traffic,
  or with counters on the node, whose it is.
* `RenewedWhenRunOut`: from `RenewalsRanOut`: an open renewal's service is expired or
  out of quota ever since it was ordered, but for an admin's edit.

**AI routing** (`AiRouting_proofs`), for any domains and bounds.  One invariant,
`Routing` (`RoutingHolds`), with four parts, each of which uses the one before.

* `RunsTyped`: `AiSpec => []AiTypeOK`.  `Locked` adds that a child is over once its panel
  is to store or to undo.
* `ModeIsFollowed`: `AiSpec => []RouteFollowsMode`.  `Steered` is what the route owes
  while a request is under way: until the manager it launched has applied, to the
  stored mode, afterwards to the requested one, after an undo to the old one again;
  a manager that is left over, or a cycle with another mode than the stored one, is
  always explained by `drift`; and a node without a marker has loaded what is on its
  disk, unless an upload stopped before the marker, which is what makes an
  application that is not needed right.  `Forced` is the
  half about builtin domains: whatever is on file, a run that has gathered knows
  them.
* `NoVisitIsLost`: `AiSpec => []ReportsComplete`.  `Logged` says of the book, and of a run
  that has gathered, that each visit up to their offset that is young enough is
  kept or was rotated away unread, and (`Passed`) that a file which is no longer the
  open one was rotated beyond the offset.  Without `Passed` a reader that starts the
  new file at zero could not be told from one that skips the rest of the old.

**Background jobs** (`PanelJobs_proofs`): the backups and the traffic log.

* `LinesAreCountedOnce`: `TrafficSpec => []LinesCountedOnce`, for any ports and any
  rotations, truncations, roll backs and deletions.  A synchronization that has read
  and not yet stored is what makes it hard; the invariant `Measuring`
  (`MeasuringHolds`) says that a file's content is a stretch of the log (`Contents`),
  that what is counted, or will be once the synchronization stores, is each line
  before its cursor (`Counted`), that the cursor leads to where the counting stopped
  unless a rotation explains otherwise (`Sound`), and that a probe belongs to the port
  it was made of (`RoundSound`).  The counts are bags, so that a line that is counted
  twice is seen.
* `BundlesRestore`: `BackupSpec => []BackupsRestore`, with two cycles that overlap and
  sources that are rewritten, lost or unreadable under them.  `Backing`
  (`BackingHolds`) follows one cycle: what it has read is no older than its start
  (`Reading`), its snapshot is still there when it needs it, although the other cycle
  prunes (`Snapped`: no cycle runs over midnight and the retention is a day at
  least), and its bundle is there from the placing on (`Bundled`).
* `RestoreHolds`: `BackupSpec => []RestoreIsWhole`.  `Restoring` says of a preparation
  what it has written of its bundle (`InPlace`), of a directory it was not forced into that
  it has no record until it is whole, and of one it was forced into that each file of
  the record is still the record's, or of that preparation, or of an earlier one
  that was forced and stopped (`torn`).
* `TrafficTyped`, `BackupTyped`.
* `PanelIsItsJobs`: `Spec => AiSpec /\ BackupSpec /\ TrafficSpec`, for the specification
  that the run `panel_jobs` checks: a step of it is a step of one job, and the others
  rest.  So whatever is proved of a job holds in the run; `PanelTyped`
  (`Spec => []PanelTypeOK`), which no run needs to check any more, is an example.

**Daily reports** (`DailyReports_proofs`), for any processes, dates, retention,
attempts and faults.  One invariant, `Replacing` (`ReplacingHolds`): `Live` ties the lock
to the running row, `Writing` says what the one writer has done of its replacement
at each step, and `Stored` what a date's files are otherwise: the pointer leads to a
whole generation through both links, or to nothing, and while a success is owed, to
a generation that stands for all successes of the date.

* `ReportsTyped`, `LiveRunsStand`, `PairsAreRead` (`ReadersSeePairs`), `SuccessesAreOnDisk`
  (`SuccessOnDisk`).  The roll back is what makes the last two hard: at `settle` the
  previous generation must still be whole and stand for the earlier successes,
  while the retention and a take-over after a crash may come at any time.
* `ReportsAreAtomic`: `ReportsSpec => PublishesAtomically`, each action of the reporter a
  step or a stutter of `AtomicReport`.  A publication goes forward there, and nothing
  in `Replacing` says that a new generation is newer than what is on disk and
  recorded; `Newer` (`ReplacementsAreNewer`) does, by the serial number that only
  grows.  A run that dies between the pointer's switch and the clean-up leaves its
  report in place (`Keep`), unrecorded.
* `RecordedStand`: `PublishesAtomically => []Published!Standing`, from the abstract report
  alone: a report that was recorded as successful is what readers of its date get, or
  a later one is, until the retention takes it or a roll back itself fails; what the
  report on trial would give way to must stand for it too (`Backed`).  `ReportsStand`
  carries it over to the reporter by the refinement.

**Evidence collector** (`LogCollector_proofs`), for any streams, collectors, limits and
bounds.  The first half of the module is about values: what a rotation and a write
make of a stream's files (`Later`), and what a read finds in them.  The second is
the invariant `Collecting` (`CollectingHolds`), action by action.

* `EventsCountedOnce`: `CollectSpec => []CountedOnce`.  The hard part is the retention:
  an event that it took must not come back.  So no line that a cursor, a batch in
  flight or the backfill has still ahead of it may be one that was taken (`Ahead`),
  which is `Settled` for the batches; a backfill that goes back further than the
  retention does not keep it, and the count is then at least what it should be
  (`beyond`).
* `NothingLost`: `CollectSpec => []NoSilentLoss`.  It needs to know what a cursor means
  while the log is rotated under it: `Points` says that wherever the file of the
  cursor's identity, or a file long enough to be taken for it, is now, the offset
  leads to the cursor's line or beyond; beyond is what `moved` marks.  `Points` is kept
  by every rotation and write (`LaterWrite`, `LaterRotate`), from which it follows that
  a read starts no earlier than its cursor (`ResumeGood`) and ends at such a place
  (`DeltaGood`).  `ReadWhole` says the same of a batch that is not committed, whatever
  was committed since, and `Filled` of the backfill's list.
* `CollectTyped`: `CollectSpec => []CollectTypeOK`.

**Daily evidence** (`DailyEvidence_proofs`), for any history of ticks, missed scrapes,
restarts and samplers.  What the report says is computed by walks over a window
(`Walk`, the sum of `CounterIncrease`), which are recursive functions.  The library's
induction theorems cannot be used (they take an operator), but sets of numbers can:
`SetInduction` says that a set which has the first number of a stretch, and with each
number the next, has the stretch, from the rule that a set of numbers that is not
empty has a least one (`LeastNumber`).

* `DowntimesMeasured`: `EvidenceSpec => []DowntimeIsMeasured`.  `WalkHolds`: at each point
  the open interval and the done ones are runs of consecutive ticks whose metric was
  0, whatever scrapes were missed between them; such a metric is an answer of
  the tick or of the one before, that the node was down, or a question that failed.
* `NormalsWatched`: `EvidenceSpec => []NormalMeansWatched`.  If the node is down for
  2m + 3 ticks, of which the first may show an answer from before, and the walk finds
  no two neighbours among them, one scrape of each of m + 1 pairs was missed
  (`PairsMissing`), more than the coverage lets a window miss.
* `AttributionsSound`: `EvidenceSpec => []AttributionSound`, from the invariant
  `Sampling` (`SamplingHolds`): stored readings have different numbers (`Numbered`),
  each is what the counter showed (`Drawn`), and from one to the next asked for the
  counter shows no more growth than was carried, unless the samplers crossed
  (`InOrder`).  The query sorts by time (`QueriedInOrder`), and the growth summed over
  the selected samples telescopes to the bytes between the first and the last
  (`Telescopes`).
* `EvidenceTyped`: `EvidenceSpec => []EvidenceTypeOK`.
* `OpsAreTheirParts`: `Spec => CollectSpec /\ ReportsSpec /\ EvidenceSpec`, for the
  specification that `ops_evidence` checks, so that all that is proved of a part holds
  in the run; `OpsTyped` (`Spec => []OpsTypeOK`) is an example.

Model-checked only:

* The liveness properties (`FailsOver`, `Recovers`, `Heals`, `DueReportAppears`,
  `DueArchiveSettles`, `ModeReachesNode`): fairness is beyond the prover.
* The findings are counterexamples of TLC, of which there is nothing to prove.

## 6. What is not modelled

* Web layer, authentication and sessions, subscriptions: request-local checks over
  signed cookies and formatting.  Metrics other than a node's state, with a cache of the
  log's tail that holds nothing else.  Front end, dashboards, generated reports.
* The renderer's JSON (`render_config.py`, share and client files) beyond which
  ports and which route a configuration has; the external reloader, which the panel
  only asks through a marker of its own; what the backup node's configuration holds.
* `sync_data_plane_ai_state` copies the node's reports and domains into a panel that
  runs no manager itself, row by row by key; the panel's tables are then read
  only.
* Node status summaries, disk and container snapshots: measurements without state.
* Deployment: shell for units, firewall and containers.
* In the components that are modelled: accounts, plans and settings of Commerce;
  tokens and credentials; daily traffic rows; the texts of reports and prompts; the
  parsing of pages, answers and templates; which of several classifiers answered.

What a reader of the models should know of the code beside them:

* The boot restarts a remote node when its upload changed `config.json`, and a local
  one never (`apply.py:313`).  A panel that dies between the restart and the commit
  leaves a local node with the change that was lost until its next restart, which
  loads the right file (`ServesDatabase`); `Heals` and `BootRepairs` are about remote
  nodes.
* A marker can be missing after three failing steps (section 5, `UnloadedIsMarked`).
* A visit in the overlap of two hourly windows is in both reports, and a day's hits
  count it twice; `ReportsComplete` promises that none is missed, not that each is
  counted once.  A sampling interval that lies across midnight is attributed to
  both days within the padding (900 seconds).
* When the launcher's wait ends, the panel answers that the route was kept
  (`launcher.py:71`), while a manager inside a container goes on and applies; the
  next cycle brings the stored mode back (`ModeReachesNode`), and until then the
  cause is `drift`.
* A mode that cannot be read is taken for `auto` (`repository.py:258`), also by a run
  that should have been a forced fallback.
* A report whose every run failed on the day it was due is not made later by the
  scheduler (`reporter.py:551` asks for the due date only).
* Bundles are pruned by age before the new one is verified, while
  `docs/node-recovery.md:50` asks the operator to keep earlier complete ones while a
  node cannot be reached.
* The deletion of old probe rows (`probes.py:113`) compares `strftime('%s', ...)`, a
  text, with an integer: SQLite sorts every integer before every text, so the
  deletion removes nothing.  A rule of SQL's types, of which a model would say
  nothing.
* `backfill --hours` is not compared with the retention (`collector.py:631`; 48 hours
  and 7 days are the defaults).  One that goes back further stores events again
  that the retention has taken, and the roll-ups, which are kept longer, count them
  twice (`beyond`).
* A PUT of the DNS record that takes effect and loses its answer, or whose store
  fails, leaves the row at the old target.  If the probe turns before the next
  check, the row has the target that is called for, no transition is due, and the
  record stays on the other one until a switch by hand or a restart, though
  `docs/fault-tolerance.md:78-79` promises the return.  `FailsOver` and `Recovers` except
  it (`Unseen`); without the exception `dns_live` is violated.
* In the rollback of an apply the panel's files are restored outside any try
  (`apply.py:206-222`).  A write that fails there skips the remaining files and the
  whole of the node; `config.json` may then be ahead of the database until the next
  apply or boot (`restore`).
* The AI manager marks a change of the node's file only when the upload has
  returned (`manager.py:253-260`).  After a death before the marker, an upload that
  replaces the file and then fails leaves it unloaded for good, if neither the route
  changes nor somebody restarts the node; a manual mode may then even be stored as
  applied by a later request that finds nothing to do (`unmarked`).
* An outage in the report (OPS-F001) is two scrapes in a row whose metric was 0.  The
  metric is 0 on any failure of SSH too (`node/probes.py:337`, `web/metrics.py:128`), the
  ordinary node's is kept for 30 seconds (`METRICS_DP_TTL`), which is the interval of the
  scrapes, so that one failed question may be shown by both, and the rule
  (`rules.py:335-361`) asks for nothing else, while
  `docs/ops-reporting/fault-classification.md:36` asks for the service's state and an
  independent probe.  `DowntimeIsMeasured` says what can be relied on.  The AI nodes'
  metric is asked anew by each scrape (`metrics.py:578`), which the model's `fresh` is.
* A forced preparation of a node that stops leaves the record of the one before
  over a mix of two bundles' files; one that ends leaves optional files of the one
  before that its own bundle does not have.
* An answer of the search tool may be overwritten by a run that loaded the
  decisions before, and the other way round; the domain is then classified again.
* `Backup` takes two cycles not to start in one second, and a cycle to end within the
  day; the snapshot of the operations database is left out: a missing one is passed
  over, and one that cannot be read stops the cycle (`CycleStops`).  `TrafficLog` takes
  a line to be written in one piece.

## 7. Plan

Every safety invariant, action property and refinement that a passing run checks is
proved.  What would say more about the system, in this order:

1. `XrayApply`: the route after a crash, for which a later cycle of the manager is
   needed (`Heals`, by TLC alone), and what more than one crash may leave.
2. An abstract specification of the collector (each line once, or a reported gap), and
   its refinement proof from `Collecting`.
3. `Commerce` over `AtomicApply` instead of a step that happens or does not.
