--------------------------- MODULE MC_OpsEvidence ---------------------------
(***************************************************************************)
(* The ops components side by side: the collector on its database, the     *)
(* reporter on its files, the evidence of a day.  They share the database  *)
(* but no row of it, so each scenario runs one part, named by part, and    *)
(* the other parts rest.                                                   *)
(***************************************************************************)
EXTENDS LogCollector, DailyReports, DailyEvidence

VARIABLE part

vars == <<part, collectVars, reportVars, evidenceVars>>

NoLog == [streams |-> {}, write |-> 0, repeat |-> 0, rename |-> 0, truncate |-> 0,
          fail |-> 0, crash |-> 0, once |-> 0, backfill |-> 0]
Log == [NoLog EXCEPT !.streams = {"access"}]

\* Rotations and a crash beside a manual run; a file that is rotated away; copy
\* rotation and equal lines; two backfills; a backfill after the retention; a
\* crash beside a backfill; two streams of which one fails.
MCLogs ==
    {NoLog,
     [Log EXCEPT !.write = 5, !.rename = 2, !.crash = 1, !.once = 1],
     [Log EXCEPT !.write = 7, !.rename = 3],
     [Log EXCEPT !.write = 6, !.truncate = 2, !.repeat = 1],
     [Log EXCEPT !.write = 4, !.rename = 1, !.backfill = 2],
     [Log EXCEPT !.write = 6, !.backfill = 1],
     [Log EXCEPT !.write = 3, !.repeat = 1, !.backfill = 1, !.crash = 1],
     [NoLog EXCEPT !.streams = {"access", "container"}, !.write = 3, !.rename = 1,
                   !.fail = 1, !.crash = 1]}

NoReports == [day |-> 0, command |-> 0, codex |-> 0, disk |-> 0, store |-> 0,
              git |-> 0, remote |-> 0, crash |-> 0]

\* A command and a crash; failing attempts; failing writes and roll backs; a
\* failing transaction; the archive's faults; passing days and the retention.
MCReports ==
    {NoReports,
     [NoReports EXCEPT !.command = 1, !.crash = 1],
     [NoReports EXCEPT !.codex = 2, !.crash = 1],
     [NoReports EXCEPT !.command = 1, !.disk = 2],
     [NoReports EXCEPT !.command = 1, !.store = 1],
     [NoReports EXCEPT !.git = 2, !.remote = 1, !.crash = 1],
     [NoReports EXCEPT !.command = 1, !.git = 1, !.remote = 1],
     [NoReports EXCEPT !.day = 1, !.command = 1],
     [NoReports EXCEPT !.day = 2, !.crash = 1]}

NoTicks == [tick |-> 0, down |-> 0, blind |-> 0, cut |-> 0, stale |-> 0, lost |-> 0,
            sick |-> 0, fallback |-> 0, load |-> 0, restart |-> 0, sample |-> 0, fail |-> 0]

\* A window long enough to miss a scrape; answers
\* that fail or are shown again; lost targets; DNS and route faults;
\* two samplers, a restart of Xray and a failing reading.
MCEvidence ==
    {NoTicks,
     [NoTicks EXCEPT !.tick = 10, !.down = 5, !.blind = 1],
     [NoTicks EXCEPT !.tick = 5, !.down = 3, !.blind = 1, !.cut = 1, !.stale = 2],
     [NoTicks EXCEPT !.tick = 5, !.down = 3, !.blind = 2, !.lost = 1],
     [NoTicks EXCEPT !.tick = 3, !.sick = 2, !.fallback = 1, !.blind = 1],
     [NoTicks EXCEPT !.tick = 2, !.load = 2, !.restart = 1, !.sample = 3, !.fail = 1]}

Init ==
    /\ part \in {"collect", "report", "evidence"}
    /\ CollectInit /\ ReportsInit /\ EvidenceInit
    /\ part # "collect" <=> left = NoLog
    /\ part # "report" => reportsLeft = NoReports
    /\ part = "report" => reportsLeft # NoReports
    /\ part # "evidence" <=> evidenceLeft = NoTicks

Next ==
    \/ part = "collect" /\ CollectNext /\ UNCHANGED <<part, reportVars, evidenceVars>>
    \/ part = "report" /\ ReportsNext /\ UNCHANGED <<part, collectVars, evidenceVars>>
    \/ part = "evidence" /\ EvidenceNext /\ UNCHANGED <<part, collectVars, reportVars>>

Spec ==
    /\ Init /\ [][Next]_vars
    /\ part = "report" => ReportsFairness

\* The state of each part is what its declarations say it is: no dangling row,
\* no generation listed twice, the lock held by exactly the run under way.
OpsTypeOK == CollectTypeOK /\ ReportsTypeOK /\ EvidenceTypeOK

\* The report of the due date appears, and its archive settles (DailyReports).
DueReportAppears == part = "report" => ReportAppears
DueArchiveSettles == part = "report" => ArchiveSettles
=============================================================================
