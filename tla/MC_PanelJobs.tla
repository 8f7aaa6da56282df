---------------------------- MODULE MC_PanelJobs ----------------------------
(***************************************************************************)
(* The panel's background work side by side: AI routing, the backups, the  *)
(* traffic log and the probes.  They share no state that their properties  *)
(* read, so each scenario runs one part, named by part, and the other      *)
(* parts rest.                                                             *)
(***************************************************************************)
EXTENDS AiRouting, Backup, TrafficLog

VARIABLE part

vars == <<part, aiVars, backupVars, trafficVars>>

NoAi == [hour |-> 0, visit |-> 0, rotate |-> 0, reach |-> 0, request |-> 0, probe |-> 0,
         unread |-> 0, silent |-> 0, apply |-> 0, save |-> 0, kill |-> 0, timeout |-> 0,
         store |-> 0, panel |-> 0, restart |-> 0, search |-> 0]
Ai == [NoAi EXCEPT !.hour = 1]

\* The log over three hours; reporting that fails; a manager killed; requests
\* whose store, application or undo fails; a launcher that times out; a panel
\* that dies; a mode or a probe that cannot be read; candidates that come and go;
\* an upload that stops after a death before the marker; a search by hand beside
\* runs of both kinds.
MCAi ==
    {NoAi,
     [Ai EXCEPT !.hour = 2, !.visit = 2, !.rotate = 1],
     [Ai EXCEPT !.visit = 1, !.rotate = 1, !.save = 1, !.silent = 1],
     [Ai EXCEPT !.visit = 1, !.request = 1, !.kill = 1],
     [Ai EXCEPT !.visit = 2, !.request = 1],
     [Ai EXCEPT !.request = 1, !.store = 1, !.apply = 1, !.restart = 1],
     [Ai EXCEPT !.request = 2, !.timeout = 1],
     [Ai EXCEPT !.request = 2, !.store = 1],
     [Ai EXCEPT !.request = 1, !.panel = 1, !.kill = 1],
     [Ai EXCEPT !.request = 1, !.kill = 1, !.apply = 1, !.restart = 1],
     [Ai EXCEPT !.request = 1, !.unread = 1, !.probe = 1],
     [Ai EXCEPT !.visit = 1, !.reach = 2, !.apply = 1],
     [Ai EXCEPT !.visit = 1, !.search = 1],
     [Ai EXCEPT !.request = 1, !.search = 1]}

NoBackups == [remote |-> {}, strict |-> FALSE, gated |-> FALSE, day |-> 0, cron |-> 0,
              manual |-> 0, rewrite |-> 0, lose |-> 0, unread |-> 0, down |-> 0, stop |-> 0,
              prepare |-> 0]
Backups == [NoBackups EXCEPT !.remote = {"normal", "ai"}, !.cron = 1]

\* Files rewritten and unreadable under a cycle, local, mixed and remote; a
\* strict collection; days and the retention; two cycles of which one stops;
\* preparations that stop or are forced, from whole and incomplete bundles, and
\* from two bundles of which the second has another version of a file.
MCBackups ==
    {NoBackups,
     [Backups EXCEPT !.remote = {}, !.rewrite = 1, !.unread = 1],
     [Backups EXCEPT !.remote = {"normal"}, !.manual = 1, !.rewrite = 1],
     [Backups EXCEPT !.rewrite = 1, !.gated = TRUE, !.unread = 1],
     [Backups EXCEPT !.manual = 1, !.strict = TRUE, !.down = 1],
     [Backups EXCEPT !.manual = 1, !.gated = TRUE, !.down = 1],
     [Backups EXCEPT !.cron = 2, !.day = 2, !.down = 1],
     [Backups EXCEPT !.manual = 1, !.stop = 1],
     [Backups EXCEPT !.prepare = 2, !.stop = 1, !.unread = 1],
     [Backups EXCEPT !.remote = {}, !.prepare = 2, !.stop = 1, !.lose = 1],
     [Backups EXCEPT !.remote = {}, !.cron = 2, !.rewrite = 1, !.prepare = 2, !.stop = 1]}

NoTraffic == [line |-> 0, rotate |-> 0, truncate |-> 0, sync |-> 0, fail |-> 0,
              delete |-> 0, round |-> 0]

\* Two rotations and a failure; a truncated log that grows again; both; a port
\* deleted and created again under the log, and under two probing rounds.
MCTraffic ==
    {NoTraffic,
     [NoTraffic EXCEPT !.line = 3, !.rotate = 2, !.sync = 3, !.fail = 1],
     [NoTraffic EXCEPT !.line = 4, !.truncate = 1, !.sync = 3],
     [NoTraffic EXCEPT !.line = 2, !.rotate = 1, !.truncate = 1, !.sync = 3],
     [NoTraffic EXCEPT !.line = 3, !.sync = 2, !.delete = 1],
     [NoTraffic EXCEPT !.round = 2, !.delete = 2]}

Init ==
    /\ part \in {"ai", "backup", "traffic"}
    /\ AiInit /\ BackupInit /\ TrafficInit
    /\ part # "ai" <=> aiLeft = NoAi
    /\ part # "backup" <=> backupLeft = NoBackups
    /\ part # "traffic" <=> trafficLeft = NoTraffic

Next ==
    \/ part = "ai" /\ AiNext /\ UNCHANGED <<part, backupVars, trafficVars>>
    \/ part = "backup" /\ BackupNext /\ UNCHANGED <<part, aiVars, trafficVars>>
    \/ part = "traffic" /\ TrafficNext /\ UNCHANGED <<part, aiVars, backupVars>>

Spec == Init /\ [][Next]_vars /\ (part = "ai" => AiFairness)

\* The state of each part is what its declarations say it is: the locks and the
\* requests agree on who runs, a cycle's bundle is there, a count's lines are
\* its port's.
PanelTypeOK == AiTypeOK /\ BackupTypeOK /\ TrafficTypeOK

\* The mode in the database is the one the node gets (AiRouting).
ModeReachesNode == part = "ai" => ModeApplied
=============================================================================
