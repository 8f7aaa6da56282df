---------------------------- MODULE DailyReports ----------------------------
(***************************************************************************)
(* The daily reporter (components/xray_ops/reporter.py): the scheduler     *)
(* ("serve") and an operator's command (reporter run) make the report of a *)
(* date under a file lock, ask Codex for the analysis (codex_runner.py),   *)
(* replace the report on disk (report_contract.py), keep the rows of       *)
(* report_runs (storage.py) and publish the report through a git work tree *)
(* (github_reports.py), which is done outside the lock.                    *)
(*                                                                         *)
(* A report is its generation, a serial number; made[g] is what is in it.  *)
(* What the sources of the evidence answer does not decide whether there   *)
(* is a report: a source that fails is a section that says so.             *)
(***************************************************************************)
EXTENDS Integers, Sequences, FiniteSets

CONSTANTS
    Reporters,       \* processes; "serve" is the scheduler
    LastDate,        \* dates are 1 .. LastDate; today's due date is a variable
    RetentionDays,   \* OPS_REPORT_RETENTION_DAYS
    MaxAttempts,     \* attempts of one Codex analysis
    ReportBudgets    \* bounds, one record per scenario: day, command, codex,
                     \* disk, store, git, remote, crash

ASSUME ReportAssumption ==
    /\ "serve" \in Reporters /\ "nobody" \notin Reporters
    /\ LastDate \in Nat \ {0} /\ RetentionDays \in Nat \ {0} /\ MaxAttempts \in Nat \ {0}

VARIABLES
    due,         \* due_report_date(now)
    rows,        \* report_runs, in the order they were begun
    disk,        \* per date: generation directories, pointer, stable links
    made,        \* history: the reports made, [date, mode, due]
    undone,      \* history: a roll back itself failed for this date
    holder,      \* who holds reporter.lock
    reporter,    \* what each process is doing
    archive,     \* the git work tree of the archive and its upstream
    reportsLeft  \* what is left of the bounds

reportVars == <<due, rows, disk, made, undone, holder, reporter, archive, reportsLeft>>

Dates == 1 .. LastDate
Nobody == "nobody"
NoReport == 0
Resting == [pc |-> "idle", date |-> 1, rules |-> FALSE, skip |-> FALSE, row |-> 0,
            gen |-> NoReport, prev |-> NoReport, attempt |-> 1]
NoPair == [json |-> NoReport, md |-> NoReport]

SpendReport(what) == /\ reportsLeft[what] > 0
                     /\ reportsLeft' = [reportsLeft EXCEPT ![what] = @ - 1]

ReportsInit ==
    /\ reportsLeft \in ReportBudgets
    /\ due = 1 /\ rows = <<>> /\ made = <<>>
    /\ disk = [d \in Dates |-> [gens |-> {}, current |-> NoReport, links |-> {}]]
    /\ undone = {}
    /\ holder = Nobody
    /\ reporter = [p \in Reporters |-> Resting]
    /\ archive = [work |-> [d \in Dates |-> NoPair], head |-> [d \in Dates |-> NoPair],
                  ahead |-> 0, landed |-> 0, behind |-> FALSE, moved |-> FALSE]

Goto(p, pc) == reporter' = [reporter EXCEPT ![p].pc = pc]

\* What <date>.json and <date>.md lead to, through the stable link and the pointer.
Reads(d, kind) ==
    IF kind \in disk[d].links
       /\ \E g \in disk[d].gens : g.n = disk[d].current /\ kind \in g.files
    THEN disk[d].current ELSE NoReport

\* latest_successful_report: the row, or 0.
LatestSuccess(d) ==
    LET ok == {i \in DOMAIN rows : rows[i].date = d /\ rows[i].status = "success"}
    IN IF ok = {} THEN 0 ELSE CHOOSE i \in ok : \A j \in ok : j <= i

\* ReporterService._is_complete
IsComplete(d, codex) ==
    /\ LatestSuccess(d) # 0
    /\ Reads(d, "json") # NoReport /\ Reads(d, "md") # NoReport
    /\ codex => made[Reads(d, "json")].mode = "codex"

-----------------------------------------------------------------------------
(* The scheduler's loop, the command, and the lock.                         *)

DayPasses ==
    /\ due < LastDate /\ SpendReport("day")
    /\ due' = due + 1
    /\ UNCHANGED <<rows, disk, made, undone, holder, reporter, archive>>

\* Mutants: a turn takes any successful report for complete; a turn publishes
\* only a report it has made.
ScheduleAnyMode(p) ==
    /\ p = "serve" /\ reporter[p].pc = "idle"
    /\ reporter' = [reporter EXCEPT ![p] =
           [Resting EXCEPT !.date = due, !.skip = TRUE,
                           !.pc = IF IsComplete(due, FALSE) THEN "sync" ELSE "wait"]]
    /\ UNCHANGED <<due, rows, disk, made, undone, holder, archive, reportsLeft>>
ScheduleNoSync(p) ==
    /\ p = "serve" /\ reporter[p].pc = "idle"
    /\ reporter' = [reporter EXCEPT ![p] =
           [Resting EXCEPT !.date = due, !.skip = TRUE, !.pc = "wait"]]
    /\ UNCHANGED <<due, rows, disk, made, undone, holder, archive, reportsLeft>>

\* One turn of run_forever: make the due report, or publish the one there is.
Schedule(p) ==
    /\ p = "serve" /\ reporter[p].pc = "idle"
    /\ reporter' = [reporter EXCEPT ![p] =
           [Resting EXCEPT !.date = due, !.skip = TRUE,
                           !.pc = IF IsComplete(due, TRUE) THEN "sync" ELSE "wait"]]
    /\ UNCHANGED <<due, rows, disk, made, undone, holder, archive, reportsLeft>>

\* reporter run --date d [--rules-only]
Command(p, d, rules) ==
    /\ p # "serve" /\ reporter[p].pc = "idle" /\ d <= due
    /\ SpendReport("command")
    /\ reporter' = [reporter EXCEPT ![p] =
           [Resting EXCEPT !.date = d, !.rules = rules, !.pc = "wait"]]
    /\ UNCHANGED <<due, rows, disk, made, undone, holder, archive>>

\* begin_report_run: the runs of the date still marked running are dead.
Begun(d) ==
    Append([i \in DOMAIN rows |->
              IF rows[i].date = d /\ rows[i].status = "running"
              THEN [rows[i] EXCEPT !.status = "interrupted"] ELSE rows[i]],
           [date |-> d, status |-> "running", gen |-> NoReport])

\* With the lock, the scheduler looks again before it starts a run.
Acquire(p) ==
    LET r == reporter[p] IN
    /\ r.pc = "wait" /\ holder = Nobody
    /\ \/ /\ r.skip /\ IsComplete(r.date, ~r.rules)
          /\ reporter' = [reporter EXCEPT ![p] = Resting]
          /\ UNCHANGED <<rows, holder>>
       \/ /\ ~(r.skip /\ IsComplete(r.date, ~r.rules))
          /\ holder' = p
          /\ rows' = Begun(r.date)
          /\ reporter' = [reporter EXCEPT ![p] =
                 [r EXCEPT !.row = Len(rows) + 1, !.pc = IF r.rules THEN "make" ELSE "codex"]]
    /\ UNCHANGED <<due, disk, made, undone, archive, reportsLeft>>

\* The run raises: its row is marked failed and the lock released.
Fail(p) ==
    /\ rows' = [rows EXCEPT ![reporter[p].row].status = "failed"]
    /\ holder' = Nobody
    /\ reporter' = [reporter EXCEPT ![p] = Resting]

-----------------------------------------------------------------------------
(* Codex: an attempt that timed out, was rate limited, died or gave output  *)
(* that the schema or the evidence refuses is tried again, others are not.  *)

\* Mutant: the lock is let go for the long call.
AnalyseUnlocked(p) ==
    /\ reporter[p].pc = "codex"
    /\ Goto(p, "make")
    /\ holder' = Nobody
    /\ UNCHANGED <<due, rows, disk, made, undone, archive, reportsLeft>>

Analyse(p) ==
    /\ reporter[p].pc = "codex"
    /\ Goto(p, "make")
    /\ UNCHANGED <<due, rows, disk, made, undone, holder, archive, reportsLeft>>

AttemptFails(p) ==
    /\ reporter[p].pc = "codex"
    /\ SpendReport("codex")
    /\ \/ /\ reporter[p].attempt < MaxAttempts
          /\ reporter' = [reporter EXCEPT ![p].attempt = @ + 1]
          /\ UNCHANGED <<rows, holder>>
       \/ Fail(p)                     \* the last attempt, or not a retryable error
    /\ UNCHANGED <<due, disk, made, undone, archive>>

-----------------------------------------------------------------------------
(* write_report_atomic: a generation is filled in a directory of its own,   *)
(* the stable links are there, and then one rename moves the pointer.       *)

MakeGeneration(p) ==
    LET r == reporter[p] IN
    /\ r.pc = "make"
    /\ made' = Append(made, [date |-> r.date, mode |-> IF r.rules THEN "rules_only" ELSE "codex",
                             due |-> due])
    /\ disk' = [disk EXCEPT ![r.date].gens = @ \cup {[n |-> Len(made) + 1, files |-> {}]}]
    /\ reporter' = [reporter EXCEPT ![p] =
           [r EXCEPT !.gen = Len(made) + 1, !.prev = disk[r.date].current, !.pc = "fill"]]
    /\ UNCHANGED <<due, rows, undone, holder, archive, reportsLeft>>

Without(gens, n) == {g \in gens : g.n # n}

Fill(p, kind) ==
    LET r == reporter[p]
        g == CHOOSE h \in disk[r.date].gens : h.n = r.gen IN
    /\ r.pc = "fill" /\ kind \notin g.files
    /\ kind = "md" => "json" \in g.files
    /\ disk' = [disk EXCEPT ![r.date].gens =
                  Without(@, r.gen) \cup {[g EXCEPT !.files = @ \cup {kind}]}]
    /\ Goto(p, IF kind = "md" THEN "link" ELSE "fill")
    /\ UNCHANGED <<due, rows, made, undone, holder, archive, reportsLeft>>

\* _ensure_stable_report_link, for the JSON and then for the Markdown.
LinkReport(p, kind) ==
    LET d == reporter[p].date IN
    /\ reporter[p].pc = "link"
    /\ kind = "md" => "json" \in disk[d].links
    /\ disk' = [disk EXCEPT ![d].links = @ \cup {kind}]
    /\ Goto(p, IF kind = "md" THEN "switch" ELSE "link")
    /\ UNCHANGED <<due, rows, made, undone, holder, archive, reportsLeft>>

\* Mutant: the pointer may move while the generation is being filled.
SwitchPointerEarly(p) ==
    /\ reporter[p].pc \in {"fill", "switch"}
    /\ disk' = [disk EXCEPT ![reporter[p].date].current = reporter[p].gen]
    /\ Goto(p, "settle")
    /\ UNCHANGED <<due, rows, made, undone, holder, archive, reportsLeft>>

\* Mutant: the older generations are removed with the move of the pointer.
SwitchPointerCleans(p) ==
    LET r == reporter[p] IN
    /\ r.pc = "switch"
    /\ disk' = [disk EXCEPT ![r.date].current = r.gen,
                            ![r.date].gens = {g \in @ : g.n = r.gen}]
    /\ Goto(p, "settle")
    /\ UNCHANGED <<due, rows, made, undone, holder, archive, reportsLeft>>

SwitchPointer(p) ==
    /\ reporter[p].pc = "switch"
    /\ disk' = [disk EXCEPT ![reporter[p].date].current = reporter[p].gen]
    /\ Goto(p, "settle")
    /\ UNCHANGED <<due, rows, made, undone, holder, archive, reportsLeft>>

\* The directory is synced and the older generations are removed.
Settle(p) ==
    LET r == reporter[p] IN
    /\ r.pc = "settle"
    /\ disk' = [disk EXCEPT ![r.date].gens = {g \in @ : g.n = r.gen}]
    /\ Goto(p, "finish")
    /\ UNCHANGED <<due, rows, made, undone, holder, archive, reportsLeft>>

\* Mutant: a failing write takes the pointer with it, whatever it named before.
RolledBackToNothing(on, r, restored) ==
    [gens |-> Without(on.gens, r.gen),
     current |-> IF r.pc = "settle" THEN NoReport ELSE on.current,
     links |-> IF r.prev = NoReport THEN {} ELSE on.links]

\* What is left of a date's files when writing generation r.gen fails: the
\* pointer goes back if it had moved, a first report takes its links with it.
RolledBack(on, r, restored) ==
    [gens |-> Without(on.gens, r.gen),
     current |-> IF r.pc = "settle" /\ restored THEN r.prev ELSE on.current,
     links |-> IF r.prev = NoReport THEN {} ELSE on.links]

WriteFails(p) ==
    LET r == reporter[p] IN
    /\ r.pc \in {"fill", "link", "switch", "settle"}
    /\ SpendReport("disk")
    /\ \E restored \in BOOLEAN :
          /\ ~restored => r.pc = "settle" /\ reportsLeft.disk > 1
          /\ disk' = [disk EXCEPT ![r.date] = RolledBack(@, r, restored)]
          /\ undone' = IF restored THEN undone ELSE undone \cup {r.date}
    /\ Fail(p)
    /\ UNCHANGED <<due, made, archive>>

-----------------------------------------------------------------------------
(* finish_report_run, the retention, and the end of the lock.               *)

Finish(p) ==
    LET r == reporter[p] IN
    /\ r.pc = "finish"
    /\ rows' = [rows EXCEPT ![r.row] = [@ EXCEPT !.status = "success", !.gen = r.gen]]
    /\ Goto(p, "retain")
    /\ UNCHANGED <<due, disk, made, undone, holder, archive, reportsLeft>>

\* The transaction fails: the report is on disk and its row is not a success;
\* the row of the error is written, or fails the same way and stays running.
FinishFails(p) ==
    /\ reporter[p].pc = "finish"
    /\ SpendReport("store")
    /\ \/ Fail(p)
       \/ /\ holder' = Nobody
          /\ reporter' = [reporter EXCEPT ![p] = Resting]
          /\ UNCHANGED rows
    /\ UNCHANGED <<due, disk, made, undone, archive>>

Expired(d) == d < due - RetentionDays

\* cleanup_reports: expired dates, and generations of another day that no
\* pointer names; its failure is logged and changes nothing else.
Retain(p) ==
    /\ reporter[p].pc = "retain"
    /\ \/ /\ disk' = [d \in Dates |->
                IF Expired(d) THEN [gens |-> {}, current |-> NoReport, links |-> {}]
                ELSE [disk[d] EXCEPT !.gens =
                        {g \in @ : g.n = disk[d].current \/ made[g.n].due = due}]]
          /\ UNCHANGED reportsLeft
       \/ SpendReport("disk") /\ UNCHANGED disk
    /\ holder' = Nobody
    /\ Goto(p, "sync")
    /\ UNCHANGED <<due, rows, made, undone, archive>>

\* The process dies: the kernel drops its lock, the row stays running.
KillReporter(p) ==
    /\ reporter[p].pc # "idle"
    /\ SpendReport("crash")
    /\ holder' = IF holder = p THEN Nobody ELSE holder
    /\ reporter' = [reporter EXCEPT ![p] = Resting]
    /\ UNCHANGED <<due, rows, disk, made, undone, archive>>

-----------------------------------------------------------------------------
(* GitHubReportPublisher.publish_report.  The upstream is another clone's   *)
(* too: moved, it has commits that were not fetched yet; behind, they were  *)
(* fetched and are not merged; ahead counts the commits not pushed, landed  *)
(* those of them that reached the remote though the push seemed to fail.    *)

Dirty == archive.work # archive.head

UpstreamMoves ==
    /\ SpendReport("remote")
    /\ archive' = [archive EXCEPT !.moved = TRUE]
    /\ UNCHANGED <<due, rows, disk, made, undone, holder, reporter>>

GiveUp(p) == reporter' = [reporter EXCEPT ![p] = Resting]

\* A git command fails or times out: the publication ends, the report stands.
GitFails(p) ==
    /\ reporter[p].pc \in {"sync", "commit", "push"}
    /\ SpendReport("git")
    /\ GiveUp(p)
    /\ \/ UNCHANGED archive
       \/ /\ reporter[p].pc = "push" /\ ~archive.moved      \* pushed, the answer lost
          /\ archive' = [archive EXCEPT !.landed = archive.ahead]
    /\ UNCHANGED <<due, rows, disk, made, undone, holder>>

\* _sync_upstream: fetch, then fast forward a clean tree without own commits.
SyncUpstream(p) ==
    LET ahead == archive.ahead - archive.landed
        behind == archive.behind \/ archive.moved
        forward == behind /\ ~Dirty /\ ahead = 0 IN
    /\ reporter[p].pc = "sync"
    /\ archive' = [archive EXCEPT !.ahead = ahead, !.landed = 0, !.moved = FALSE,
                                  !.behind = behind /\ ~forward]
    /\ IF behind /\ ~forward THEN GiveUp(p) ELSE Goto(p, "json")
    /\ UNCHANGED <<due, rows, disk, made, undone, holder, reportsLeft>>

\* _copy_report_file, for the JSON and then for the Markdown.
CopyReport(p, kind) ==
    LET r == reporter[p]
        g == Reads(r.date, kind) IN
    /\ r.pc = kind
    /\ \/ /\ g = NoReport
          /\ GiveUp(p)
          /\ UNCHANGED archive
       \/ /\ g # NoReport
          /\ archive' = [archive EXCEPT !.work[r.date][kind] = g]
          /\ Goto(p, IF kind = "json" THEN "md" ELSE "commit")
    /\ UNCHANGED <<due, rows, disk, made, undone, holder, reportsLeft>>

CommitArchive(p) ==
    LET d == reporter[p].date
        changed == archive.work[d] # archive.head[d] IN
    /\ reporter[p].pc = "commit"
    /\ archive' = IF changed /\ ~archive.behind
                  THEN [archive EXCEPT !.head[d] = archive.work[d], !.ahead = @ + 1]
                  ELSE archive
    /\ IF changed /\ archive.behind THEN GiveUp(p) ELSE Goto(p, "push")
    /\ UNCHANGED <<due, rows, disk, made, undone, holder, reportsLeft>>

\* _push_if_needed; a remote that has moved refuses the push.
Push(p) ==
    /\ reporter[p].pc = "push"
    /\ archive' = IF archive.ahead > 0 /\ ~archive.behind /\ ~archive.moved
                  THEN [archive EXCEPT !.ahead = 0, !.landed = 0] ELSE archive
    /\ GiveUp(p)
    /\ UNCHANGED <<due, rows, disk, made, undone, holder, reportsLeft>>

-----------------------------------------------------------------------------
Kinds == {"json", "md"}

ReportStep(p) ==
    \/ Schedule(p) \/ Acquire(p) \/ Analyse(p) \/ MakeGeneration(p)
    \/ \E k \in Kinds : Fill(p, k) \/ LinkReport(p, k) \/ CopyReport(p, k)
    \/ SwitchPointer(p) \/ Settle(p) \/ Finish(p) \/ Retain(p)
    \/ SyncUpstream(p) \/ CommitArchive(p) \/ Push(p)

ReportFault(p) ==
    \/ AttemptFails(p) \/ WriteFails(p) \/ FinishFails(p) \/ GitFails(p) \/ KillReporter(p)

ReportsNext ==
    \/ DayPasses
    \/ UpstreamMoves
    \/ \E p \in Reporters : ReportStep(p) \/ ReportFault(p)
    \/ \E p \in Reporters, d \in Dates, rules \in BOOLEAN : Command(p, d, rules)

ReportsSpec == ReportsInit /\ [][ReportsNext]_reportVars

-----------------------------------------------------------------------------
UnderWay == {"codex", "make", "fill", "link", "switch", "settle", "finish"}

ReportsTypeOK ==
    /\ due \in Dates
    /\ \A i \in DOMAIN rows :
          /\ rows[i].date \in Dates /\ rows[i].gen \in 0 .. Len(made)
          /\ rows[i].status \in {"running", "success", "failed", "interrupted"}
    /\ \A d \in Dates :
          /\ disk[d].current \in 0 .. Len(made)
          /\ disk[d].links \subseteq Kinds
          /\ \A g \in disk[d].gens : g.n \in DOMAIN made /\ g.files \subseteq Kinds
          /\ \A g, h \in disk[d].gens : g.n = h.n => g = h
    /\ holder \in Reporters \cup {Nobody}
    /\ \A p \in Reporters :
          holder = p <=> reporter[p].pc \in UnderWay \cup {"retain"}
    /\ archive.ahead \in Nat /\ archive.landed \in 0 .. archive.ahead

\* A reader who opens <date>.json and <date>.md finds the two files of one
\* report or no report, at every step of a replacement, a roll back, a
\* retention or a crash between two of them.
ReadersSeePairs == \A d \in Dates : Reads(d, "json") = Reads(d, "md")

\* A date whose run is recorded as successful has its report, that one or a
\* later one, on disk until the retention takes it, whatever failed or died in
\* a later run of the date; but for a roll back that itself failed.
SuccessOnDisk ==
    \A d \in Dates :
        LatestSuccess(d) # 0 =>
            \/ Reads(d, "md") >= rows[LatestSuccess(d)].gen
            \/ Expired(d) \/ d \in undone

\* begin_report_run takes every running row of the date for dead: it never
\* marks the row of a run that is still going on.
LiveRunStands ==
    \A p \in Reporters : reporter[p].pc \in UnderWay
                            => rows[reporter[p].row].status = "running"

\* What the readers and the database have of the reports.
Shown(d, n) == IF \E g \in disk[d].gens : g.n = n THEN n ELSE NoReport
Page == [d \in Dates |-> [json |-> Reads(d, "json"), md |-> Reads(d, "md")]]
Trial == {[date |-> reporter[p].date, back |-> Shown(reporter[p].date, reporter[p].prev)] :
             p \in {q \in Reporters : reporter[q].pc = "settle"}}
Recorded(d) == {rows[i].gen : i \in {j \in DOMAIN rows : /\ rows[j].date = d
                                                        /\ rows[j].status = "success"}}

Published == INSTANCE AtomicReport WITH
    page <- Page, trial <- Trial, recorded <- [d \in Dates |-> Recorded(d)],
    gone <- {d \in Dates : Expired(d)}, lost <- undone

\* The generation's directory, two links, a pointer, the clean-up, the roll back
\* and the row of the run implement a report that appears at once: whoever reads
\* meets at most two changes of a run's, its report and the one before.
PublishesAtomically == Published!Spec

\* The report of the last due date is made with Codex's analysis in the end,
\* whoever was killed, whatever failed, and even if an operator replaced it by
\* one without (docs/ops-reporting: the scheduler repairs a missing report).
ReportAppears == <>[]IsComplete(due, TRUE)

\* The archive cannot follow by itself: own commits or own changes while the
\* upstream has moved on, which only a person resolves.
Diverged == (archive.behind \/ archive.moved) /\ (archive.ahead > archive.landed \/ Dirty)

\* What is committed and pushed for the due date is in the end the pair of
\* files that is on disk, though publications of two processes interleave
\* outside the lock with replacements of the report; unless diverged.
ArchiveSettles ==
    <>[](\/ /\ \A k \in Kinds : archive.head[due][k] = Reads(due, k)
            /\ archive.ahead = archive.landed
         \/ Diverged)

\* The scheduler always has a step unless it waits for the lock, and is
\* restarted when it dies; an operator's command ends.
ReportsFairness ==
    /\ []<>(holder \notin {"serve", Nobody}) \/ []<><<ReportStep("serve")>>_reportVars
    /\ \A p \in Reporters \ {"serve"} : []<>(reporter[p].pc = "idle")
=============================================================================
