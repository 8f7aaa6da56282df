------------------------------ MODULE AiRouting ------------------------------
(***************************************************************************)
(* AI routing: the resident manager's hourly cycle and the manager that    *)
(* the panel launches for a manual mode (xray/ai_routing/*, and            *)
(* state/ai_routing.py).  A run reads what the access log has past its     *)
(* book, classifies the domains it does not know, probes the candidates,   *)
(* renders and loads the route, and then reports the window.  Two files    *)
(* are locks: gate, held by a cycle or by the panel's whole request, and   *)
(* applying, held by whichever manager runs.                               *)
(*                                                                         *)
(* Time is counted in intervals, and the look-back is one of them.  A      *)
(* visit is its number in the access log.  Route 0 is the direct one, 1    *)
(* and 2 go to the primary and the backup candidate.  What the route's     *)
(* application does to the panel's ports is XrayApply's matter.            *)
(***************************************************************************)
EXTENDS Integers, Sequences, FiniteSets

CONSTANTS
    Domains,      \* that clients visit
    Builtin,      \* those with a suffix in FORCED_AI_ROUTE_DOMAIN_SUFFIXES
    AiBudgets     \* bounds, one record per scenario: hour, visit, rotate,
                  \* reach, request, probe, unread, silent, apply, save,
                  \* kill, timeout, store, panel, restart, search

ASSUME AiAssumption == Builtin \subseteq Domains

VARIABLES
    hour,       \* the clock
    turn,       \* a boundary has passed that the resident manager owes a cycle
    visits,     \* the access log: what was visited and when
    opened,     \* visits before the open file of the log
    rotated,    \* history: visits that may have been rotated away unread
    book,       \* .state.json: the file, the offset in it, the events kept
    decided,    \* ai-domain-decisions.json, and a search tool's copy of it
    catalog,    \* ai_domains and ai_domain_observations
    hourly,     \* the hourly reports
    mode,       \* ai_routing_manual_mode in app_state
    reach,      \* the candidates that can be reached
    route,      \* config.json as rendered, on the node's disk, as loaded
    pending,    \* config.json.pending-apply exists
    managers,   \* the resident manager and the one the panel launched
    gate, applying,
    panel,      \* the panel's request
    drift,      \* history: what may have parted the node's route and mode
    aiLeft      \* what is left of the bounds

timeVars == <<hour, turn>>
logVars == <<visits, opened, rotated>>
noteVars == <<book, catalog, hourly>>
routeVars == <<route, pending>>
lockVars == <<gate, applying>>
aiVars == <<timeVars, logVars, noteVars, decided, mode, reach, routeVars,
            managers, lockVars, panel, drift, aiLeft>>

Modes == {"auto", "primary", "backup", "forced_fallback"}
Managers == {"cycle", "child"}
Free == "free"
Unknown == [d \in Domains |-> "none"]
Off == [pc |-> "off", mode |-> "auto", now |-> 0, file |-> 0, upto |-> 0, kept |-> {},
        to |-> 0, known |-> Unknown]
Asleep == [pc |-> "idle", want |-> "auto", was |-> "auto"]
Direct == [to |-> 0, of |-> {}]

SpendAi(what) == aiLeft[what] > 0 /\ aiLeft' = [aiLeft EXCEPT ![what] = @ - 1]

AiInit ==
    /\ aiLeft \in AiBudgets
    /\ hour = 0 /\ turn = FALSE
    /\ visits = <<>> /\ opened = 0 /\ rotated = {}
    /\ book = [file |-> 0, off |-> 0, kept |-> {}]
    /\ decided = [file |-> Unknown, search |-> {}]
    /\ catalog = [ai |-> {}, observed |-> {}]
    /\ hourly = {}
    /\ mode = "auto" /\ reach = {1, 2}
    /\ route = [config |-> Direct, synced |-> Direct, loaded |-> Direct] /\ pending = FALSE
    /\ managers = [m \in Managers |-> Off]
    /\ gate = Free /\ applying = Free
    /\ panel = Asleep /\ drift = {}

Decided(known, what) == {d \in Domains : known[d] = what}
Seen(kept) == {visits[i].of : i \in kept}

-----------------------------------------------------------------------------
(* The world: time, visits, the log's rotation, the candidates, the node.   *)

HourPasses ==
    /\ ~turn
    /\ SpendAi("hour")
    /\ hour' = hour + 1 /\ turn' = TRUE
    /\ UNCHANGED <<logVars, noteVars, decided, mode, reach, routeVars, managers,
                   lockVars, panel, drift>>

Visit(d) ==
    /\ SpendAi("visit")
    /\ visits' = Append(visits, [of |-> d, at |-> hour])
    /\ UNCHANGED <<timeVars, opened, rotated, noteVars, decided, mode, reach, routeVars,
                   managers, lockVars, panel, drift>>

\* The log is renamed and a new one opened; nobody reads the old one.
Rotate ==
    /\ opened < Len(visits)
    /\ SpendAi("rotate")
    /\ opened' = Len(visits)
    /\ rotated' = rotated \cup book.off + 1 .. Len(visits)
    /\ UNCHANGED <<timeVars, visits, noteVars, decided, mode, reach, routeVars,
                   managers, lockVars, panel, drift>>

ReachChanges ==
    /\ SpendAi("reach")
    /\ reach' \in SUBSET {1, 2} \ {reach}
    /\ UNCHANGED <<timeVars, logVars, noteVars, decided, mode, routeVars, managers,
                   lockVars, panel, drift>>

\* Xray is restarted by others, and loads what is on the node's disk.
NodeRestarts ==
    /\ SpendAi("restart")
    /\ route' = [route EXCEPT !.loaded = route.synced]
    /\ drift' = drift \ {"unmarked"}
    /\ UNCHANGED <<timeVars, logVars, noteVars, decided, mode, reach, pending, managers,
                   lockVars, panel>>

-----------------------------------------------------------------------------
(* A run of the manager, _run_once_locked.                                  *)

\* The clock's bound: the boundaries go on, uncounted.
LastHour == aiLeft.hour = 0

Step(m, pc) == managers' = [managers EXCEPT ![m].pc = pc]

\* The resident manager takes both locks, or lets this boundary pass.
CycleStarts ==
    /\ turn \/ LastHour
    /\ managers["cycle"].pc = "off" /\ gate = Free /\ applying = Free
    /\ gate' = "cycle" /\ applying' = "cycle"
    /\ managers' = [managers EXCEPT !["cycle"].pc = "gather"]
    /\ turn' = FALSE
    /\ UNCHANGED <<hour, logVars, noteVars, decided, mode, reach, routeVars, panel,
                   drift, aiLeft>>

CycleIsBusy ==
    /\ turn /\ managers["cycle"].pc = "off" /\ (gate # Free \/ applying # Free)
    /\ turn' = FALSE
    /\ UNCHANGED <<hour, logVars, noteVars, decided, mode, reach, routeVars, managers,
                   lockVars, panel, drift, aiLeft>>

\* select_ai_target, and the branches that fall back to the direct route.
Select(md, up) ==
    CASE md = "forced_fallback" -> 0
      [] md = "auto" -> IF up = {} THEN 0 ELSE CHOOSE c \in up : \A e \in up : c <= e
      [] md = "primary" -> IF 1 \in up THEN 1 ELSE 0
      [] md = "backup" -> IF 2 \in up THEN 2 ELSE 0

\* What a run has to read: all of a log that is not the book's.
Unbooked == (IF book.file = opened THEN book.off ELSE opened) + 1 .. Len(visits)

\* A mode that cannot be read is "auto".
ModeOf(m, unread) ==
    IF m = "child" THEN managers[m].mode ELSE IF unread THEN "auto" ELSE mode

\* A probe that cannot be run is as good as no candidate.
Probed(unprobed) == IF unprobed THEN {} ELSE reach

\* purge_old_events: what the look-back still covers.
InWindow(events) == {i \in events : visits[i].at >= hour - 1}

\* sync_builtin_domain_decisions: nothing overrules a builtin suffix.
BuiltinDecided(known) == [d \in Domains |-> IF d \in Builtin THEN "ai" ELSE known[d]]

Gather(m) ==
    /\ managers[m].pc = "gather"
    /\ \E unread, unprobed \in BOOLEAN :
          /\ unread => m = "cycle" /\ aiLeft.unread > 0
          /\ unprobed => aiLeft.probe > 0
          /\ managers' = [managers EXCEPT ![m] =
                [pc |-> "classify", mode |-> ModeOf(m, unread), now |-> hour,
                 file |-> opened, upto |-> Len(visits), kept |-> InWindow(book.kept \cup Unbooked),
                 to |-> Select(ModeOf(m, unread), Probed(unprobed)),
                 known |-> BuiltinDecided(decided.file)]]
          /\ drift' = IF unread THEN drift \cup {"unread"} ELSE drift
          /\ aiLeft' = [aiLeft EXCEPT !.unread = IF unread THEN @ - 1 ELSE @,
                                      !.probe = IF unprobed THEN @ - 1 ELSE @]
    /\ decided' = [decided EXCEPT !.file = BuiltinDecided(@)]
    /\ UNCHANGED <<timeVars, logVars, noteVars, mode, reach, routeVars, lockVars, panel>>

\* Those classify_pending_domains asks about.
Undecided(m) ==
    IF managers[m].mode = "forced_fallback" THEN {}
    ELSE Seen(managers[m].kept) \cap Decided(managers[m].known, "none")

\* validate_classification_results: what Codex, or else OpenAI, may answer.
Classes == {"ai", "not_ai"}

\* A batch is answered, and the run's decisions are saved over the file.
ClassifyBatch(m, d, answer) ==
    /\ managers[m].pc = "classify" /\ d \in Undecided(m)
    /\ managers' = [managers EXCEPT ![m].known[d] = answer]
    /\ decided' = [decided EXCEPT !.file = managers'[m].known]
    /\ UNCHANGED <<timeVars, logVars, noteVars, mode, reach, routeVars,
                   lockVars, panel, drift, aiLeft>>

\* All is decided, or no classifier answers: the rest stays for another run.
ClassifyEnds(m) ==
    /\ managers[m].pc = "classify"
    /\ \/ Undecided(m) = {} /\ UNCHANGED aiLeft
       \/ Undecided(m) # {} /\ SpendAi("silent")
    /\ Step(m, "apply")
    /\ UNCHANGED <<timeVars, logVars, noteVars, decided, mode, reach, routeVars,
                   lockVars, panel, drift>>

\* The route a run wants: a fragment only if there is a domain and a way.
Wanted(known, to) ==
    IF Decided(known, "ai") = {} \/ to = 0 THEN Direct
    ELSE [to |-> to, of |-> Decided(known, "ai")]

\* A child's exit is its panel's answer, unless nobody waits for it any more: a
\* request may be about to launch a child of its own.
Answered(ok) ==
    CASE panel.pc = "wait" /\ ok -> [panel EXCEPT !.pc = "store"]
      [] panel.pc \in {"launch", "undo"} -> panel
      [] OTHER -> Asleep

\* The run is over: its locks are freed.  The panel's gate is the panel's.
Over(m, ok) ==
    /\ managers' = [managers EXCEPT ![m] = Off]
    /\ applying' = Free
    /\ IF m = "child"
       THEN /\ panel' = Answered(ok)
            /\ gate' = IF gate = "panel" /\ panel'.pc = "idle" THEN Free ELSE gate
       ELSE gate' = IF gate = "cycle" THEN Free ELSE gate
    /\ m = "cycle" => UNCHANGED panel

\* An undo that fails is not tried again.
Undone(m) == IF m = "child" /\ panel.pc = "rewait" THEN {"undo"} ELSE {}

\* Mutant: the marker is not looked at.
ApplyNeededUnmarked(want) == want # route.config \/ want # route.synced

ApplyNeeded(want) == want # route.config \/ want # route.synced \/ pending

\* What a run leaves of the drift: its application loads what is on the node's
\* disk, marked or not, and a cycle's, of the mode in the database, ends the rest.
Mended(m, needed) ==
    drift \ ((IF needed THEN {"unmarked"} ELSE {}) \cup
             (IF m = "cycle" /\ managers[m].mode = mode THEN drift \ {"unmarked"} ELSE {}))

\* The rest of the run reports; it no longer touches the route.
ApplyRoute(m) ==
    LET r == managers[m]
        want == Wanted(r.known, r.to) IN
    /\ r.pc = "apply"
    /\ IF ApplyNeeded(want)
       THEN route' = [config |-> want, synced |-> want, loaded |-> want] /\ pending' = FALSE
       ELSE UNCHANGED routeVars
    /\ drift' = Mended(m, ApplyNeeded(want))
    /\ Step(m, "record")
    /\ UNCHANGED <<timeVars, logVars, noteVars, decided, mode, reach, lockVars, panel, aiLeft>>

\* The marker is set after the rendering if that changed the file, or stood
\* already; otherwise only when the upload has answered that it replaced the
\* node's file.
MarkedFirst(want) == want # route.config \/ pending

\* How far an application came: its rendering, its upload, its restart.
Rendered(want) == route' = [route EXCEPT !.config = want]
Uploaded(want) == route' = [route EXCEPT !.config = want, !.synced = want]
Reloaded(want) == route' = [config |-> want, synced |-> want, loaded |-> want]

\* It stops before it changes anything, or with the marker set, or with the
\* node's file replaced and neither an answer nor a marker: then no later run
\* will see that the node has not loaded its file.
Stops(m, cause) ==
    LET want == Wanted(managers[m].known, managers[m].to) IN
    /\ managers[m].pc = "apply"
    /\ \/ /\ UNCHANGED routeVars
          /\ drift' = drift \cup cause
       \/ /\ pending' = TRUE
          /\ \/ MarkedFirst(want) /\ Rendered(want)
             \/ ApplyNeeded(want) /\ (Uploaded(want) \/ Reloaded(want))
          /\ drift' = drift \cup cause
       \/ /\ ~MarkedFirst(want) /\ want # route.synced
          /\ Uploaded(want) /\ UNCHANGED pending
          /\ drift' = drift \cup cause \cup {"unmarked"}

\* Rendering, the upload or the restart fails; the restart may have worked.
ApplyFails(m) ==
    /\ Stops(m, Undone(m))
    /\ SpendAi("apply")
    /\ Over(m, FALSE)
    /\ UNCHANGED <<timeVars, logVars, noteVars, decided, mode, reach>>

\* build_domain_report: the run's window, and the visits in it.
ReportOf(r) == [from |-> r.now - 1, upto |-> r.upto, kept |-> r.kept]

\* save_ai_domains_to_panel_db, which is skipped when the database is locked.
\* An observation is a domain and the window it was seen in.
Record(m) ==
    LET r == managers[m]
        ai == Decided(r.known, "ai")
        now == ai \cap Seen(r.kept)
        before == {o.of : o \in catalog.observed} IN
    /\ r.pc = "record"
    /\ \/ /\ catalog' = [observed |-> catalog.observed \cup {[of |-> d, by |-> ReportOf(r)] : d \in now},
                         ai |-> ai \cap (now \cup before \cup catalog.ai)]
          /\ UNCHANGED aiLeft
       \/ SpendAi("save") /\ UNCHANGED catalog
    /\ Step(m, "report")
    /\ UNCHANGED <<timeVars, logVars, book, hourly, decided, mode, reach, routeVars,
                   lockVars, panel, drift>>

WriteReport(m) ==
    /\ managers[m].pc = "report"
    /\ hourly' = hourly \cup {ReportOf(managers[m])}
    /\ Step(m, "book")
    /\ UNCHANGED <<timeVars, logVars, book, catalog, decided, mode, reach, routeVars,
                   lockVars, panel, drift, aiLeft>>

\* Mutant: what has been reported is dropped from the book.
BookedUnreported(r) == [file |-> r.file, off |-> r.upto, kept |-> {}]

\* The file and the offset are those of the read, wherever the log is by now.
Booked(r) == [file |-> r.file, off |-> r.upto, kept |-> r.kept]

\* The book is written last, then the run's decisions once more, and the run
\* has succeeded even if they could not be.
SaveBook(m) ==
    /\ managers[m].pc = "book"
    /\ book' = Booked(managers[m])
    /\ \/ decided' = [decided EXCEPT !.file = managers[m].known] /\ UNCHANGED aiLeft
       \/ SpendAi("save") /\ UNCHANGED decided
    /\ Over(m, TRUE)
    /\ UNCHANGED <<timeVars, logVars, catalog, hourly, mode, reach, routeVars, drift>>

\* Reporting fails: the run has still succeeded, without its report or book.
ReportingFails(m) ==
    /\ managers[m].pc \in {"record", "report", "book"}
    /\ SpendAi("save")
    /\ Over(m, TRUE)
    /\ UNCHANGED <<timeVars, logVars, noteVars, decided, mode, reach, routeVars, drift>>

\* A child that dies may have loaded a mode that nobody stores.
Killed(m) == Undone(m) \cup (IF m = "child" THEN {"killed"} ELSE {})

\* A manager dies, anywhere.  Between the rendering and the marker it leaves a
\* configuration that only the comparison with the node's shows.
Dies(m) ==
    /\ \/ Stops(m, Killed(m))
       \/ /\ managers[m].pc # "off"
          /\ \/ managers[m].pc # "apply" /\ UNCHANGED route
             \/ /\ managers[m].pc = "apply"
                /\ Rendered(Wanted(managers[m].known, managers[m].to))
          /\ UNCHANGED pending
          /\ drift' = drift \cup Killed(m)
    /\ UNCHANGED <<timeVars, logVars, noteVars, decided, mode, reach>>

KillManager(m) ==
    /\ SpendAi("kill")
    /\ Dies(m)
    /\ Over(m, FALSE)

-----------------------------------------------------------------------------
(* The search tool by hand, which takes no lock (google_search_mcp.py with  *)
(* writeBack): it loads the decisions, asks for minutes, and saves its copy. *)

\* The domains are the caller's, or the uncategorized ones of the last report.
SearchStarts(ds) ==
    /\ decided.search = {}
    /\ SpendAi("search")
    /\ decided' = [decided EXCEPT !.search = {[known |-> decided.file, of |-> ds]}]
    /\ UNCHANGED <<timeVars, logVars, noteVars, mode, reach, routeVars, managers,
                   lockVars, panel, drift>>

\* validate_domain_classification_result, and a domain that nothing is found on.
SearchClasses == Classes \cup {"unknown"}

\* A domain whose search or classification failed ("none") keeps what it had.
SearchEnds ==
    /\ \E s \in decided.search : \E answers \in [s.of -> SearchClasses \cup {"none"}] :
          decided' = [search |-> {}, file |-> [d \in Domains |->
              IF d \in s.of /\ answers[d] # "none" THEN answers[d] ELSE s.known[d]]]
    /\ UNCHANGED <<timeVars, logVars, noteVars, mode, reach, routeVars, managers,
                   lockVars, panel, drift, aiLeft>>

-----------------------------------------------------------------------------
(* The panel's request, set_ai_routing_manual_mode.                         *)

Request(w) ==
    /\ panel.pc = "idle" /\ gate = Free
    /\ SpendAi("request")
    /\ gate' = "panel"
    /\ panel' = [pc |-> "launch", want |-> w, was |-> mode]
    /\ UNCHANGED <<timeVars, logVars, noteVars, decided, mode, reach, routeVars,
                   managers, applying, drift>>

\* The panel gives the request up: the gate is free.
Close == panel' = Asleep /\ gate' = Free

\* AiDomainManagerRunner.run; LOCK_BUSY_EXIT_CODE when another run applies.
Launch ==
    /\ panel.pc \in {"launch", "undo"}
    /\ \/ /\ applying = Free
          /\ applying' = "child"
          /\ managers' = [managers EXCEPT !["child"] =
                 [Off EXCEPT !.pc = "gather",
                             !.mode = IF panel.pc = "undo" THEN panel.was ELSE panel.want]]
          /\ panel' = [panel EXCEPT !.pc = IF @ = "undo" THEN "rewait" ELSE "wait"]
          /\ UNCHANGED <<gate, drift>>
       \/ /\ applying # Free
          /\ Close
          /\ drift' = drift \cup (IF panel.pc = "undo" THEN {"undo"} ELSE {})
          /\ UNCHANGED <<applying, managers>>
    /\ UNCHANGED <<timeVars, logVars, noteVars, decided, mode, reach, routeVars, aiLeft>>

\* The launcher has waited long enough.  A local manager is killed with it; one
\* in a container goes on, though the answer is that the route was kept.
PanelTimesOut ==
    /\ panel.pc \in {"wait", "rewait"}
    /\ SpendAi("timeout")
    /\ \/ /\ Close
          /\ drift' = drift \cup {"timeout"}
          /\ UNCHANGED <<timeVars, logVars, noteVars, decided, mode, reach, routeVars,
                         managers, applying>>
       \/ Dies("child") /\ Over("child", FALSE)

PanelStores ==
    /\ panel.pc = "store"
    /\ mode' = panel.want
    /\ drift' = drift \cap {"unmarked"}
    /\ Close
    /\ UNCHANGED <<timeVars, logVars, noteVars, decided, reach, routeVars, managers,
                   applying, aiLeft>>

\* Mutant: a store that fails is only reported.
StoreFailsOnly ==
    /\ panel.pc = "store"
    /\ SpendAi("store")
    /\ Close
    /\ UNCHANGED <<timeVars, logVars, noteVars, decided, mode, reach, routeVars,
                   managers, applying, drift>>

\* The node is on the new route already: the old mode is applied again.
StoreFails ==
    /\ panel.pc = "store"
    /\ SpendAi("store")
    /\ \/ panel.was = panel.want /\ Close
       \/ panel.was # panel.want /\ panel' = [panel EXCEPT !.pc = "undo"] /\ UNCHANGED gate
    /\ UNCHANGED <<timeVars, logVars, noteVars, decided, mode, reach, routeVars,
                   managers, applying, drift>>

\* The panel dies with a request under way; a manager it launched goes on.
PanelDies ==
    /\ panel.pc # "idle"
    /\ SpendAi("panel")
    /\ Close
    /\ drift' = drift \cup {"panel"}
    /\ UNCHANGED <<timeVars, logVars, noteVars, decided, mode, reach, routeVars,
                   managers, applying>>

-----------------------------------------------------------------------------
(* What the operations report says of a day's AI domains                    *)
(* (xray_ops/ai_domains.py); here a day is an interval.                     *)

\* The windows that meet the day: of runs in it, and of those right after.
InDay(r, h) == r.from \in {h - 1, h}

\* The database has the windows of a domain whose reports were not written.
ObservedIn(d, h) == {o.by : o \in {c \in catalog.observed : c.of = d /\ InDay(c.by, h)}}
DayRecords(d, h) == {r \in hourly : InDay(r, h)} \cup ObservedIn(d, h)

\* A domain's hits, window by window: those in two windows are counted twice.
DayHits(d, h) ==
    {hit \in DayRecords(d, h) \X (1 .. Len(visits)) :
        hit[2] \in hit[1].kept /\ visits[hit[2]].of = d}

-----------------------------------------------------------------------------
ManagerStep(m) ==
    \/ Gather(m)
    \/ \E d \in Domains, answer \in Classes : ClassifyBatch(m, d, answer)
    \/ ClassifyEnds(m) \/ ApplyRoute(m) \/ Record(m) \/ WriteReport(m) \/ SaveBook(m)

CycleStep == CycleStarts \/ ManagerStep("cycle")

AiFault ==
    \/ \E m \in Managers : ApplyFails(m) \/ ReportingFails(m) \/ KillManager(m)
    \/ PanelTimesOut \/ StoreFails \/ PanelDies

AiNext ==
    \/ HourPasses \/ Rotate \/ ReachChanges \/ NodeRestarts
    \/ \E d \in Domains : Visit(d)
    \/ CycleStep \/ CycleIsBusy \/ ManagerStep("child")
    \/ \E w \in Modes : Request(w)
    \/ Launch \/ PanelStores
    \/ SearchEnds \/ \E ds \in SUBSET Domains : SearchStarts(ds)
    \/ AiFault

AiSpec == AiInit /\ [][AiNext]_aiVars

-----------------------------------------------------------------------------
\* The locks and the requests agree on who runs.
AiTypeOK ==
    /\ hour \in Nat /\ turn \in BOOLEAN /\ pending \in BOOLEAN
    /\ opened \in 0 .. Len(visits) /\ book.off \in 0 .. Len(visits)
    /\ \A d \in Domains : decided.file[d] \in SearchClasses \cup {"none"}
    /\ catalog.ai \subseteq {o.of : o \in catalog.observed}
    /\ mode \in Modes /\ reach \subseteq {1, 2}
    /\ \A c \in DOMAIN route : route[c].to \in 0 .. 2 /\ route[c].of \subseteq Domains
    /\ \A m \in Managers : managers[m].pc # "off" <=> applying = m
    /\ gate = "panel" <=> panel.pc # "idle"
    /\ gate = "cycle" <=> managers["cycle"].pc # "off"
    /\ panel.pc \in {"wait", "rewait"} => managers["child"].pc # "off"

\* The routes that a mode may lead to.
Allowed(md) ==
    CASE md = "auto" -> {0, 1, 2} [] md = "primary" -> {0, 1}
      [] md = "backup" -> {0, 2} [] md = "forced_fallback" -> {0}

AiQuiet == panel.pc = "idle" /\ \A m \in Managers : managers[m].pc = "off"

\* Outside of runs and requests the node routes as the mode in the database
\* says, and would after a restart by others, for all orders of cycles,
\* requests, stores and undos; unless a failed application is still marked, or
\* one of the named faults (a launcher that timed out, an undo that failed, a
\* panel or manager that died, a mode that could not be read) was met after the
\* last run that put them together.  An upload that stopped before the marker
\* excuses what is loaded, until it is loaded, but not what is on the disk.  And
\* a route to a candidate has every builtin domain, though a search by hand may
\* decide otherwise or save a copy of the decisions older than a run's.
RouteFollowsMode ==
    /\ AiQuiet =>
          /\ route.loaded.to \in Allowed(mode) \/ pending \/ drift # {}
          /\ route.synced.to \in Allowed(mode) \/ pending \/ drift \ {"unmarked"} # {}
    /\ \A c \in DOMAIN route : route[c].to # 0 => Builtin \subseteq route[c].of

\* An hourly report holds every visit of its window that was in the log when
\* its run read it: over runs that overlap its window, runs that failed before
\* or after they reported, and crashes; but for a log rotated away unread.
WindowsComplete ==
    \A r \in hourly : \A i \in 1 .. r.upto :
        visits[i].at >= r.from => i \in r.kept \/ i \in rotated

\* And a day's analysis counts every visit of the day that a run has reported
\* or, for an AI domain, recorded: also when the other of the two failed, and
\* when its window lies across the day's end.
DaysComplete ==
    \A r \in hourly \cup {o.by : o \in catalog.observed} : \A i \in r.kept :
        LET d == visits[i].of IN
        r \in hourly \/ [of |-> d, by |-> r] \in catalog.observed
            => \E hit \in DayHits(d, visits[i].at) : hit[2] = i

ReportsComplete == WindowsComplete /\ DaysComplete

\* Once requests and faults are over the node has the route of the mode in the
\* database for the candidates that can be reached, with every AI domain that
\* the managers and the searches by hand have left decided; unless an upload
\* has stopped before the marker and no change of the route, nor a restart by
\* others, has loaded the node's file since.
ModeApplied ==
    <>[](AiQuiet =>
            \/ route.loaded = Wanted(BuiltinDecided(decided.file), Select(mode, reach))
            \/ "unmarked" \in drift /\ ~pending)

\* The resident manager goes on, hour by hour; a panel's request and a child
\* come to an end.
AiFairness ==
    /\ []<>LastHour
    /\ []<>AiQuiet
    /\ []<>(applying = "child" \/ gate = "panel") \/ []<><<CycleStep>>_aiVars
=============================================================================
