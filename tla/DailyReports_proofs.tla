------------------------- MODULE DailyReports_proofs -------------------------
(***************************************************************************)
(* Proofs about DailyReports, for any processes, dates, retention, attempts *)
(* and faults: a run that goes on is never taken for dead, a reader meets  *)
(* the two files of one report, a run that succeeded has its report, and   *)
(* the whole replacement implements one that is done at once.              *)
(*                                                                         *)
(* Everything hangs on the lock: what a date's files are while a report is *)
(* replaced is known from the step its one writer is at (Writing), and     *)
(* what they are otherwise from the dates themselves (Stored).  That a     *)
(* replacement is newer than what is recorded (Newer) makes it a Publish.  *)
(***************************************************************************)
EXTENDS DailyReports, SequenceTheorems, TLAPS

Flag == BOOLEAN
Steps == UnderWay \cup {"idle", "wait", "retain", "sync", "json", "md", "commit", "push"}
Held == UnderWay \cup {"retain"}
Statuses == {"running", "success", "failed", "interrupted"}
Row == [date : Dates, status : Statuses, gen : Nat]
Generation == [n : Nat, files : SUBSET Kinds]
Folder == [gens : SUBSET Generation, current : Nat, links : SUBSET Kinds]
Process == [pc : Steps, date : Dates, rules : Flag, skip : Flag, row : Nat,
            gen : Nat, prev : Nat, attempt : Nat]
Pairs == [Dates -> [json : Nat, md : Nat]]
Archive == [work : Pairs, head : Pairs, ahead : Nat, landed : Nat, behind : Flag, moved : Flag]

\* What the state is made of.
Shapes ==
  /\ due \in Dates
  /\ rows \in Seq(Row)
  /\ disk \in [Dates -> Folder]
  /\ made \in Seq([date : Dates, mode : {"rules_only", "codex"}, due : Dates])
  /\ undone \in SUBSET Dates
  /\ holder \in Reporters \cup {Nobody}
  /\ reporter \in [Reporters -> Process]
  /\ archive \in Archive
  /\ archive.landed <= archive.ahead

\* The runs of a date that are recorded as successful.
Successes(d) == {i \in DOMAIN rows : rows[i].date = d /\ rows[i].status = "success"}

\* A date with generation n on disk.
Has(d, n) == \E g \in disk[d].gens : g.n = n

\* Of generation n, what is there is whole.
Whole(d, n) == \A g \in disk[d].gens : g.n = n => g.files = Kinds

\* Whether the date's success is still to be found on disk.
Owed(d) == Successes(d) # {} /\ ~Expired(d) /\ d \notin undone

\* The report n stands for every successful run of the date.
Covers(d, n) == Has(d, n) /\ \A i \in Successes(d) : rows[i].gen <= n

\* The lock is held by the run that is under way, and its row is running.
Live(p) ==
  /\ holder = p <=> reporter[p].pc \in Held
  /\ reporter[p].pc \in UnderWay =>
       /\ reporter[p].row \in DOMAIN rows
       /\ rows[reporter[p].row].date = reporter[p].date
       /\ rows[reporter[p].row].status = "running"

\* What a date's files and rows are at every step: the pointer leads to a whole
\* generation, and through both links, or to nothing; and while it is owed, to
\* one that stands for all its successful runs.
Stored(d) ==
  /\ \A g \in disk[d].gens : g.n \in DOMAIN made
  /\ \A g, h \in disk[d].gens : g.n = h.n => g = h
  /\ disk[d].current <= Len(made)
  /\ Whole(d, disk[d].current)
  /\ Has(d, disk[d].current) => disk[d].links = Kinds
  /\ Successes(d) = {} \/ \E i \in Successes(d) : \A j \in Successes(d) : j <= i
  /\ Owed(d) => Covers(d, disk[d].current)

\* What the one writer has done of its replacement.
Writing(p) ==
  LET r == reporter[p]
      d == r.date IN
  /\ r.pc \in {"fill", "link", "switch", "settle", "finish"} => Has(d, r.gen)
  /\ r.pc \in {"fill", "link", "switch", "settle"} => r.prev < r.gen
  /\ r.pc \in {"fill", "link", "switch"} => disk[d].current = r.prev
  /\ r.pc \in {"link", "switch", "settle"} => Whole(d, r.gen)
  /\ r.pc \in {"switch", "settle"} => disk[d].links = Kinds
  /\ r.pc \in {"settle", "finish"} => disk[d].current = r.gen
  /\ r.pc = "settle" => /\ Whole(d, r.prev)
                        /\ Owed(d) => Covers(d, r.prev)

RowsMade == \A i \in DOMAIN rows : rows[i].gen <= Len(made)

Replacing ==
  /\ Shapes /\ RowsMade
  /\ \A p \in Reporters : Live(p) /\ Writing(p)
  /\ \A d \in Dates : Stored(d)

-----------------------------------------------------------------------------
(* Sequences, processes, and what a step leaves alone. *)

\* A sequence is a function on 1 to its length into the set of its rows.
LEMMA RowsAre ==
  ASSUME NEW S, NEW s \in Seq(S)
  PROVE  /\ Len(s) \in Nat
         /\ DOMAIN s = 1..Len(s)
         /\ \A i \in DOMAIN s : s[i] \in S
BY LenProperties

\* An appended row comes after all the others, which stay.
LEMMA RowAdded ==
  ASSUME NEW S, NEW s \in Seq(S), NEW x \in S
  PROVE  /\ Append(s, x) \in Seq(S)
         /\ Len(Append(s, x)) = Len(s) + 1
         /\ Append(s, x)[Len(s) + 1] = x
         /\ \A i \in DOMAIN s : Append(s, x)[i] = s[i]
         /\ DOMAIN Append(s, x) = DOMAIN s \cup {Len(s) + 1}
BY AppendProperties, LenProperties

\* A row of a sequence is replaced and the others stay.
LEMMA RowChanged ==
  ASSUME NEW S, NEW s \in Seq(S), NEW i \in DOMAIN s, NEW x \in S
  PROVE  /\ [s EXCEPT ![i] = x] \in Seq(S)
         /\ Len([s EXCEPT ![i] = x]) = Len(s)
         /\ DOMAIN [s EXCEPT ![i] = x] = DOMAIN s
         /\ [s EXCEPT ![i] = x][i] = x
         /\ \A j \in DOMAIN s \ {i} : [s EXCEPT ![i] = x][j] = s[j]
BY ExceptSeq, LenProperties

\* A process that rests is well-formed.
LEMMA RestingProcess == Resting \in Process
<1>1. 1 \in Dates
  BY ReportAssumption DEF Dates
<1>2. FALSE \in Flag
  BY DEF Flag
<1> QED
  BY <1>1, <1>2 DEF Resting, Process, Steps, NoReport

\* One process moves and the others stay.
LEMMA OneMoves ==
  ASSUME NEW p \in Reporters, NEW x \in Process,
         reporter \in [Reporters -> Process],
         reporter' = [reporter EXCEPT ![p] = x]
  PROVE  /\ reporter' \in [Reporters -> Process]
         /\ reporter'[p] = x
         /\ \A q \in Reporters \ {p} : reporter'[q] = reporter[q]
OBVIOUS

\* A process that goes on to another step changes nothing else of itself.
LEMMA OneGoes ==
  ASSUME NEW p \in Reporters, NEW s \in Steps,
         reporter \in [Reporters -> Process], Goto(p, s)
  PROVE  /\ reporter' \in [Reporters -> Process]
         /\ reporter'[p] = [reporter[p] EXCEPT !.pc = s]
         /\ reporter'[p].pc = s
         /\ \A f \in {"date", "row", "gen", "prev"} : reporter'[p][f] = reporter[p][f]
         /\ \A q \in Reporters \ {p} : reporter'[q] = reporter[q]
<1>1. reporter[p] \in Process
  OBVIOUS
<1>2. [reporter[p] EXCEPT !.pc = s] \in Process
  BY <1>1 DEF Process
<1>3. reporter' = [reporter EXCEPT ![p] = [reporter[p] EXCEPT !.pc = s]]
  BY DEF Goto
<1> QED
  BY <1>1, <1>2, <1>3, OneMoves DEF Process

\* While one process holds the lock no other one does.
LEMMA OneHolds ==
  ASSUME NEW p \in Reporters, NEW q \in Reporters, p # q, Live(p), Live(q),
         reporter[p].pc \in Held
  PROVE  reporter[q].pc \notin Held
BY DEF Live

\* What the writers' steps say nothing about.
LEMMA NotWriting ==
  ASSUME NEW p \in Reporters, reporter[p].pc \notin Held \/ reporter[p].pc \in {"codex", "make", "retain"}
  PROVE  Writing(p)
BY DEF Writing, Held, UnderWay

\* The run under way goes on: it is enough that its own row and files are right.
LEMMA HolderGoesOn ==
  ASSUME \A q \in Reporters : Live(q) /\ Writing(q),
         NEW p \in Reporters, reporter[p].pc \in UnderWay, reporter'[p].pc \in Held,
         holder' = holder,
         \A q \in Reporters \ {p} : reporter'[q] = reporter[q],
         reporter'[p].pc \in UnderWay =>
           /\ reporter'[p].row \in DOMAIN rows'
           /\ rows'[reporter'[p].row].date = reporter'[p].date
           /\ rows'[reporter'[p].row].status = "running",
         Writing(p)'
  PROVE  \A q \in Reporters : Live(q)' /\ Writing(q)'
<1>1. Live(p)'
  BY DEF Live, Held
<1>2. ASSUME NEW q \in Reporters, q # p
      PROVE  Live(q)' /\ Writing(q)'
  <2>1. reporter[q].pc \notin Held
    BY <1>2, OneHolds DEF Held
  <2>2. reporter'[q].pc \notin Held
    BY <1>2, <2>1
  <2>3. holder' # q
    BY <1>2, <2>1 DEF Live
  <2> QED
    BY <2>2, <2>3 DEF Live, Writing, Held, UnderWay
<1> QED
  BY <1>1, <1>2

\* The run under way ends: the lock is free and nobody writes.
LEMMA HolderLeaves ==
  ASSUME \A q \in Reporters : Live(q) /\ Writing(q),
         NEW p \in Reporters, reporter[p].pc \in Held, reporter'[p].pc \notin Held,
         holder' = Nobody,
         \A q \in Reporters \ {p} : reporter'[q] = reporter[q]
  PROVE  \A q \in Reporters : Live(q)' /\ Writing(q)'
<1>1. ASSUME NEW q \in Reporters
      PROVE  reporter'[q].pc \notin Held
  BY <1>1, OneHolds
<1>2. Nobody \notin Reporters
  BY ReportAssumption DEF Nobody
<1> QED
  BY <1>1, <1>2 DEF Live, Writing, Held, UnderWay

\* Steps outside of the lock, and those of a run that touch neither rows nor
\* files, keep what is known of every process.
LEMMA OthersGoOn ==
  ASSUME \A q \in Reporters : Live(q) /\ Writing(q),
         Shapes, due' \in Dates, due' >= due,
         UNCHANGED <<rows, disk, undone, holder>>,
         \A q \in Reporters :
           \/ reporter'[q] = reporter[q]
           \/ reporter[q].pc \notin Held /\ reporter'[q].pc \notin Held
  PROVE  \A q \in Reporters : Live(q)' /\ Writing(q)'
<1> SUFFICES ASSUME NEW q \in Reporters
             PROVE  Live(q)' /\ Writing(q)'
  OBVIOUS
<1>1. CASE reporter'[q] = reporter[q]
  <2>1. Live(q)'
    BY <1>1 DEF Live
  <2>2. ASSUME NEW d \in Dates, Owed(d)'
        PROVE  Owed(d)
    BY <2>2, ReportAssumption DEF Owed, Expired, Successes, Shapes, Dates
  <2>3. reporter[q].date \in Dates
    BY DEF Shapes, Process
  <2>4. Writing(q)'
    BY <1>1, <2>2, <2>3 DEF Writing, Has, Whole, Covers, Successes
  <2> QED
    BY <2>1, <2>4
<1>2. CASE reporter[q].pc \notin Held /\ reporter'[q].pc \notin Held
  BY <1>2 DEF Live, Writing, Held, UnderWay
<1> QED
  BY <1>1, <1>2

\* A date whose files and successful rows stay is as it was; the reports made
\* are more, the dates expired and the roll backs that failed too.
LEMMA DateStays ==
  ASSUME NEW d \in Dates, Shapes, Stored(d),
         disk'[d] = disk[d], Successes(d)' = Successes(d),
         \A i \in Successes(d) : rows'[i].gen = rows[i].gen,
         due' \in Dates, due' >= due, undone \subseteq undone',
         Len(made') \in Nat, Len(made') >= Len(made), DOMAIN made \subseteq DOMAIN made'
  PROVE  Stored(d)'
<1>1. Owed(d)' => Owed(d)
  BY ReportAssumption DEF Owed, Expired, Shapes, Dates
<1>2. Len(made) \in Nat /\ disk[d].current \in Nat
  BY LenProperties DEF Shapes, Folder
<1>3. Covers(d, disk[d].current) => Covers(d, disk[d].current)'
  BY DEF Covers, Has
<1>4. /\ \A g \in disk'[d].gens : g.n \in DOMAIN made'
      /\ \A g, h \in disk'[d].gens : g.n = h.n => g = h
      /\ disk'[d].current <= Len(made')
  BY <1>2 DEF Stored
<1>5. Whole(d, disk[d].current)' /\ (Has(d, disk[d].current)' => disk'[d].links = Kinds)
  BY DEF Stored, Whole, Has
<1>6. Successes(d)' = {} \/ \E i \in Successes(d)' : \A j \in Successes(d)' : j <= i
  BY DEF Stored
<1>7. Owed(d)' => Covers(d, disk[d].current)'
  BY <1>1, <1>3 DEF Stored
<1> QED
  BY <1>4, <1>5, <1>6, <1>7 DEF Stored

\* Steps that touch neither rows nor files keep the whole invariant.
LEMMA FilesStay ==
  ASSUME Replacing, Shapes', due' >= due,
         UNCHANGED <<rows, disk, made, undone, holder>>,
         \A q \in Reporters :
           \/ reporter'[q] = reporter[q]
           \/ reporter[q].pc \notin Held /\ reporter'[q].pc \notin Held
  PROVE  Replacing'
<1>1. Shapes /\ RowsMade /\ due' \in Dates /\ Len(made) \in Nat
  BY LenProperties DEF Replacing, Shapes
<1>2. \A q \in Reporters : Live(q)' /\ Writing(q)'
  BY <1>1, OthersGoOn DEF Replacing
<1>3. ASSUME NEW d \in Dates
      PROVE  Stored(d)'
  <2>1. Stored(d)
    BY DEF Replacing
  <2>2. Successes(d)' = Successes(d)
    BY DEF Successes
  <2> QED
    BY <1>1, <2>1, <2>2, DateStays
<1> QED
  BY <1>1, <1>2, <1>3 DEF Replacing, RowsMade

-----------------------------------------------------------------------------
(* Steps outside of the lock. *)

\* What the archive's commands may do to its tree keeps it well-formed.
LEMMA ArchiveShape ==
  ASSUME NEW a \in Archive, NEW ahead \in Nat, NEW landed \in Nat,
         NEW behind \in Flag, NEW moved \in Flag
  PROVE  [a EXCEPT !.ahead = ahead, !.landed = landed, !.moved = moved,
                   !.behind = behind] \in Archive
BY DEF Archive

\* A step that moves only one process, outside of the lock, and the archive.
LEMMA OutsideStep ==
  ASSUME Replacing, NEW p \in Reporters, NEW x \in Process,
         reporter[p].pc \notin Held, x.pc \notin Held,
         reporter' = [reporter EXCEPT ![p] = x],
         archive' \in Archive, archive'.landed <= archive'.ahead,
         UNCHANGED <<due, rows, disk, made, undone, holder>>
  PROVE  Replacing'
<1>1. Shapes
  BY DEF Replacing
<1>2. /\ reporter' \in [Reporters -> Process] /\ reporter'[p] = x
      /\ \A q \in Reporters \ {p} : reporter'[q] = reporter[q]
  BY <1>1, OneMoves DEF Shapes
<1>3. Shapes'
  BY <1>1, <1>2 DEF Shapes
<1>4. due' >= due
  BY <1>1, ReportAssumption DEF Shapes, Dates
<1> QED
  BY <1>2, <1>3, <1>4, FilesStay

\* The same, of a step that only goes on.
LEMMA OutsideGoes ==
  ASSUME Replacing, NEW p \in Reporters, NEW s \in Steps \ Held,
         reporter[p].pc \notin Held, Goto(p, s),
         archive' \in Archive, archive'.landed <= archive'.ahead,
         UNCHANGED <<due, rows, disk, made, undone, holder>>
  PROVE  Replacing'
<1> DEFINE x == [reporter[p] EXCEPT !.pc = s]
<1>1. reporter[p] \in Process
  BY DEF Replacing, Shapes
<1>2. x \in Process /\ x.pc = s
  BY <1>1 DEF Process
<1>3. reporter' = [reporter EXCEPT ![p] = x]
  BY DEF Goto
<1> HIDE DEF x
<1> QED
  BY <1>2, <1>3, OutsideStep

\* The same, of a publication that ends.
LEMMA OutsideEnds ==
  ASSUME Replacing, NEW p \in Reporters, reporter[p].pc \notin Held, GiveUp(p),
         archive' \in Archive, archive'.landed <= archive'.ahead,
         UNCHANGED <<due, rows, disk, made, undone, holder>>
  PROVE  Replacing'
<1>1. Resting \in Process /\ Resting.pc \notin Held
  BY RestingProcess DEF Resting, Held, UnderWay
<1> HIDE DEF Resting
<1> QED
  BY <1>1, OutsideStep DEF GiveUp

\* A day passes.
LEMMA DayPassesStep ==
  ASSUME Replacing, DayPasses
  PROVE  Replacing'
<1>1. Shapes
  BY DEF Replacing
<1>2. due' \in Dates /\ due' >= due
  BY <1>1, ReportAssumption DEF Shapes, DayPasses, Dates
<1>3. Shapes'
  BY <1>1, <1>2 DEF Shapes, DayPasses
<1> QED
  BY <1>2, <1>3, FilesStay DEF DayPasses

\* Another clone pushes to the upstream.
LEMMA UpstreamMovesStep ==
  ASSUME Replacing, UpstreamMoves
  PROVE  Replacing'
<1>1. Shapes
  BY DEF Replacing
<1>2. archive' \in Archive /\ archive'.landed <= archive'.ahead
  BY <1>1 DEF Shapes, UpstreamMoves, Archive, Flag
<1>3. Shapes' /\ due' >= due
  BY <1>1, <1>2, ReportAssumption DEF Shapes, UpstreamMoves, Dates
<1> QED
  BY <1>3, FilesStay DEF UpstreamMoves

\* The scheduler takes its turn.
LEMMA ScheduleStep ==
  ASSUME Replacing, NEW p \in Reporters, Schedule(p)
  PROVE  Replacing'
<1> DEFINE next == IF IsComplete(due, TRUE) THEN "sync" ELSE "wait"
           x == [Resting EXCEPT !.date = due, !.skip = TRUE, !.pc = next]
<1>1. archive \in Archive /\ archive.landed <= archive.ahead /\ due \in Dates
  BY DEF Replacing, Shapes
<1>2. next \in {"sync", "wait"}
  OBVIOUS
<1>3. x \in Process /\ x.pc = next
  <2> HIDE DEF next
  <2> QED
    BY <1>1, <1>2, RestingProcess DEF Process, Steps, Flag
<1>4. x.pc \notin Held /\ reporter[p].pc \notin Held
  BY <1>2, <1>3 DEF Schedule, Held, UnderWay
<1>5. reporter' = [reporter EXCEPT ![p] = x]
  BY DEF Schedule
<1> HIDE DEF x
<1> QED
  BY <1>1, <1>3, <1>4, <1>5, OutsideStep DEF Schedule

\* An operator's command begins.
LEMMA CommandStep ==
  ASSUME Replacing, NEW p \in Reporters, NEW d \in Dates, NEW rules \in BOOLEAN,
         Command(p, d, rules)
  PROVE  Replacing'
<1> DEFINE x == [Resting EXCEPT !.date = d, !.rules = rules, !.pc = "wait"]
<1>1. archive \in Archive /\ archive.landed <= archive.ahead
  BY DEF Replacing, Shapes
<1>2. rules \in Flag
  BY DEF Flag
<1>3. x \in Process /\ x.pc = "wait"
  BY <1>2, RestingProcess DEF Process, Steps
<1>4. x.pc \notin Held /\ reporter[p].pc \notin Held
  BY <1>3 DEF Command, Held, UnderWay
<1>5. reporter' = [reporter EXCEPT ![p] = x]
  BY DEF Command
<1> HIDE DEF x
<1> QED
  BY <1>1, <1>3, <1>4, <1>5, OutsideStep DEF Command

\* The archive follows its upstream, or gives up.
LEMMA SyncUpstreamStep ==
  ASSUME Replacing, NEW p \in Reporters, SyncUpstream(p)
  PROVE  Replacing'
<1> DEFINE ahead == archive.ahead - archive.landed
           behind == archive.behind \/ archive.moved
           forward == behind /\ ~Dirty /\ ahead = 0
           still == behind /\ ~forward
<1>1. archive \in Archive /\ archive.landed <= archive.ahead
  BY DEF Replacing, Shapes
<1>2. ahead \in Nat /\ 0 \in Nat /\ archive.ahead \in Nat /\ archive.landed \in Nat
  BY <1>1 DEF Archive
<1>3. still \in Flag /\ FALSE \in Flag
  BY DEF Flag
<1>4. archive' = [archive EXCEPT !.ahead = ahead, !.landed = 0, !.moved = FALSE, !.behind = still]
  BY DEF SyncUpstream
<1>5. archive' \in Archive /\ archive'.landed <= archive'.ahead
  <2> HIDE DEF ahead, still
  <2>1. archive' \in Archive
    BY <1>1, <1>2, <1>3, <1>4, ArchiveShape
  <2>2. archive'.landed = 0 /\ archive'.ahead = ahead
    BY <1>1, <1>4 DEF Archive
  <2> QED
    BY <1>2, <2>1, <2>2
<1>6. GiveUp(p) \/ Goto(p, "json")
  BY DEF SyncUpstream
<1>7. /\ reporter[p].pc \notin Held /\ "json" \in Steps \ Held
      /\ UNCHANGED <<due, rows, disk, made, undone, holder>>
  BY DEF SyncUpstream, Held, UnderWay, Steps
<1> QED
  BY <1>5, <1>6, <1>7, OutsideGoes, OutsideEnds

\* A publication copies one of the report's files.
LEMMA CopyReportStep ==
  ASSUME Replacing, NEW p \in Reporters, NEW k \in Kinds, CopyReport(p, k)
  PROVE  Replacing'
<1> DEFINE g == Reads(reporter[p].date, k)
<1>1. /\ archive \in Archive /\ archive.landed <= archive.ahead
      /\ reporter[p] \in Process /\ disk \in [Dates -> Folder]
  BY DEF Replacing, Shapes
<1>2. reporter[p].date \in Dates
  BY <1>1 DEF Process
<1>3. g \in Nat
  BY <1>1, <1>2 DEF Reads, Folder, NoReport
<1>4. archive' \in Archive /\ archive'.landed <= archive'.ahead
  <2>1. CASE archive' = archive
    BY <1>1, <2>1
  <2>2. CASE archive' = [archive EXCEPT !.work[reporter[p].date][k] = g]
    <3> HIDE DEF g
    <3>1. archive.work \in Pairs
      BY <1>1 DEF Archive
    <3>2. [archive.work EXCEPT ![reporter[p].date][k] = g] \in Pairs
      BY <3>1, <1>2, <1>3 DEF Pairs, Kinds
    <3>3. archive' = [archive EXCEPT !.work = [archive.work EXCEPT ![reporter[p].date][k] = g]]
      BY <2>2, <1>1 DEF Archive
    <3> QED
      BY <1>1, <3>2, <3>3 DEF Archive
  <2> QED
    BY <2>1, <2>2 DEF CopyReport
<1>5. GiveUp(p) \/ Goto(p, "md") \/ Goto(p, "commit")
  BY DEF CopyReport
<1>6. /\ reporter[p].pc \notin Held /\ {"md", "commit"} \subseteq Steps \ Held
      /\ UNCHANGED <<due, rows, disk, made, undone, holder>>
  BY DEF CopyReport, Held, UnderWay, Steps, Kinds
<1> QED
  BY <1>4, <1>5, <1>6, OutsideGoes, OutsideEnds

\* A publication commits what it copied.
LEMMA CommitArchiveStep ==
  ASSUME Replacing, NEW p \in Reporters, CommitArchive(p)
  PROVE  Replacing'
<1>1. /\ archive \in Archive /\ archive.landed <= archive.ahead
      /\ reporter[p] \in Process
  BY DEF Replacing, Shapes
<1>2. reporter[p].date \in Dates
  BY <1>1 DEF Process
<1>3. archive' \in Archive /\ archive'.landed <= archive'.ahead
  <2>1. CASE archive' = archive
    BY <1>1, <2>1
  <2>2. CASE archive' = [archive EXCEPT !.head[reporter[p].date] = archive.work[reporter[p].date],
                                        !.ahead = @ + 1]
    <3> DEFINE h == [archive.head EXCEPT ![reporter[p].date] = archive.work[reporter[p].date]]
               a == [archive EXCEPT !.head = h]
    <3>1. h \in Pairs
      BY <1>1, <1>2 DEF Archive, Pairs
    <3>2. archive' = [a EXCEPT !.ahead = archive.ahead + 1]
      BY <2>2
    <3> HIDE DEF h
    <3>3. a \in Archive /\ a.ahead = archive.ahead /\ a.landed = archive.landed
      BY <1>1, <3>1 DEF Archive
    <3> HIDE DEF a
    <3> QED
      BY <1>1, <3>2, <3>3 DEF Archive
  <2> DEFINE d == reporter[p].date
             commits == archive.work[d] # archive.head[d] /\ ~archive.behind
  <2>3. archive' = IF commits
                   THEN [archive EXCEPT !.head[d] = archive.work[d], !.ahead = @ + 1]
                   ELSE archive
    BY DEF CommitArchive
  <2> HIDE DEF commits
  <2> QED
    BY <2>1, <2>2, <2>3
<1>4. GiveUp(p) \/ Goto(p, "push")
  BY DEF CommitArchive
<1>5. /\ reporter[p].pc \notin Held /\ "push" \in Steps \ Held
      /\ UNCHANGED <<due, rows, disk, made, undone, holder>>
  BY DEF CommitArchive, Held, UnderWay, Steps
<1> QED
  BY <1>3, <1>4, <1>5, OutsideGoes, OutsideEnds

\* A publication pushes, or is refused.
LEMMA PushStep ==
  ASSUME Replacing, NEW p \in Reporters, Push(p)
  PROVE  Replacing'
<1>1. archive \in Archive /\ archive.landed <= archive.ahead
  BY DEF Replacing, Shapes
<1>2. archive' \in Archive /\ archive'.landed <= archive'.ahead
  <2>1. CASE archive' = archive
    BY <1>1, <2>1
  <2>2. CASE archive' = [archive EXCEPT !.ahead = 0, !.landed = 0]
    <3> DEFINE a == [archive EXCEPT !.ahead = 0]
    <3>1. a \in Archive /\ a.ahead = 0
      BY <1>1 DEF Archive
    <3>2. archive' = [a EXCEPT !.landed = 0]
      BY <2>2
    <3> HIDE DEF a
    <3> QED
      BY <3>1, <3>2 DEF Archive
  <2> DEFINE lands == archive.ahead > 0 /\ ~archive.behind /\ ~archive.moved
  <2>3. archive' = IF lands THEN [archive EXCEPT !.ahead = 0, !.landed = 0] ELSE archive
    BY DEF Push
  <2> HIDE DEF lands
  <2> QED
    BY <2>1, <2>2, <2>3
<1> QED
  BY <1>2, OutsideEnds DEF Push, Held, UnderWay

\* A git command fails.
LEMMA GitFailsStep ==
  ASSUME Replacing, NEW p \in Reporters, GitFails(p)
  PROVE  Replacing'
<1>1. archive \in Archive /\ archive.landed <= archive.ahead
  BY DEF Replacing, Shapes
<1>2. archive' \in Archive /\ archive'.landed <= archive'.ahead
  <2>1. CASE archive' = archive
    BY <1>1, <2>1
  <2>2. CASE archive' = [archive EXCEPT !.landed = archive.ahead]
    BY <1>1, <2>2 DEF Archive
  <2> QED
    BY <2>1, <2>2 DEF GitFails
<1> QED
  BY <1>2, OutsideEnds DEF GitFails, Held, UnderWay

-----------------------------------------------------------------------------
(* Steps under the lock. *)

\* A run that is marked failed was not successful, and no report is touched.
LEMMA FailedRow ==
  ASSUME Shapes, NEW p \in Reporters, Live(p), reporter[p].pc \in UnderWay,
         rows' = [rows EXCEPT ![reporter[p].row].status = "failed"]
  PROVE  /\ rows' \in Seq(Row) /\ DOMAIN rows' = DOMAIN rows
         /\ \A i \in DOMAIN rows : rows'[i].gen = rows[i].gen
         /\ \A d \in Dates : Successes(d)' = Successes(d)
<1> DEFINE i == reporter[p].row
           x == [rows[i] EXCEPT !.status = "failed"]
<1>1. rows \in Seq(Row) /\ i \in DOMAIN rows /\ rows[i].status = "running"
  BY DEF Shapes, Live
<1>2. rows[i] \in Row
  BY <1>1, RowsAre
<1>3. /\ x \in Row /\ x.gen = rows[i].gen /\ x.status = "failed"
  BY <1>2 DEF Row, Statuses
<1>4. rows' = [rows EXCEPT ![i] = x]
  OBVIOUS
<1> HIDE DEF x, i
<1>5. /\ rows' \in Seq(Row) /\ DOMAIN rows' = DOMAIN rows /\ rows'[i] = x
      /\ \A j \in DOMAIN rows \ {i} : rows'[j] = rows[j]
  BY <1>1, <1>3, <1>4, RowChanged
<1> QED
  BY <1>1, <1>3, <1>5 DEF Successes

\* The run under way ends or dies: its row is failed or left, the lock free.
LEMMA Released ==
  ASSUME Replacing, NEW p \in Reporters, reporter[p].pc \in Held,
         holder' = Nobody, reporter' = [reporter EXCEPT ![p] = Resting],
         UNCHANGED <<due, made, archive>>,
         \/ UNCHANGED rows
         \/ /\ reporter[p].pc \in UnderWay
            /\ rows' = [rows EXCEPT ![reporter[p].row].status = "failed"],
         disk' \in [Dates -> Folder], undone' \in SUBSET Dates, undone \subseteq undone',
         \A d \in Dates : disk'[d] # disk[d] => Stored(d)'
  PROVE  Replacing'
<1>1. /\ Shapes /\ RowsMade /\ Live(p)
      /\ \A q \in Reporters : Live(q) /\ Writing(q)
  BY DEF Replacing
<1>2. /\ reporter' \in [Reporters -> Process] /\ reporter'[p] = Resting
      /\ \A q \in Reporters \ {p} : reporter'[q] = reporter[q]
  BY <1>1, OneMoves, RestingProcess DEF Shapes
<1>3. \A q \in Reporters : Live(q)' /\ Writing(q)'
  <2>1. reporter'[p].pc \notin Held
    BY <1>2 DEF Resting, Held, UnderWay
  <2> QED
    BY <1>1, <1>2, <2>1, HolderLeaves
<1>4. /\ rows' \in Seq(Row) /\ DOMAIN rows' = DOMAIN rows
      /\ \A i \in DOMAIN rows : rows'[i].gen = rows[i].gen
      /\ \A d \in Dates : Successes(d)' = Successes(d)
  <2>1. CASE UNCHANGED rows
    BY <1>1, <2>1 DEF Shapes, Successes
  <2> QED
    BY <1>1, <2>1, FailedRow
<1>5. Shapes' /\ Len(made) \in Nat
  BY <1>1, <1>2, <1>4, LenProperties DEF Shapes, Nobody
<1>6. RowsMade'
  BY <1>1, <1>4 DEF RowsMade
<1>7. ASSUME NEW d \in Dates, disk'[d] = disk[d]
      PROVE  Stored(d)'
  <2>1. Stored(d) /\ due' \in Dates /\ due' >= due
    BY <1>5, ReportAssumption DEF Replacing, Shapes, Dates
  <2>2. \A i \in Successes(d) : rows'[i].gen = rows[i].gen
    BY <1>4 DEF Successes
  <2> QED
    BY <1>1, <1>4, <1>5, <1>7, <2>1, <2>2, DateStays
<1> QED
  BY <1>3, <1>5, <1>6, <1>7 DEF Replacing

\* The run under way goes on with its date d: it is enough that the files of the
\* date and what the run has done of them are right.
LEMMA GoesOn ==
  ASSUME Replacing, NEW p \in Reporters, NEW x \in Process, NEW d \in Dates,
         reporter[p].pc \in UnderWay, reporter[p].date = d,
         reporter' = [reporter EXCEPT ![p] = x],
         x.pc \in UnderWay, x.row = reporter[p].row, x.date = d,
         UNCHANGED <<due, rows, undone, holder, archive>>,
         made' \in Seq([date : Dates, mode : {"rules_only", "codex"}, due : Dates]),
         Len(made') >= Len(made), DOMAIN made \subseteq DOMAIN made',
         disk' \in [Dates -> Folder], \A e \in Dates \ {d} : disk'[e] = disk[e],
         Stored(d)', reporter'[p] = x => Writing(p)'
  PROVE  Replacing'
<1>1. /\ Shapes /\ RowsMade /\ Live(p)
      /\ \A q \in Reporters : Live(q) /\ Writing(q)
  BY DEF Replacing
<1>2. /\ reporter' \in [Reporters -> Process] /\ reporter'[p] = x
      /\ \A q \in Reporters \ {p} : reporter'[q] = reporter[q]
  BY <1>1, OneMoves DEF Shapes
<1>3. \A q \in Reporters : Live(q)' /\ Writing(q)'
  <2>1. reporter'[p].pc \in Held
    BY <1>2 DEF Held
  <2>2. /\ reporter'[p].row \in DOMAIN rows'
        /\ rows'[reporter'[p].row].date = reporter'[p].date
        /\ rows'[reporter'[p].row].status = "running"
    BY <1>1, <1>2 DEF Live
  <2> QED
    BY <1>1, <1>2, <2>1, <2>2, HolderGoesOn
<1>4. Shapes' /\ Len(made) \in Nat /\ Len(made') \in Nat
  BY <1>1, <1>2, LenProperties DEF Shapes
<1>5. RowsMade'
  <2> SUFFICES ASSUME NEW i \in DOMAIN rows
               PROVE  rows[i].gen <= Len(made')
    BY DEF RowsMade
  <2>1. rows[i] \in Row
    BY <1>1, RowsAre DEF Shapes
  <2> QED
    BY <1>1, <1>4, <2>1 DEF RowsMade, Row
<1>6. ASSUME NEW e \in Dates, e # d
      PROVE  Stored(e)'
  <2>1. Stored(e) /\ due' \in Dates /\ due' >= due /\ disk'[e] = disk[e]
    BY <1>4, <1>6, ReportAssumption DEF Replacing, Shapes, Dates
  <2>2. Successes(e)' = Successes(e) /\ undone \subseteq undone'
    BY DEF Successes
  <2> QED
    BY <1>1, <1>4, <2>1, <2>2, DateStays
<1> QED
  BY <1>3, <1>4, <1>5, <1>6 DEF Replacing

\* The same, of a step that touches no files.
LEMMA GoesOnOnly ==
  ASSUME Replacing, NEW p \in Reporters, NEW x \in Process,
         reporter[p].pc = "codex", x.pc \in {"codex", "make"},
         x.row = reporter[p].row, x.date = reporter[p].date,
         reporter' = [reporter EXCEPT ![p] = x],
         UNCHANGED <<due, rows, disk, made, undone, holder, archive>>
  PROVE  Replacing'
<1>1. PICK d : d = reporter[p].date
  OBVIOUS
<1>2. Shapes /\ d \in Dates /\ Stored(d) /\ Len(made) \in Nat
  BY <1>1, LenProperties DEF Replacing, Shapes, Process
<1>3. Stored(d)'
  BY <1>2 DEF Stored, Has, Whole, Covers, Owed, Successes, Expired
<1>4. reporter'[p] = x => Writing(p)'
  BY DEF Writing
<1>5. reporter[p].pc \in UnderWay /\ x.pc \in UnderWay
  BY DEF UnderWay
<1>6. /\ made' \in Seq([date : Dates, mode : {"rules_only", "codex"}, due : Dates])
      /\ Len(made') >= Len(made) /\ DOMAIN made \subseteq DOMAIN made'
      /\ disk' \in [Dates -> Folder] /\ \A e \in Dates \ {d} : disk'[e] = disk[e]
  BY <1>2 DEF Shapes
<1> HIDE DEF Shapes, Stored, Writing
<1> QED
  BY <1>1, <1>2, <1>3, <1>4, <1>5, <1>6, GoesOn

\* Codex has answered.
LEMMA AnalyseStep ==
  ASSUME Replacing, NEW p \in Reporters, Analyse(p)
  PROVE  Replacing'
<1> DEFINE x == [reporter[p] EXCEPT !.pc = "make"]
<1>1. reporter[p] \in Process
  BY DEF Replacing, Shapes
<1>2. x \in Process /\ x.pc = "make" /\ x.row = reporter[p].row /\ x.date = reporter[p].date
  BY <1>1 DEF Process, Steps, UnderWay
<1>3. reporter' = [reporter EXCEPT ![p] = x]
  BY DEF Analyse, Goto
<1> HIDE DEF x
<1> QED
  BY <1>2, <1>3, GoesOnOnly DEF Analyse

\* An attempt of Codex fails: another one, or the run's end.
LEMMA AttemptFailsStep ==
  ASSUME Replacing, NEW p \in Reporters, AttemptFails(p)
  PROVE  Replacing'
<1>1. CASE Fail(p)
  <2>1. /\ disk' \in [Dates -> Folder] /\ undone' \in SUBSET Dates /\ disk' = disk
    BY DEF Replacing, Shapes, AttemptFails
  <2> QED
    BY <1>1, <2>1, Released DEF AttemptFails, Fail, Held, UnderWay
<1>2. CASE reporter' = [reporter EXCEPT ![p].attempt = @ + 1] /\ UNCHANGED <<rows, holder>>
  <2> DEFINE x == [reporter[p] EXCEPT !.attempt = @ + 1]
  <2>1. reporter[p] \in Process
    BY DEF Replacing, Shapes
  <2>2. x \in Process /\ x.pc = reporter[p].pc /\ x.row = reporter[p].row /\ x.date = reporter[p].date
    BY <2>1 DEF Process
  <2>3. reporter' = [reporter EXCEPT ![p] = x]
    BY <1>2
  <2> HIDE DEF x
  <2> QED
    BY <1>2, <2>2, <2>3, GoesOnOnly DEF AttemptFails
<1> QED
  BY <1>1, <1>2 DEF AttemptFails

-----------------------------------------------------------------------------
(* The replacement of a report. *)

\* Of a writer's date, nothing that is recorded changes.
LEMMA RecordsStay ==
  ASSUME NEW d \in Dates, UNCHANGED <<due, rows, undone>>
  PROVE  /\ Successes(d)' = Successes(d) /\ Owed(d)' = Owed(d)
         /\ \A i \in Successes(d) : rows'[i].gen = rows[i].gen
BY DEF Successes, Owed, Expired

\* A new generation is begun in a directory of its own.
LEMMA MakeGenerationStep ==
  ASSUME Replacing, NEW p \in Reporters, MakeGeneration(p)
  PROVE  Replacing'
<1>1. PICK d : d = reporter[p].date
  OBVIOUS
<1>2. PICK n : n = Len(made) + 1
  OBVIOUS
<1>3. PICK x : x = [reporter[p] EXCEPT !.gen = n, !.prev = disk[d].current, !.pc = "fill"]
  OBVIOUS
<1>4. PICK m : m = [date |-> d, mode |-> IF reporter[p].rules THEN "rules_only" ELSE "codex",
                    due |-> due]
  OBVIOUS
<1>5. /\ Shapes /\ d \in Dates /\ Stored(d) /\ Len(made) \in Nat /\ disk[d] \in Folder
      /\ DOMAIN made = 1..Len(made) /\ reporter[p] \in Process
  BY <1>1, LenProperties DEF Replacing, Shapes, Process
<1>6. n \in Nat /\ disk[d].current \in Nat /\ disk[d].current <= Len(made)
  BY <1>2, <1>5 DEF Folder, Stored
<1>7. /\ x \in Process /\ x.pc = "fill" /\ x.gen = n /\ x.prev = disk[d].current
      /\ x.date = d /\ x.row = reporter[p].row
  BY <1>1, <1>3, <1>5, <1>6 DEF Process, Steps, UnderWay
<1>8. /\ made' \in Seq([date : Dates, mode : {"rules_only", "codex"}, due : Dates])
      /\ Len(made') = n /\ DOMAIN made' = DOMAIN made \cup {n}
  <2>1. m \in [date : Dates, mode : {"rules_only", "codex"}, due : Dates]
    BY <1>4, <1>5 DEF Shapes
  <2>2. made' = Append(made, m)
    BY <1>1, <1>4 DEF MakeGeneration
  <2>3. made \in Seq([date : Dates, mode : {"rules_only", "codex"}, due : Dates])
    BY <1>5 DEF Shapes
  <2> QED
    BY <1>2, <2>1, <2>2, <2>3, RowAdded
<1> DEFINE new == [n |-> n, files |-> {}]
<1>a. new \in Generation /\ new.n = n
  BY <1>6 DEF Generation
<1>9. /\ disk' \in [Dates -> Folder] /\ \A e \in Dates \ {d} : disk'[e] = disk[e]
      /\ disk'[d].gens = disk[d].gens \cup {new}
      /\ disk'[d].current = disk[d].current /\ disk'[d].links = disk[d].links
  <2>1. disk' = [disk EXCEPT ![d].gens = @ \cup {new}]
    BY <1>1, <1>2 DEF MakeGeneration
  <2> HIDE DEF new
  <2> QED
    BY <1>5, <1>a, <2>1 DEF Shapes, Folder
<1> HIDE DEF new
<1>10. Stored(d)'
  <2>1. /\ Successes(d)' = Successes(d) /\ Owed(d)' = Owed(d)
        /\ \A i \in Successes(d) : rows'[i].gen = rows[i].gen
    BY <1>5, RecordsStay DEF MakeGeneration
  <2>2. disk[d].current # n /\ n \notin DOMAIN made
    BY <1>2, <1>5, <1>6
  <2>3. Has(d, disk[d].current)' => Has(d, disk[d].current)
    BY <1>9, <1>a, <2>2 DEF Has
  <2>4. Whole(d, disk[d].current)'
    BY <1>5, <1>9, <1>a, <2>2 DEF Whole, Stored
  <2>5. Covers(d, disk[d].current) => Covers(d, disk[d].current)'
    BY <1>9, <2>1 DEF Covers, Has
  <2>6. /\ \A g \in disk'[d].gens : g.n \in DOMAIN made'
        /\ \A g, h \in disk'[d].gens : g.n = h.n => g = h
        /\ disk'[d].current <= Len(made')
    BY <1>2, <1>5, <1>6, <1>8, <1>9, <1>a, <2>2 DEF Stored
  <2>7. Has(d, disk[d].current)' => disk'[d].links = Kinds
    BY <1>5, <1>9, <2>3 DEF Stored
  <2>8. Successes(d)' = {} \/ \E i \in Successes(d)' : \A j \in Successes(d)' : j <= i
    BY <1>5, <2>1 DEF Stored
  <2>9. Owed(d)' => Covers(d, disk[d].current)'
    BY <1>5, <2>1, <2>5 DEF Stored
  <2> QED
    BY <2>4, <2>6, <2>7, <2>8, <2>9 DEF Stored
<1>11. reporter'[p] = x => Writing(p)'
  <2> SUFFICES ASSUME reporter'[p] = x
               PROVE  Writing(p)'
    OBVIOUS
  <2>1. \E g \in disk'[d].gens : g.n = n
    BY <1>9, <1>a
  <2>2. n > x.prev /\ disk'[d].current = x.prev
    BY <1>2, <1>6, <1>7, <1>9
  <2> QED
    BY <1>7, <2>1, <2>2 DEF Writing, Has
<1>12. /\ reporter[p].pc \in UnderWay /\ x.pc \in UnderWay
       /\ reporter' = [reporter EXCEPT ![p] = x]
       /\ UNCHANGED <<due, rows, undone, holder, archive>>
  BY <1>1, <1>2, <1>3, <1>7 DEF MakeGeneration, UnderWay
<1>13. Len(made') >= Len(made) /\ DOMAIN made \subseteq DOMAIN made'
  BY <1>2, <1>5, <1>8
<1> QED
  BY <1>1, <1>5, <1>7, <1>8, <1>9, <1>10, <1>11, <1>12, <1>13, GoesOn

\* The same as GoesOn, of the steps that make no report and only go on.
LEMMA GoesOnTo ==
  ASSUME Replacing, NEW p \in Reporters, NEW s \in UnderWay, NEW d \in Dates,
         reporter[p].pc \in UnderWay, reporter[p].date = d, Goto(p, s),
         UNCHANGED <<due, rows, made, undone, holder, archive>>,
         disk' \in [Dates -> Folder], \A e \in Dates \ {d} : disk'[e] = disk[e],
         Stored(d)',
         reporter'[p].pc = s /\ reporter'[p].date = d
           /\ reporter'[p].gen = reporter[p].gen /\ reporter'[p].prev = reporter[p].prev
           => Writing(p)'
  PROVE  Replacing'
<1>1. PICK x : x = [reporter[p] EXCEPT !.pc = s]
  OBVIOUS
<1>2. Shapes /\ reporter[p] \in Process /\ Len(made) \in Nat
  BY LenProperties DEF Replacing, Shapes
<1>3. /\ x \in Process /\ x.pc = s /\ x.date = d /\ x.row = reporter[p].row
      /\ x.gen = reporter[p].gen /\ x.prev = reporter[p].prev
  BY <1>1, <1>2 DEF Process, Steps
<1>4. reporter' = [reporter EXCEPT ![p] = x]
  BY <1>1 DEF Goto
<1>5. reporter'[p] = x => Writing(p)'
  BY <1>3
<1>6. /\ made' \in Seq([date : Dates, mode : {"rules_only", "codex"}, due : Dates])
      /\ Len(made') >= Len(made) /\ DOMAIN made \subseteq DOMAIN made'
  BY <1>2 DEF Shapes
<1> QED
  BY <1>3, <1>4, <1>5, <1>6, GoesOn

\* A file of the generation is written; nothing points to it yet.
LEMMA FillStep ==
  ASSUME Replacing, NEW p \in Reporters, NEW k \in Kinds, Fill(p, k)
  PROVE  Replacing'
<1>1. PICK d : d = reporter[p].date
  OBVIOUS
<1>2. PICK n : n = reporter[p].gen
  OBVIOUS
<1>3. PICK g : g = CHOOSE h \in disk[d].gens : h.n = n
  OBVIOUS
<1>4. PICK new : new = [g EXCEPT !.files = @ \cup {k}]
  OBVIOUS
<1>5. /\ Shapes /\ d \in Dates /\ Stored(d) /\ disk[d] \in Folder /\ Writing(p)
      /\ reporter[p] \in Process /\ reporter[p].pc = "fill" /\ n \in Nat
  BY <1>1, <1>2 DEF Replacing, Shapes, Process, Fill
<1>6. /\ Has(d, n) /\ reporter[p].prev < n /\ disk[d].current = reporter[p].prev
      /\ reporter[p].prev \in Nat
  BY <1>1, <1>2, <1>5 DEF Writing, Process
<1>7. g \in disk[d].gens /\ g.n = n /\ g \in Generation
  BY <1>3, <1>5, <1>6 DEF Has, Folder
<1>8. new \in Generation /\ new.n = n /\ new.files = g.files \cup {k}
  BY <1>4, <1>7 DEF Generation
<1>9. /\ disk' \in [Dates -> Folder] /\ \A e \in Dates \ {d} : disk'[e] = disk[e]
      /\ disk'[d].gens = {h \in disk[d].gens : h.n # n} \cup {new}
      /\ disk'[d].current = disk[d].current /\ disk'[d].links = disk[d].links
  <2>1. disk' = [disk EXCEPT ![d].gens = {h \in disk[d].gens : h.n # n} \cup {new}]
    BY <1>1, <1>2, <1>3, <1>4, <1>5 DEF Fill, Without, Shapes, Folder
  <2> QED
    BY <1>5, <1>8, <2>1 DEF Shapes, Folder
<1>10. /\ UNCHANGED <<due, rows, made, undone, holder, archive>>
       /\ Goto(p, IF k = "md" THEN "link" ELSE "fill")
       /\ k = "md" => "json" \in g.files
  BY <1>1, <1>2, <1>3 DEF Fill
<1>11. Stored(d)'
  <2>1. /\ Successes(d)' = Successes(d) /\ Owed(d)' = Owed(d)
        /\ \A i \in Successes(d) : rows'[i].gen = rows[i].gen
    BY <1>5, <1>10, RecordsStay
  <2>2. disk[d].current # n
    BY <1>5, <1>6
  <2>3. Has(d, disk[d].current)' => Has(d, disk[d].current)
    BY <1>8, <1>9, <2>2 DEF Has
  <2>4. Whole(d, disk[d].current)'
    BY <1>5, <1>8, <1>9, <2>2 DEF Whole, Stored
  <2>5. Covers(d, disk[d].current) => Covers(d, disk[d].current)'
    BY <1>9, <2>1, <2>2 DEF Covers, Has
  <2>6. /\ \A h \in disk'[d].gens : h.n \in DOMAIN made'
        /\ \A h, i \in disk'[d].gens : h.n = i.n => h = i
        /\ disk'[d].current <= Len(made')
    BY <1>5, <1>7, <1>8, <1>9, <1>10 DEF Stored
  <2>7. Has(d, disk[d].current)' => disk'[d].links = Kinds
    BY <1>5, <1>9, <2>3 DEF Stored
  <2>8. Successes(d)' = {} \/ \E i \in Successes(d)' : \A j \in Successes(d)' : j <= i
    BY <1>5, <2>1 DEF Stored
  <2>9. Owed(d)' => Covers(d, disk[d].current)'
    BY <1>5, <2>1, <2>5 DEF Stored
  <2> QED
    BY <2>4, <2>6, <2>7, <2>8, <2>9 DEF Stored
<1>12. PICK s : s = IF k = "md" THEN "link" ELSE "fill"
  OBVIOUS
<1>13. reporter'[p].pc = s /\ reporter'[p].date = d
         /\ reporter'[p].gen = reporter[p].gen /\ reporter'[p].prev = reporter[p].prev
         => Writing(p)'
  <2> SUFFICES ASSUME reporter'[p].pc = s, reporter'[p].date = d,
                      reporter'[p].gen = n, reporter'[p].prev = reporter[p].prev
               PROVE  Writing(p)'
    BY <1>2
  <2>1. \E h \in disk'[d].gens : h.n = n
    BY <1>8, <1>9
  <2>2. s = "link" => \A h \in disk'[d].gens : h.n = n => h.files = Kinds
    <3>1. ASSUME s = "link"
          PROVE  new.files = Kinds
      BY <3>1, <1>7, <1>8, <1>10, <1>12 DEF Kinds, Generation
    <3> QED
      BY <1>9, <3>1
  <2>3. s \in {"fill", "link"}
    BY <1>12
  <2> QED
    BY <1>6, <1>9, <2>1, <2>2, <2>3 DEF Writing, Has, Whole
<1>14. s \in UnderWay /\ reporter[p].pc \in UnderWay /\ Goto(p, s)
  BY <1>5, <1>10, <1>12 DEF UnderWay
<1> QED
  BY <1>1, <1>5, <1>9, <1>10, <1>11, <1>13, <1>14, GoesOnTo

\* A stable link is there; it led to this date's pointer before if it was.
LEMMA LinkReportStep ==
  ASSUME Replacing, NEW p \in Reporters, NEW k \in Kinds, LinkReport(p, k)
  PROVE  Replacing'
<1>1. PICK d : d = reporter[p].date
  OBVIOUS
<1>2. /\ Shapes /\ d \in Dates /\ Stored(d) /\ disk[d] \in Folder /\ Writing(p)
      /\ reporter[p] \in Process /\ reporter[p].pc = "link"
  BY <1>1 DEF Replacing, Shapes, Process, LinkReport
<1>3. /\ disk' \in [Dates -> Folder] /\ \A e \in Dates \ {d} : disk'[e] = disk[e]
      /\ disk'[d].links = disk[d].links \cup {k}
      /\ disk'[d].current = disk[d].current /\ disk'[d].gens = disk[d].gens
  BY <1>1, <1>2 DEF LinkReport, Shapes, Folder
<1>4. /\ UNCHANGED <<due, rows, made, undone, holder, archive>>
      /\ Goto(p, IF k = "md" THEN "switch" ELSE "link")
      /\ k = "md" => "json" \in disk[d].links
  BY <1>1 DEF LinkReport
<1>5. Stored(d)'
  <2>1. /\ Successes(d)' = Successes(d) /\ Owed(d)' = Owed(d)
        /\ \A i \in Successes(d) : rows'[i].gen = rows[i].gen
    BY <1>2, <1>4, RecordsStay
  <2>2. Has(d, disk[d].current)' => disk'[d].links = Kinds
    BY <1>2, <1>3 DEF Stored, Has
  <2>3. Whole(d, disk[d].current)'
    BY <1>2, <1>3 DEF Stored, Whole
  <2>4. Owed(d)' => Covers(d, disk[d].current)'
    BY <1>2, <1>3, <2>1 DEF Stored, Covers, Has
  <2>5. /\ \A h \in disk'[d].gens : h.n \in DOMAIN made'
        /\ \A h, i \in disk'[d].gens : h.n = i.n => h = i
        /\ disk'[d].current <= Len(made')
    BY <1>2, <1>3, <1>4 DEF Stored
  <2>6. Successes(d)' = {} \/ \E i \in Successes(d)' : \A j \in Successes(d)' : j <= i
    BY <1>2, <2>1 DEF Stored
  <2> QED
    BY <2>2, <2>3, <2>4, <2>5, <2>6 DEF Stored
<1>6. PICK s : s = IF k = "md" THEN "switch" ELSE "link"
  OBVIOUS
<1>7. reporter'[p].pc = s /\ reporter'[p].date = d
        /\ reporter'[p].gen = reporter[p].gen /\ reporter'[p].prev = reporter[p].prev
        => Writing(p)'
  <2>1. s = "switch" => disk'[d].links = Kinds
    BY <1>2, <1>3, <1>4, <1>6 DEF Kinds, Folder
  <2>2. s \in {"link", "switch"}
    BY <1>6
  <2> SUFFICES ASSUME reporter'[p].pc = s, reporter'[p].date = d,
                      reporter'[p].gen = reporter[p].gen,
                      reporter'[p].prev = reporter[p].prev
               PROVE  Writing(p)'
    OBVIOUS
  <2>3. /\ \E g \in disk'[d].gens : g.n = reporter[p].gen
        /\ \A g \in disk'[d].gens : g.n = reporter[p].gen => g.files = Kinds
        /\ reporter[p].prev < reporter[p].gen /\ disk'[d].current = reporter[p].prev
    BY <1>1, <1>2, <1>3 DEF Writing, Has, Whole
  <2> QED
    BY <2>1, <2>2, <2>3 DEF Writing, Has, Whole
<1>8. s \in UnderWay /\ reporter[p].pc \in UnderWay /\ Goto(p, s)
  BY <1>2, <1>4, <1>6 DEF UnderWay
<1> QED
  BY <1>1, <1>2, <1>3, <1>4, <1>5, <1>7, <1>8, GoesOnTo

\* The pointer moves: from here on readers have the new report.
LEMMA SwitchPointerStep ==
  ASSUME Replacing, NEW p \in Reporters, SwitchPointer(p)
  PROVE  Replacing'
<1>1. PICK d : d = reporter[p].date
  OBVIOUS
<1>2. PICK n : n = reporter[p].gen
  OBVIOUS
<1>3. /\ Shapes /\ d \in Dates /\ Stored(d) /\ disk[d] \in Folder /\ Writing(p)
      /\ reporter[p] \in Process /\ reporter[p].pc = "switch" /\ n \in Nat
      /\ reporter[p].prev \in Nat
  BY <1>1, <1>2 DEF Replacing, Shapes, Process, SwitchPointer
<1>4. /\ Has(d, n) /\ reporter[p].prev < n /\ disk[d].current = reporter[p].prev
      /\ Whole(d, n) /\ disk[d].links = Kinds
  BY <1>1, <1>2, <1>3 DEF Writing
<1>5. /\ disk' \in [Dates -> Folder] /\ \A e \in Dates \ {d} : disk'[e] = disk[e]
      /\ disk'[d].links = disk[d].links
      /\ disk'[d].current = n /\ disk'[d].gens = disk[d].gens
  BY <1>1, <1>2, <1>3 DEF SwitchPointer, Shapes, Folder
<1>6. UNCHANGED <<due, rows, made, undone, holder, archive>> /\ Goto(p, "settle")
  BY DEF SwitchPointer
<1>7. /\ Successes(d)' = Successes(d) /\ Owed(d)' = Owed(d)
      /\ \A i \in Successes(d) : rows'[i].gen = rows[i].gen
  BY <1>3, <1>6, RecordsStay
<1>8. Owed(d) => \A i \in Successes(d) : rows[i].gen <= reporter[p].prev
  BY <1>3, <1>4 DEF Stored, Covers
<1>9. \A i \in Successes(d) : rows[i].gen \in Nat
  <2>1. \A i \in DOMAIN rows : rows[i] \in Row
    BY <1>3, RowsAre DEF Shapes
  <2> QED
    BY <2>1 DEF Successes, Row
<1>10. Stored(d)'
  <2>1. Whole(d, disk[d].current)' /\ disk'[d].links = Kinds
    BY <1>4, <1>5 DEF Whole
  <2>2. Owed(d)' => Covers(d, disk[d].current)'
    BY <1>3, <1>4, <1>5, <1>7, <1>8, <1>9 DEF Covers, Has
  <2>3. n \in DOMAIN made /\ DOMAIN made = 1..Len(made) /\ Len(made) \in Nat
    BY <1>3, <1>4, LenProperties DEF Stored, Has, Shapes
  <2>4. /\ \A h \in disk'[d].gens : h.n \in DOMAIN made'
        /\ \A h, i \in disk'[d].gens : h.n = i.n => h = i
        /\ disk'[d].current <= Len(made')
    BY <1>3, <1>5, <1>6, <2>3 DEF Stored
  <2>5. Successes(d)' = {} \/ \E i \in Successes(d)' : \A j \in Successes(d)' : j <= i
    BY <1>3, <1>7 DEF Stored
  <2> QED
    BY <2>1, <2>2, <2>4, <2>5 DEF Stored
<1>11. reporter'[p].pc = "settle" /\ reporter'[p].date = d
         /\ reporter'[p].gen = reporter[p].gen /\ reporter'[p].prev = reporter[p].prev
         => Writing(p)'
  <2> SUFFICES ASSUME reporter'[p].pc = "settle", reporter'[p].date = d,
                      reporter'[p].gen = n, reporter'[p].prev = reporter[p].prev
               PROVE  Writing(p)'
    BY <1>2
  <2>1. \A h \in disk'[d].gens : h.n = reporter[p].prev => h.files = Kinds
    BY <1>3, <1>4, <1>5 DEF Stored, Whole
  <2>2. Owed(d)' => Covers(d, reporter[p].prev)
    BY <1>3, <1>4, <1>7 DEF Stored
  <2>3. Owed(d)' => Covers(d, reporter[p].prev)'
    BY <1>5, <1>7, <2>2 DEF Covers, Has
  <2>4. /\ \E h \in disk'[d].gens : h.n = n
        /\ \A h \in disk'[d].gens : h.n = n => h.files = Kinds
    BY <1>4, <1>5 DEF Has, Whole
  <2> QED
    BY <1>4, <1>5, <2>1, <2>3, <2>4 DEF Writing, Has, Whole
<1>12. "settle" \in UnderWay /\ reporter[p].pc \in UnderWay
  BY <1>3 DEF UnderWay
<1> QED
  BY <1>1, <1>3, <1>5, <1>6, <1>10, <1>11, <1>12, GoesOnTo

\* The older generations are removed; the pointer's is not among them.
LEMMA SettleStep ==
  ASSUME Replacing, NEW p \in Reporters, Settle(p)
  PROVE  Replacing'
<1>1. PICK d : d = reporter[p].date
  OBVIOUS
<1>2. PICK n : n = reporter[p].gen
  OBVIOUS
<1>3. /\ Shapes /\ d \in Dates /\ Stored(d) /\ disk[d] \in Folder /\ Writing(p)
      /\ reporter[p] \in Process /\ reporter[p].pc = "settle"
  BY <1>1 DEF Replacing, Shapes, Process, Settle
<1>4. Has(d, n) /\ disk[d].current = n /\ Whole(d, n) /\ disk[d].links = Kinds
  BY <1>1, <1>2, <1>3 DEF Writing
<1>5. /\ disk' \in [Dates -> Folder] /\ \A e \in Dates \ {d} : disk'[e] = disk[e]
      /\ disk'[d].links = disk[d].links /\ disk'[d].current = disk[d].current
      /\ disk'[d].gens = {g \in disk[d].gens : g.n = n}
  BY <1>1, <1>2, <1>3 DEF Settle, Shapes, Folder
<1>6. UNCHANGED <<due, rows, made, undone, holder, archive>> /\ Goto(p, "finish")
  BY DEF Settle
<1>7. Stored(d)'
  <2>1. /\ Successes(d)' = Successes(d) /\ Owed(d)' = Owed(d)
        /\ \A i \in Successes(d) : rows'[i].gen = rows[i].gen
    BY <1>3, <1>6, RecordsStay
  <2>2. Whole(d, disk[d].current)' /\ disk'[d].links = Kinds
    BY <1>4, <1>5 DEF Whole
  <2>3. Owed(d)' => Covers(d, disk[d].current)'
    BY <1>3, <1>4, <1>5, <2>1 DEF Stored, Covers, Has
  <2>4. /\ \A h \in disk'[d].gens : h.n \in DOMAIN made'
        /\ \A h, i \in disk'[d].gens : h.n = i.n => h = i
        /\ disk'[d].current <= Len(made')
    BY <1>3, <1>5, <1>6 DEF Stored
  <2>5. Successes(d)' = {} \/ \E i \in Successes(d)' : \A j \in Successes(d)' : j <= i
    BY <1>3, <2>1 DEF Stored
  <2> QED
    BY <2>2, <2>3, <2>4, <2>5 DEF Stored
<1>8. reporter'[p].pc = "finish" /\ reporter'[p].date = d
        /\ reporter'[p].gen = reporter[p].gen /\ reporter'[p].prev = reporter[p].prev
        => Writing(p)'
  BY <1>2, <1>4, <1>5 DEF Writing, Has
<1>9. "finish" \in UnderWay /\ reporter[p].pc \in UnderWay
  BY <1>3 DEF UnderWay
<1> QED
  BY <1>1, <1>3, <1>5, <1>6, <1>7, <1>8, <1>9, GoesOnTo

\* A write fails: what it had done is taken back, or the roll back fails too.
LEMMA WriteFailsStep ==
  ASSUME Replacing, NEW p \in Reporters, WriteFails(p)
  PROVE  Replacing'
<1>1. PICK d : d = reporter[p].date
  OBVIOUS
<1>2. PICK n : n = reporter[p].gen
  OBVIOUS
<1>3. PICK v : v = reporter[p].prev
  OBVIOUS
<1>4. /\ Shapes /\ d \in Dates /\ Stored(d) /\ disk[d] \in Folder /\ Writing(p) /\ Live(p)
      /\ reporter[p] \in Process /\ n \in Nat /\ v \in Nat
      /\ reporter[p].pc \in {"fill", "link", "switch", "settle"}
  BY <1>1, <1>2, <1>3 DEF Replacing, Shapes, Process, WriteFails
<1>5. reporter[p].pc \in UnderWay /\ reporter[p].pc \in Held
  BY <1>4 DEF UnderWay, Held
<1>6. PICK restored \in BOOLEAN :
         /\ ~restored => reporter[p].pc = "settle"
         /\ disk' = [disk EXCEPT ![d] = RolledBack(@, reporter[p], restored)]
         /\ undone' = IF restored THEN undone ELSE undone \cup {d}
  BY <1>1 DEF WriteFails
<1>7. PICK c : c = IF reporter[p].pc = "settle" /\ restored THEN v ELSE disk[d].current
  OBVIOUS
<1>8. c \in Nat /\ v < n
  BY <1>2, <1>3, <1>4, <1>7 DEF Folder, Writing
<1>9. /\ disk' \in [Dates -> Folder] /\ \A e \in Dates \ {d} : disk'[e] = disk[e]
      /\ disk'[d].gens = {g \in disk[d].gens : g.n # n}
      /\ disk'[d].links = IF v = NoReport THEN {} ELSE disk[d].links
      /\ disk'[d].current = c
  <2>1. PICK f : f = RolledBack(disk[d], reporter[p], restored)
    OBVIOUS
  <2>2. f = [gens |-> {g \in disk[d].gens : g.n # n}, current |-> c,
             links |-> IF v = NoReport THEN {} ELSE disk[d].links]
    BY <1>2, <1>3, <1>7, <2>1 DEF RolledBack, Without
  <2>3. f \in Folder
    BY <1>4, <1>8, <2>2 DEF Folder
  <2>4. disk' = [disk EXCEPT ![d] = f]
    BY <1>6, <2>1
  <2> QED
    BY <1>4, <2>2, <2>3, <2>4 DEF Shapes
<1>10. /\ undone' \in SUBSET Dates /\ undone \subseteq undone'
       /\ UNCHANGED <<due, made, archive>> /\ holder' = Nobody
       /\ rows' = [rows EXCEPT ![reporter[p].row].status = "failed"]
       /\ reporter' = [reporter EXCEPT ![p] = Resting]
  BY <1>4, <1>6 DEF WriteFails, Fail, Shapes
<1>11. /\ Successes(d)' = Successes(d) /\ DOMAIN rows' = DOMAIN rows
       /\ \A i \in Successes(d) : rows'[i].gen = rows[i].gen
  <2>1. /\ Successes(d)' = Successes(d) /\ DOMAIN rows' = DOMAIN rows
        /\ \A i \in DOMAIN rows : rows'[i].gen = rows[i].gen
    BY <1>4, <1>5, <1>10, FailedRow
  <2> QED
    BY <2>1 DEF Successes
<1>12. Owed(d)' => Owed(d) /\ restored
  BY <1>4, <1>6, <1>10, <1>11 DEF Owed, Expired
\* In either case the pointer is left on a generation that is whole if it is there.
<1>13. /\ Whole(d, c)
       /\ c # n /\ Has(d, c) => disk'[d].links = Kinds
       /\ Owed(d) /\ restored => Covers(d, c) /\ c # n
  <2>1. 0 \notin DOMAIN made /\ ~Has(d, 0)
    BY <1>4, LenProperties DEF Shapes, Stored, Has
  <2>2. CASE reporter[p].pc = "settle" /\ restored
    <3>1. c = v /\ c # n /\ Whole(d, v) /\ disk[d].links = Kinds
      BY <1>1, <1>3, <1>4, <1>7, <1>8, <2>2 DEF Writing
    <3>2. Owed(d) => Covers(d, v)
      BY <1>1, <1>3, <1>4, <2>2 DEF Writing
    <3>3. Has(d, c) => disk'[d].links = Kinds
      BY <1>9, <2>1, <3>1 DEF NoReport
    <3> QED
      BY <3>1, <3>2, <3>3
  <2>3. CASE reporter[p].pc = "settle" /\ ~restored
    BY <1>1, <1>2, <1>4, <1>7, <2>3 DEF Writing
  <2>4. CASE reporter[p].pc # "settle"
    <3>1. c = v /\ c # n /\ disk[d].current = c
      BY <1>1, <1>3, <1>4, <1>7, <1>8, <2>4 DEF Writing
    <3>2. Whole(d, c) /\ (Has(d, c) => disk[d].links = Kinds) /\ (Owed(d) => Covers(d, c))
      BY <1>4, <3>1 DEF Stored
    <3>3. Has(d, c) => disk'[d].links = Kinds
      BY <1>9, <2>1, <3>1, <3>2 DEF NoReport
    <3> QED
      BY <3>1, <3>2, <3>3
  <2> QED
    BY <2>2, <2>3, <2>4
<1>14. Stored(d)'
  <2>1. Whole(d, disk[d].current)'
    BY <1>9, <1>13 DEF Whole
  <2>2. Has(d, disk[d].current)' => disk'[d].links = Kinds
    BY <1>9, <1>13 DEF Has
  <2>3. Owed(d)' => Covers(d, disk[d].current)'
    BY <1>9, <1>11, <1>12, <1>13 DEF Covers, Has
  <2>4. c <= Len(made)
    <3>1. CASE c = disk[d].current
      BY <1>4, <3>1 DEF Stored
    <3>2. CASE c = v /\ reporter[p].pc = "settle"
      <4>1. disk[d].current = n /\ n <= Len(made) /\ Len(made) \in Nat
        BY <1>1, <1>2, <1>4, <3>2, LenProperties DEF Writing, Stored, Shapes
      <4> QED
        BY <1>4, <1>8, <3>2, <4>1
    <3> QED
      BY <1>7, <3>1, <3>2
  <2>5. /\ \A h \in disk'[d].gens : h.n \in DOMAIN made'
        /\ \A h, i \in disk'[d].gens : h.n = i.n => h = i
        /\ disk'[d].current <= Len(made')
    BY <1>4, <1>9, <1>10, <2>4 DEF Stored
  <2>6. Successes(d)' = {} \/ \E i \in Successes(d)' : \A j \in Successes(d)' : j <= i
    BY <1>4, <1>11 DEF Stored
  <2> QED
    BY <2>1, <2>2, <2>3, <2>5, <2>6 DEF Stored
<1>15. \A e \in Dates : disk'[e] # disk[e] => Stored(e)'
  BY <1>9, <1>14
<1> QED
  BY <1>5, <1>9, <1>10, <1>15, Released

\* The run's row cannot be written: the report stays, without its success.
LEMMA FinishFailsStep ==
  ASSUME Replacing, NEW p \in Reporters, FinishFails(p)
  PROVE  Replacing'
<1>1. /\ reporter[p].pc \in UnderWay /\ reporter[p].pc \in Held
      /\ holder' = Nobody /\ reporter' = [reporter EXCEPT ![p] = Resting]
      /\ UNCHANGED <<due, disk, made, undone, archive>>
  BY DEF FinishFails, Fail, UnderWay, Held
<1>2. \/ UNCHANGED rows
      \/ rows' = [rows EXCEPT ![reporter[p].row].status = "failed"]
  BY DEF FinishFails, Fail
<1>3. disk' \in [Dates -> Folder] /\ undone' \in SUBSET Dates
  BY <1>1 DEF Replacing, Shapes
<1> QED
  BY <1>1, <1>2, <1>3, Released

\* A process dies, with the lock or without.
LEMMA KillReporterStep ==
  ASSUME Replacing, NEW p \in Reporters, KillReporter(p)
  PROVE  Replacing'
<1>1. /\ reporter' = [reporter EXCEPT ![p] = Resting]
      /\ holder' = IF holder = p THEN Nobody ELSE holder
      /\ UNCHANGED <<due, rows, disk, made, undone, archive>>
  BY DEF KillReporter
<1>2. /\ disk' \in [Dates -> Folder] /\ undone' \in SUBSET Dates
      /\ archive' \in Archive /\ archive'.landed <= archive'.ahead /\ Live(p)
  BY <1>1 DEF Replacing, Shapes
<1>3. CASE reporter[p].pc \in Held
  <2>1. holder' = Nobody
    BY <1>1, <1>2, <1>3 DEF Live
  <2> QED
    BY <1>1, <1>2, <1>3, <2>1, Released
<1>4. CASE reporter[p].pc \notin Held
  <2>1. UNCHANGED holder
    BY <1>1, <1>2, <1>4 DEF Live
  <2>2. Resting \in Process /\ Resting.pc \notin Held
    BY RestingProcess DEF Resting, Held, UnderWay
  <2> HIDE DEF Resting
  <2> QED
    BY <1>1, <1>2, <1>4, <2>1, <2>2, OutsideStep
<1> QED
  BY <1>3, <1>4

\* The run is recorded as successful: its report is the one on disk.
LEMMA FinishStep ==
  ASSUME Replacing, NEW p \in Reporters, Finish(p)
  PROVE  Replacing'
<1>1. PICK d : d = reporter[p].date
  OBVIOUS
<1>2. PICK n : n = reporter[p].gen
  OBVIOUS
<1>3. PICK w : w = reporter[p].row
  OBVIOUS
<1>4. PICK x : x = [rows[w] EXCEPT !.status = "success", !.gen = n]
  OBVIOUS
<1>5. /\ Shapes /\ RowsMade /\ d \in Dates /\ Stored(d) /\ Writing(p) /\ Live(p)
      /\ reporter[p] \in Process /\ reporter[p].pc = "finish" /\ n \in Nat
      /\ \A q \in Reporters : Live(q) /\ Writing(q)
  BY <1>1, <1>2 DEF Replacing, Shapes, Process, Finish
<1>6. /\ w \in DOMAIN rows /\ rows[w].date = d /\ rows[w].status = "running"
      /\ \A i \in DOMAIN rows : rows[i] \in Row /\ rows[i].gen \in Nat
      /\ DOMAIN rows = 1..Len(rows) /\ Len(rows) \in Nat
  <2>1. \A i \in DOMAIN rows : rows[i] \in Row
    BY <1>5, RowsAre DEF Shapes
  <2> QED
    BY <1>1, <1>3, <1>5, <2>1, LenProperties DEF Live, UnderWay, Row, Shapes
<1>7. Has(d, n) /\ disk[d].current = n
  BY <1>1, <1>2, <1>5 DEF Writing
<1>8. /\ x \in Row /\ x.gen = n /\ x.status = "success" /\ x.date = d
  BY <1>4, <1>5, <1>6 DEF Row, Statuses
<1>9. /\ rows' \in Seq(Row) /\ DOMAIN rows' = DOMAIN rows /\ rows'[w] = x
      /\ \A j \in DOMAIN rows \ {w} : rows'[j] = rows[j]
  <2>1. rows' = [rows EXCEPT ![w] = x] /\ rows \in Seq(Row)
    BY <1>2, <1>3, <1>4, <1>5 DEF Finish, Shapes
  <2> QED
    BY <1>6, <1>8, <2>1, RowChanged
<1>10. UNCHANGED <<due, disk, made, undone, holder, archive>> /\ Goto(p, "retain")
  BY DEF Finish
<1>11. /\ reporter' \in [Reporters -> Process] /\ reporter'[p].pc = "retain"
       /\ \A q \in Reporters \ {p} : reporter'[q] = reporter[q]
  BY <1>5, <1>10, OneGoes DEF Shapes, Steps
<1>12. Shapes' /\ Len(made) \in Nat
  BY <1>5, <1>9, <1>10, <1>11, LenProperties DEF Shapes
<1>13. \A q \in Reporters : Live(q)' /\ Writing(q)'
  <2>1. /\ reporter[p].pc \in UnderWay /\ reporter'[p].pc \in Held
        /\ reporter'[p].pc \notin UnderWay
    BY <1>5, <1>11 DEF UnderWay, Held
  <2>2. Writing(p)'
    BY <1>11 DEF Writing
  <2> QED
    BY <1>5, <1>10, <1>11, <2>1, <2>2, HolderGoesOn
<1>14. n <= Len(made)
  BY <1>5, <1>7 DEF Stored
<1>15. RowsMade'
  BY <1>5, <1>8, <1>9, <1>10, <1>14 DEF RowsMade
<1>16. Stored(d)'
  <2>1. /\ Successes(d)' = Successes(d) \cup {w} /\ w \notin Successes(d)
    BY <1>6, <1>8, <1>9 DEF Successes
  <2>2. Owed(d)' => ~Expired(d) /\ d \notin undone
    BY <1>10 DEF Owed, Expired
  <2>3. \A i \in Successes(d) : i # w /\ i \in DOMAIN rows /\ rows'[i].gen = rows[i].gen
    BY <1>9, <2>1 DEF Successes
  <2>4. Owed(d)' => \A i \in Successes(d) : rows[i].gen <= n
    BY <1>5, <1>7, <2>2 DEF Stored, Owed, Covers
  <2>5. Owed(d)' => Covers(d, disk[d].current)'
    <3>1. Has(d, n)' /\ disk'[d].current = n
      BY <1>7, <1>10 DEF Has
    <3>2. Owed(d)' => \A i \in Successes(d)' : rows'[i].gen <= n
      BY <1>5, <1>8, <1>9, <2>1, <2>3, <2>4
    <3> QED
      BY <3>1, <3>2 DEF Covers, Has
  <2>6. \E i \in Successes(d)' : \A j \in Successes(d)' : j <= i
    <3>1. \A i \in Successes(d) : i \in Nat
      BY <1>6 DEF Successes
    <3>2. w \in Nat
      BY <1>6
    <3>3. CASE Successes(d) = {}
      BY <2>1, <3>2, <3>3
    <3>4. CASE Successes(d) # {}
      <4>1. PICK i \in Successes(d) : \A j \in Successes(d) : j <= i
        BY <1>5, <3>4 DEF Stored
      <4>2. CASE w <= i
        BY <2>1, <4>1, <4>2
      <4>3. CASE i < w
        <5>1. \A j \in Successes(d)' : j <= w
          BY <2>1, <3>1, <3>2, <4>1, <4>3
        <5> QED
          BY <2>1, <5>1
      <4> QED
        BY <3>1, <3>2, <4>1, <4>2, <4>3
    <3> QED
      BY <3>3, <3>4
  <2>7. Whole(d, disk[d].current)' /\ (Has(d, disk[d].current)' => disk'[d].links = Kinds)
    BY <1>5, <1>10 DEF Stored, Whole, Has
  <2>8. /\ \A h \in disk'[d].gens : h.n \in DOMAIN made'
        /\ \A h, i \in disk'[d].gens : h.n = i.n => h = i
        /\ disk'[d].current <= Len(made')
    BY <1>5, <1>10 DEF Stored
  <2> QED
    BY <2>5, <2>6, <2>7, <2>8 DEF Stored
<1>17. ASSUME NEW e \in Dates, e # d
       PROVE  Stored(e)'
  <2>1. Stored(e) /\ due' \in Dates /\ due' >= due /\ disk'[e] = disk[e]
    BY <1>10, <1>12, ReportAssumption DEF Replacing, Shapes, Dates
  <2>2. Successes(e)' = Successes(e)
    BY <1>6, <1>8, <1>9, <1>17 DEF Successes
  <2>3. \A i \in Successes(e) : rows'[i].gen = rows[i].gen
    BY <1>6, <1>9, <1>17 DEF Successes
  <2>4. /\ undone \subseteq undone' /\ Len(made') \in Nat /\ Len(made') >= Len(made)
        /\ DOMAIN made \subseteq DOMAIN made'
    BY <1>10, <1>12
  <2> QED
    BY <1>5, <2>1, <2>2, <2>3, <2>4, DateStays
<1> QED
  BY <1>12, <1>13, <1>15, <1>16, <1>17 DEF Replacing

\* The retention takes whole dates, and generations that no pointer names.
LEMMA RetainStep ==
  ASSUME Replacing, NEW p \in Reporters, Retain(p)
  PROVE  Replacing'
<1>1. /\ Shapes /\ RowsMade /\ reporter[p].pc \in Held /\ "sync" \in Steps \ Held
      /\ \A q \in Reporters : Live(q) /\ Writing(q)
  BY DEF Replacing, Retain, Held, UnderWay, Steps
<1>2. /\ UNCHANGED <<due, rows, made, undone, archive>> /\ Goto(p, "sync")
      /\ holder' = Nobody
  BY DEF Retain
<1>3. /\ reporter' \in [Reporters -> Process] /\ reporter'[p].pc = "sync"
      /\ \A q \in Reporters \ {p} : reporter'[q] = reporter[q]
  BY <1>1, <1>2, OneGoes DEF Shapes
<1>4. \A q \in Reporters : Live(q)' /\ Writing(q)'
  BY <1>1, <1>2, <1>3, HolderLeaves
<1>5. RowsMade'
  BY <1>1, <1>2 DEF RowsMade
<1>6. CASE disk' = disk
  <2>1. Shapes'
    BY <1>1, <1>2, <1>3, <1>6 DEF Shapes, Nobody
  <2>2. ASSUME NEW d \in Dates
        PROVE  Stored(d)'
    <3>1. Stored(d)
      BY DEF Replacing
    <3>2. Successes(d)' = Successes(d) /\ Owed(d)' = Owed(d)
      BY <1>2, RecordsStay
    <3> QED
      BY <1>2, <1>6, <3>1, <3>2 DEF Stored, Has, Whole, Covers
  <2> QED
    BY <1>4, <1>5, <2>1, <2>2 DEF Replacing
<1>7. CASE disk' = [d \in Dates |->
                IF Expired(d) THEN [gens |-> {}, current |-> NoReport, links |-> {}]
                ELSE [disk[d] EXCEPT !.gens =
                        {g \in @ : g.n = disk[d].current \/ made[g.n].due = due}]]
  <2>1. ASSUME NEW d \in Dates
        PROVE  /\ disk'[d] \in Folder
               /\ Expired(d) => disk'[d].gens = {} /\ disk'[d].current = 0
               /\ ~Expired(d) =>
                    /\ disk'[d].current = disk[d].current /\ disk'[d].links = disk[d].links
                    /\ disk'[d].gens = {g \in disk[d].gens : g.n = disk[d].current
                                                             \/ made[g.n].due = due}
    <3>1. disk[d] \in Folder
      BY <1>1 DEF Shapes
    <3>2. CASE Expired(d)
      <4>1. disk'[d] = [gens |-> {}, current |-> 0, links |-> {}]
        BY <1>7, <3>2 DEF NoReport
      <4> QED
        BY <3>2, <4>1 DEF Folder
    <3>3. CASE ~Expired(d)
      <4> DEFINE kept == {g \in disk[d].gens : g.n = disk[d].current \/ made[g.n].due = due}
      <4>1. disk'[d] = [disk[d] EXCEPT !.gens = kept]
        BY <1>7, <3>3
      <4>2. kept \subseteq disk[d].gens
        OBVIOUS
      <4>3. [disk[d] EXCEPT !.gens = kept] \in Folder
        <5> HIDE DEF kept
        <5> QED
          BY <3>1, <4>2 DEF Folder
      <4>4. /\ disk'[d].current = disk[d].current /\ disk'[d].links = disk[d].links
            /\ disk'[d].gens = kept
        <5> HIDE DEF kept
        <5> QED
          BY <3>1, <4>1 DEF Folder
      <4> QED
        BY <3>3, <4>1, <4>3, <4>4
    <3> QED
      BY <3>2, <3>3
  <2>2. disk' \in [Dates -> Folder]
    BY <1>7, <2>1
  <2>3. Shapes'
    BY <1>1, <1>2, <1>3, <2>2 DEF Shapes, Nobody
  <2>4. ASSUME NEW d \in Dates
        PROVE  Stored(d)'
    <3>1. Stored(d) /\ Len(made) \in Nat
      BY <1>1, LenProperties DEF Replacing, Shapes
    <3>2. Successes(d)' = Successes(d) /\ Owed(d)' = Owed(d)
      BY <1>2, RecordsStay
    <3>3. Successes(d)' = {} \/ \E i \in Successes(d)' : \A j \in Successes(d)' : j <= i
      BY <3>1, <3>2 DEF Stored
    <3>4. CASE Expired(d)
      <4>1. disk'[d].gens = {} /\ disk'[d].current = 0 /\ ~Owed(d)'
        BY <2>1, <3>2, <3>4 DEF Owed
      <4> QED
        BY <1>2, <3>1, <3>3, <4>1 DEF Stored, Has, Whole
    <3>5. CASE ~Expired(d)
      <4>1. /\ disk'[d].current = disk[d].current /\ disk'[d].links = disk[d].links
            /\ disk'[d].gens \subseteq disk[d].gens
            /\ \A g \in disk[d].gens : g.n = disk[d].current => g \in disk'[d].gens
        BY <2>1, <3>5
      <4>2. Whole(d, disk[d].current)' /\ (Has(d, disk[d].current)' => disk'[d].links = Kinds)
        BY <3>1, <4>1 DEF Stored, Whole, Has
      <4>3. Owed(d)' => Covers(d, disk[d].current)'
        BY <1>2, <3>1, <3>2, <4>1 DEF Stored, Covers, Has
      <4>4. /\ \A h \in disk'[d].gens : h.n \in DOMAIN made'
            /\ \A h, i \in disk'[d].gens : h.n = i.n => h = i
            /\ disk'[d].current <= Len(made')
        BY <1>2, <3>1, <4>1 DEF Stored
      <4> QED
        BY <3>3, <4>2, <4>3, <4>4 DEF Stored
    <3> QED
      BY <3>4, <3>5
  <2> QED
    BY <1>4, <1>5, <2>3, <2>4 DEF Replacing
<1> QED
  BY <1>6, <1>7 DEF Retain

-----------------------------------------------------------------------------
(* The beginning of a run. *)

\* Rows begun: the date's running rows are interrupted, no success is touched.
LEMMA BegunRows ==
  ASSUME NEW d \in Dates, rows \in Seq(Row)
  PROVE  /\ Begun(d) \in Seq(Row) /\ Len(Begun(d)) = Len(rows) + 1
         /\ DOMAIN Begun(d) = DOMAIN rows \cup {Len(rows) + 1}
         /\ Len(rows) + 1 \notin DOMAIN rows
         /\ Begun(d)[Len(rows) + 1] = [date |-> d, status |-> "running", gen |-> NoReport]
         /\ \A i \in DOMAIN rows :
              /\ Begun(d)[i].date = rows[i].date /\ Begun(d)[i].gen = rows[i].gen
              /\ Begun(d)[i].status = "success" <=> rows[i].status = "success"
<1> DEFINE f == [i \in DOMAIN rows |->
                   IF rows[i].date = d /\ rows[i].status = "running"
                   THEN [rows[i] EXCEPT !.status = "interrupted"] ELSE rows[i]]
           new == [date |-> d, status |-> "running", gen |-> NoReport]
<1>1. /\ Len(rows) \in Nat /\ DOMAIN rows = 1..Len(rows)
      /\ \A i \in DOMAIN rows : rows[i] \in Row
  BY RowsAre
<1>2. ASSUME NEW i \in DOMAIN rows
      PROVE  /\ f[i] \in Row /\ f[i].date = rows[i].date /\ f[i].gen = rows[i].gen
             /\ f[i].status = "success" <=> rows[i].status = "success"
  BY <1>1 DEF Row, Statuses
<1>3. f \in Seq(Row) /\ Len(f) = Len(rows) /\ DOMAIN f = DOMAIN rows
  <2>1. DOMAIN f = 1..Len(rows) /\ \A i \in 1..Len(rows) : f[i] \in Row
    BY <1>1, <1>2
  <2>2. f = [i \in 1..Len(rows) |-> f[i]]
    BY <1>1
  <2>3. f \in [1..Len(rows) -> Row]
    BY <2>1, <2>2
  <2> HIDE DEF f
  <2>4. f \in Seq(Row)
    BY <1>1, <2>3, SeqDef
  <2> QED
    BY <1>1, <2>1, <2>4, LenProperties
<1>4. new \in Row
  BY DEF Row, Statuses, NoReport
<1>5. Begun(d) = Append(f, new)
  BY DEF Begun
<1> HIDE DEF f, new
<1>6. /\ Append(f, new) \in Seq(Row) /\ Len(Append(f, new)) = Len(f) + 1
      /\ Append(f, new)[Len(f) + 1] = new
      /\ \A i \in DOMAIN f : Append(f, new)[i] = f[i]
      /\ DOMAIN Append(f, new) = DOMAIN f \cup {Len(f) + 1}
  BY <1>3, <1>4, RowAdded
<1>7. /\ Begun(d) \in Seq(Row) /\ Len(Begun(d)) = Len(rows) + 1
      /\ Begun(d)[Len(rows) + 1] = new
      /\ \A i \in DOMAIN rows : Begun(d)[i] = f[i]
      /\ DOMAIN Begun(d) = DOMAIN rows \cup {Len(rows) + 1}
  BY <1>3, <1>5, <1>6
<1>8. Len(rows) + 1 \notin DOMAIN rows
  BY <1>1
<1> QED
  BY <1>2, <1>7, <1>8 DEF new

\* A process has the lock, and begins its run unless the report is there.
LEMMA AcquireStep ==
  ASSUME Replacing, NEW p \in Reporters, Acquire(p)
  PROVE  Replacing'
<1>1. /\ reporter[p].pc = "wait" /\ holder = Nobody
      /\ UNCHANGED <<due, disk, made, undone, archive>>
  BY DEF Acquire
<1>2. /\ Shapes /\ RowsMade /\ reporter[p] \in Process /\ reporter[p].date \in Dates
      /\ \A q \in Reporters : Live(q) /\ Writing(q)
  BY DEF Replacing, Shapes, Process
<1>3. CASE reporter' = [reporter EXCEPT ![p] = Resting] /\ UNCHANGED <<rows, holder>>
  <2>1. /\ Resting \in Process /\ Resting.pc \notin Held /\ reporter[p].pc \notin Held
        /\ archive' \in Archive /\ archive'.landed <= archive'.ahead
    BY <1>1, <1>2, RestingProcess DEF Resting, Held, UnderWay, Shapes
  <2> HIDE DEF Resting
  <2> QED
    BY <1>1, <1>3, <2>1, OutsideStep
<1>4. CASE /\ holder' = p /\ rows' = Begun(reporter[p].date)
           /\ reporter' = [reporter EXCEPT ![p] =
                [reporter[p] EXCEPT !.row = Len(rows) + 1,
                                    !.pc = IF reporter[p].rules THEN "make" ELSE "codex"]]
  <2>1. PICK d : d = reporter[p].date
    OBVIOUS
  <2>2. PICK s : s = IF reporter[p].rules THEN "make" ELSE "codex"
    OBVIOUS
  <2>3. PICK w : w = Len(rows) + 1
    OBVIOUS
  <2>4. PICK x : x = [reporter[p] EXCEPT !.row = w, !.pc = s]
    OBVIOUS
  <2>5. /\ d \in Dates /\ s \in {"make", "codex"} /\ w \in Nat /\ rows \in Seq(Row)
    BY <1>2, <2>1, <2>2, <2>3, LenProperties DEF Shapes
  <2>6. x \in Process /\ x.pc = s /\ x.date = d /\ x.row = w
    BY <1>2, <2>1, <2>4, <2>5 DEF Process, Steps, UnderWay
  <2>7. /\ rows' \in Seq(Row) /\ DOMAIN rows' = DOMAIN rows \cup {w} /\ w \notin DOMAIN rows
        /\ rows'[w].date = d /\ rows'[w].status = "running" /\ rows'[w].gen = 0
        /\ \A i \in DOMAIN rows :
             /\ rows'[i].date = rows[i].date /\ rows'[i].gen = rows[i].gen
             /\ rows'[i].status = "success" <=> rows[i].status = "success"
    <3>1. rows' = Begun(d)
      BY <1>4, <2>1
    <3> HIDE DEF Begun
    <3>2. /\ Begun(d) \in Seq(Row) /\ DOMAIN Begun(d) = DOMAIN rows \cup {w}
          /\ w \notin DOMAIN rows
          /\ Begun(d)[w] = [date |-> d, status |-> "running", gen |-> NoReport]
          /\ \A i \in DOMAIN rows :
               /\ Begun(d)[i].date = rows[i].date /\ Begun(d)[i].gen = rows[i].gen
               /\ Begun(d)[i].status = "success" <=> rows[i].status = "success"
      BY <2>3, <2>5, BegunRows
    <3>3. Begun(d)[w].date = d /\ Begun(d)[w].status = "running" /\ Begun(d)[w].gen = 0
      BY <3>2 DEF NoReport
    <3> QED
      BY <3>1, <3>2, <3>3
  <2>8. /\ reporter' \in [Reporters -> Process] /\ reporter'[p] = x
        /\ \A q \in Reporters \ {p} : reporter'[q] = reporter[q]
    <3>1. reporter' = [reporter EXCEPT ![p] = x]
      BY <1>4, <2>2, <2>3, <2>4
    <3> QED
      BY <1>2, <2>6, <3>1, OneMoves DEF Shapes
  <2>9. Shapes' /\ Len(made) \in Nat
    BY <1>1, <1>2, <1>4, <2>7, <2>8, LenProperties DEF Shapes
  <2>10. RowsMade'
    BY <1>1, <1>2, <2>7, <2>9 DEF RowsMade
  <2>11. ASSUME NEW q \in Reporters
         PROVE  Live(q)' /\ Writing(q)'
    <3>1. CASE q = p
      <4>1. reporter'[q].pc \in UnderWay /\ reporter'[q].pc \in Held /\ holder' = q
        BY <1>4, <2>5, <2>6, <2>8, <3>1 DEF UnderWay, Held
      <4>2. /\ reporter'[q].row \in DOMAIN rows'
            /\ rows'[reporter'[q].row].date = reporter'[q].date
            /\ rows'[reporter'[q].row].status = "running"
        BY <2>6, <2>7, <2>8, <3>1
      <4>3. Writing(q)'
        BY <2>5, <2>6, <2>8, <3>1 DEF Writing
      <4> QED
        BY <4>1, <4>2, <4>3 DEF Live
    <3>2. CASE q # p
      <4>1. reporter[q].pc \notin Held
        BY <1>1, <1>2, ReportAssumption DEF Live, Nobody
      <4>2. reporter'[q].pc \notin Held /\ holder' # q
        BY <1>4, <2>8, <3>2, <4>1
      <4> QED
        BY <4>2 DEF Live, Writing, Held, UnderWay
    <3> QED
      BY <3>1, <3>2
  <2>12. ASSUME NEW e \in Dates
         PROVE  Stored(e)'
    <3>1. Successes(e)' = Successes(e) /\ \A i \in Successes(e) : rows'[i].gen = rows[i].gen
      BY <2>7 DEF Successes
    <3>2. /\ Stored(e) /\ disk'[e] = disk[e] /\ due' \in Dates /\ due' >= due
          /\ undone \subseteq undone' /\ Len(made') \in Nat /\ Len(made') >= Len(made)
          /\ DOMAIN made \subseteq DOMAIN made'
      BY <1>1, <1>2, <2>9, ReportAssumption DEF Replacing, Shapes, Dates
    <3> QED
      BY <1>2, <3>1, <3>2, DateStays
  <2> QED
    BY <2>9, <2>10, <2>11, <2>12 DEF Replacing
<1> QED
  BY <1>3, <1>4 DEF Acquire

-----------------------------------------------------------------------------
(* The specification. *)

\* The invariant holds from the beginning.
LEMMA ReportsStart == ReportsInit => Replacing
<1> SUFFICES ASSUME ReportsInit
             PROVE  Replacing
  OBVIOUS
<1>1. 1 \in Dates
  BY ReportAssumption DEF Dates
<1>2. rows = <<>> /\ made = <<>> /\ DOMAIN rows = {} /\ DOMAIN made = {} /\ Len(made) = 0
  BY LenProperties, EmptySeq DEF ReportsInit
<1>3. ASSUME NEW d \in Dates
      PROVE  disk[d] = [gens |-> {}, current |-> 0, links |-> {}] /\ disk[d] \in Folder
  BY DEF ReportsInit, NoReport, Folder
<1>4. disk \in [Dates -> Folder]
  BY <1>3 DEF ReportsInit
<1>5. archive \in Archive /\ archive.landed <= archive.ahead
  <2> DEFINE none == [d \in Dates |-> NoPair]
  <2>1. none \in Pairs
    BY DEF Pairs, NoPair, NoReport
  <2>2. archive = [work |-> none, head |-> none,
                   ahead |-> 0, landed |-> 0, behind |-> FALSE, moved |-> FALSE]
    BY DEF ReportsInit
  <2>3. FALSE \in Flag
    BY DEF Flag
  <2> HIDE DEF none
  <2>4. archive.landed = 0 /\ archive.ahead = 0
    BY <2>2
  <2>5. archive \in Archive
    BY <2>1, <2>2, <2>3 DEF Archive
  <2> QED
    BY <2>4, <2>5
<1>6. \A p \in Reporters : reporter[p] = Resting
  BY DEF ReportsInit
<1>7. reporter \in [Reporters -> Process]
  BY RestingProcess DEF ReportsInit
<1>8. Shapes
  BY <1>1, <1>2, <1>4, <1>5, <1>7, EmptySeq DEF Shapes, ReportsInit
<1>9. ASSUME NEW p \in Reporters
      PROVE  Live(p) /\ Writing(p)
  <2>1. reporter[p].pc = "idle"
    BY <1>6 DEF Resting
  <2>2. holder # p
    BY ReportAssumption DEF ReportsInit, Nobody
  <2> QED
    BY <2>1, <2>2 DEF Live, Writing, Held, UnderWay
<1>10. ASSUME NEW d \in Dates
       PROVE  Stored(d)
  <2>1. Successes(d) = {}
    BY <1>2 DEF Successes
  <2>2. disk[d].gens = {} /\ disk[d].current = 0
    BY <1>3
  <2> QED
    BY <1>2, <2>1, <2>2 DEF Stored, Whole, Has, Owed
<1> QED
  BY <1>2, <1>8, <1>9, <1>10 DEF Replacing, RowsMade

\* And every step of a process or of the world keeps it.
LEMMA ReportsStep ==
  ASSUME Replacing, [ReportsNext]_reportVars
  PROVE  Replacing'
<1>1. CASE DayPasses
  BY <1>1, DayPassesStep
<1>2. CASE UpstreamMoves
  BY <1>2, UpstreamMovesStep
<1>3. ASSUME NEW p \in Reporters, ReportStep(p)
      PROVE  Replacing'
  <2>1. ASSUME NEW k \in Kinds, Fill(p, k) \/ LinkReport(p, k) \/ CopyReport(p, k)
        PROVE  Replacing'
    BY <2>1, FillStep, LinkReportStep, CopyReportStep
  <2>2. CASE Schedule(p) \/ Acquire(p) \/ Analyse(p) \/ MakeGeneration(p)
    BY <2>2, ScheduleStep, AcquireStep, AnalyseStep, MakeGenerationStep
  <2>3. CASE SwitchPointer(p) \/ Settle(p) \/ Finish(p) \/ Retain(p)
    BY <2>3, SwitchPointerStep, SettleStep, FinishStep, RetainStep
  <2>4. CASE SyncUpstream(p) \/ CommitArchive(p) \/ Push(p)
    BY <2>4, SyncUpstreamStep, CommitArchiveStep, PushStep
  <2> QED
    BY <1>3, <2>1, <2>2, <2>3, <2>4 DEF ReportStep
<1>4. ASSUME NEW p \in Reporters, ReportFault(p)
      PROVE  Replacing'
  BY <1>4, AttemptFailsStep, WriteFailsStep, FinishFailsStep, GitFailsStep,
     KillReporterStep DEF ReportFault
<1>5. ASSUME NEW p \in Reporters, NEW d \in Dates, NEW rules \in BOOLEAN, Command(p, d, rules)
      PROVE  Replacing'
  BY <1>5, CommandStep
<1>6. CASE UNCHANGED reportVars
  BY SMTT(20), <1>6 DEF reportVars, Replacing, Shapes, RowsMade, Live, Writing, Stored, Has, Whole,
              Covers, Owed, Successes, Expired
<1> QED
  BY <1>1, <1>2, <1>3, <1>4, <1>5, <1>6 DEF ReportsNext

\* What is known of the rows, the dates' files and the one writer is so at every
\* step, for any processes, dates, retention, attempts and faults.
THEOREM ReplacingHolds == ReportsSpec => []Replacing
BY ReportsStart, ReportsStep, PTL DEF ReportsSpec

\* The state of the reporter is what its declarations say it is, and the lock is
\* held by exactly the run that is under way.
THEOREM ReportsTyped == ReportsSpec => []ReportsTypeOK
<1>1. ASSUME Replacing
      PROVE  ReportsTypeOK
  <2>1. Shapes /\ RowsMade /\ Len(made) \in Nat
    BY <1>1, LenProperties DEF Replacing, Shapes
  <2>2. \A i \in DOMAIN rows : rows[i] \in Row
    BY <2>1, RowsAre DEF Shapes
  <2>3. \A i \in DOMAIN rows :
          /\ rows[i].date \in Dates /\ rows[i].gen \in 0..Len(made)
          /\ rows[i].status \in {"running", "success", "failed", "interrupted"}
    BY <2>1, <2>2 DEF Row, RowsMade, Statuses
  <2>4. ASSUME NEW d \in Dates
        PROVE  /\ disk[d].current \in 0..Len(made)
               /\ disk[d].links \subseteq Kinds
               /\ \A g \in disk[d].gens : g.n \in DOMAIN made /\ g.files \subseteq Kinds
               /\ \A g, h \in disk[d].gens : g.n = h.n => g = h
    BY <1>1, <2>1 DEF Replacing, Shapes, Folder, Generation, Stored
  <2>5. \A p \in Reporters : holder = p <=> reporter[p].pc \in UnderWay \cup {"retain"}
    BY <1>1 DEF Replacing, Live, Held
  <2>6. archive.ahead \in Nat /\ archive.landed \in 0..archive.ahead
    BY <2>1 DEF Shapes, Archive
  <2> QED
    BY <2>1, <2>3, <2>4, <2>5, <2>6 DEF ReportsTypeOK, Shapes
<1> QED
  BY <1>1, ReplacingHolds, PTL

\* A run that is still going on keeps its row: only a holder of the lock begins
\* a run, and takes the running rows of the date for dead.
THEOREM LiveRunsStand == ReportsSpec => []LiveRunStands
<1>1. Replacing => LiveRunStands
  BY DEF Replacing, Live, LiveRunStands
<1> QED
  BY <1>1, ReplacingHolds, PTL

\* Readers find the two files of one report, or none, at every step.
THEOREM PairsAreRead == ReportsSpec => []ReadersSeePairs
<1>1. ASSUME Replacing, NEW d \in Dates
      PROVE  Reads(d, "json") = Reads(d, "md")
  <2>1. Stored(d)
    BY <1>1 DEF Replacing
  <2>2. CASE Has(d, disk[d].current)
    BY <2>1, <2>2 DEF Stored, Reads, Has, Whole, Kinds
  <2>3. CASE ~Has(d, disk[d].current)
    BY <2>3 DEF Reads, Has
  <2> QED
    BY <2>2, <2>3
<1>2. Replacing => ReadersSeePairs
  BY <1>1 DEF ReadersSeePairs
<1> QED
  BY <1>2, ReplacingHolds, PTL

\* A recorded success has its report on disk, that one or a later one, until the
\* retention takes it or a roll back itself fails.
THEOREM SuccessesAreOnDisk == ReportsSpec => []SuccessOnDisk
<1>1. ASSUME Replacing, NEW d \in Dates, LatestSuccess(d) # 0, ~Expired(d), d \notin undone
      PROVE  Reads(d, "md") >= rows[LatestSuccess(d)].gen
  <2>1. Stored(d)
    BY <1>1 DEF Replacing
  <2>2. Successes(d) # {} /\ LatestSuccess(d) \in Successes(d)
    <3>1. LatestSuccess(d) = IF Successes(d) = {} THEN 0
                             ELSE CHOOSE i \in Successes(d) : \A j \in Successes(d) : j <= i
      BY DEF LatestSuccess, Successes
    <3>2. Successes(d) # {}
      BY <1>1, <3>1
    <3>3. \E i \in Successes(d) : \A j \in Successes(d) : j <= i
      BY <2>1, <3>2 DEF Stored
    <3> QED
      BY <3>1, <3>2, <3>3
  <2>3. Covers(d, disk[d].current)
    BY <1>1, <2>1, <2>2 DEF Stored, Owed
  <2>4. Reads(d, "md") = disk[d].current
    BY <2>1, <2>3 DEF Stored, Covers, Reads, Has, Whole, Kinds
  <2>5. rows[LatestSuccess(d)].gen <= disk[d].current
    BY <2>2, <2>3 DEF Covers
  <2>6. disk[d].current \in Nat /\ rows[LatestSuccess(d)].gen \in Nat
    <3>1. Shapes
      BY <1>1 DEF Replacing
    <3>2. \A i \in DOMAIN rows : rows[i] \in Row
      BY <3>1, RowsAre DEF Shapes
    <3>3. LatestSuccess(d) \in DOMAIN rows
      BY <2>2 DEF Successes
    <3> HIDE DEF LatestSuccess
    <3> QED
      BY <3>1, <3>2, <3>3 DEF Shapes, Folder, Row
  <2> QED
    BY <2>4, <2>5, <2>6
<1>2. Replacing => SuccessOnDisk
  BY <1>1 DEF SuccessOnDisk
<1> QED
  BY <1>2, ReplacingHolds, PTL

-----------------------------------------------------------------------------
(* A report is published at once (AtomicReport). *)

Writes == {"fill", "link", "switch", "settle", "finish"}

\* Whoever replaces a report of a date brings one that is newer than every
\* report of the date that is recorded as successful.
Newer ==
  \A p \in Reporters : reporter[p].pc \in Writes =>
    \A i \in Successes(reporter[p].date) : rows[i].gen < reporter[p].gen

\* What the readers and the database have, put together.
OnPage(d) == Shown(d, disk[d].current)
AllRecorded == [d \in Dates |-> Recorded(d)]
Old == {d \in Dates : Expired(d)}
Seen == <<Page, Trial, AllRecorded, Old, undone>>

\* It begins with no run under way.
LEMMA NewerStart == ReportsInit => Newer
BY DEF ReportsInit, Newer, Writes, Resting

\* Steps that begin no replacement and, while one goes on, record nothing.
LEMMA NewerStays ==
  ASSUME Newer,
         \A q \in Reporters : reporter'[q].pc \in Writes =>
           /\ rows' = rows /\ reporter[q].pc \in Writes
           /\ reporter'[q].date = reporter[q].date /\ reporter'[q].gen = reporter[q].gen
  PROVE  Newer'
BY DEF Newer, Successes

\* After a step of the lock's holder no other process replaces a report.
LEMMA OthersRest ==
  ASSUME \A q \in Reporters : Live(q), NEW p \in Reporters, reporter[p].pc \in Held,
         \A q \in Reporters \ {p} : reporter'[q] = reporter[q]
  PROVE  \A q \in Reporters \ {p} :
           reporter[q].pc \notin Held /\ reporter'[q].pc \notin Held
BY OneHolds

\* Every step keeps it: a report that is made is newer than all that were.
LEMMA NewerStep ==
  ASSUME Replacing, Newer, [ReportsNext]_reportVars
  PROVE  Newer'
<1>1. Shapes /\ \A q \in Reporters : Live(q)
  BY DEF Replacing
<1>2. Writes \subseteq Held /\ "idle" \notin Writes /\ Resting.pc \notin Writes
  BY DEF Writes, Held, UnderWay, Resting
<1>3. CASE UNCHANGED <<rows, reporter>>
  BY <1>3, NewerStays
\* A process rests, and the others do not replace or go on as they were.
<1>4. ASSUME NEW p \in Reporters, reporter' = [reporter EXCEPT ![p] = Resting],
             UNCHANGED rows \/ reporter[p].pc \in Held
      PROVE  Newer'
  <2>1. /\ reporter'[p] = Resting
        /\ \A q \in Reporters \ {p} : reporter'[q] = reporter[q]
    BY <1>1, <1>4, OneMoves, RestingProcess DEF Shapes
  <2>2. CASE UNCHANGED rows
    BY <1>2, <2>1, <2>2, NewerStays
  <2>3. CASE reporter[p].pc \in Held
    <3>1. \A q \in Reporters \ {p} : reporter'[q].pc \notin Held
      BY <1>1, <2>1, <2>3, OthersRest
    <3> QED
      BY <1>2, <2>1, <3>1, NewerStays
  <2> QED
    BY <1>4, <2>2, <2>3
\* A process goes on outside of the replacement, or with it.
<1>5. ASSUME NEW p \in Reporters, NEW s \in Steps, Goto(p, s), UNCHANGED rows,
             s \in Writes => reporter[p].pc \in Writes
      PROVE  Newer'
  <2>1. /\ reporter'[p].pc = s
        /\ \A f \in {"date", "row", "gen", "prev"} : reporter'[p][f] = reporter[p][f]
        /\ \A q \in Reporters \ {p} : reporter'[q] = reporter[q]
    BY <1>1, <1>5, OneGoes DEF Shapes
  <2>2. reporter'[p].date = reporter[p].date /\ reporter'[p].gen = reporter[p].gen
    BY <2>1
  <2> QED
    BY <1>5, <2>1, <2>2, NewerStays
\* A process takes a place before the replacement.
<1>6. ASSUME NEW p \in Reporters, NEW x \in Process, x.pc \notin Writes,
             reporter' = [reporter EXCEPT ![p] = x],
             UNCHANGED rows \/ \A q \in Reporters : reporter[q].pc \notin Held
      PROVE  Newer'
  <2>1. /\ reporter'[p] = x /\ \A q \in Reporters \ {p} : reporter'[q] = reporter[q]
    BY <1>1, <1>6, OneMoves DEF Shapes
  <2>2. CASE UNCHANGED rows
    BY <1>6, <2>1, <2>2, NewerStays
  <2>3. CASE \A q \in Reporters : reporter[q].pc \notin Held
    BY <1>2, <1>6, <2>1, <2>3, NewerStays
  <2> QED
    BY <1>6, <2>2, <2>3
<1>7. ASSUME NEW p \in Reporters
      PROVE  reporter[p] \in Process
  BY <1>1 DEF Shapes
<1>8. CASE DayPasses \/ UpstreamMoves \/ UNCHANGED reportVars
  BY <1>3, <1>8 DEF DayPasses, UpstreamMoves, reportVars
<1>9. ASSUME NEW p \in Reporters, NEW d \in Dates, NEW rules \in BOOLEAN, Command(p, d, rules)
      PROVE  Newer'
  <2>1. PICK x : x = [Resting EXCEPT !.date = d, !.rules = rules, !.pc = "wait"]
    OBVIOUS
  <2>2. x \in Process /\ x.pc \notin Writes
    BY <2>1, RestingProcess DEF Process, Steps, Flag, Writes
  <2> QED
    BY <1>6, <1>9, <2>1, <2>2 DEF Command
<1>10. ASSUME NEW p \in Reporters, Schedule(p)
       PROVE  Newer'
  <2>1. PICK s \in {"sync", "wait"} : s = IF IsComplete(due, TRUE) THEN "sync" ELSE "wait"
    OBVIOUS
  <2>2. PICK x : x = [Resting EXCEPT !.date = due, !.skip = TRUE, !.pc = s]
    OBVIOUS
  <2>3. TRUE \in Flag /\ due \in Dates
    BY <1>1 DEF Flag, Shapes
  <2>4. x \in Process /\ x.pc \notin Writes
    BY <2>2, <2>3, RestingProcess DEF Process, Steps, Writes
  <2> QED
    BY <1>6, <1>10, <2>1, <2>2, <2>4 DEF Schedule
<1>11. ASSUME NEW p \in Reporters, Acquire(p)
       PROVE  Newer'
  <2>1. CASE reporter' = [reporter EXCEPT ![p] = Resting] /\ UNCHANGED rows
    BY <1>4, <2>1
  <2>2. CASE reporter' = [reporter EXCEPT ![p] =
               [reporter[p] EXCEPT !.row = Len(rows) + 1,
                                   !.pc = IF reporter[p].rules THEN "make" ELSE "codex"]]
    <3>1. PICK s \in {"make", "codex"} : s = IF reporter[p].rules THEN "make" ELSE "codex"
      OBVIOUS
    <3>2. PICK x : x = [reporter[p] EXCEPT !.row = Len(rows) + 1, !.pc = s]
      OBVIOUS
    <3>3. Len(rows) + 1 \in Nat
      BY <1>1, LenProperties DEF Shapes
    <3>4. x \in Process /\ x.pc \notin Writes
      BY <1>7, <3>1, <3>2, <3>3 DEF Process, Steps, UnderWay, Writes
    <3>5. \A q \in Reporters : reporter[q].pc \notin Held
      BY <1>1, <1>11, ReportAssumption DEF Acquire, Live, Nobody
    <3> QED
      BY <1>6, <2>2, <3>1, <3>2, <3>4, <3>5
  <2> QED
    BY <1>11, <2>1, <2>2 DEF Acquire
<1>12. ASSUME NEW p \in Reporters, MakeGeneration(p)
       PROVE  Newer'
  <2>1. PICK n : n = Len(made) + 1
    OBVIOUS
  <2>2. PICK x : x = [reporter[p] EXCEPT !.gen = n, !.prev = disk[reporter[p].date].current,
                                         !.pc = "fill"]
    OBVIOUS
  <2>3. disk[reporter[p].date].current \in Nat /\ n \in Nat
    BY <1>1, <1>7, <2>1, LenProperties DEF Shapes, Folder, Process
  <2>4. x \in Process /\ x.date = reporter[p].date /\ x.gen = n
    BY <1>7, <2>2, <2>3 DEF Process, Steps, UnderWay
  <2>5. /\ reporter'[p] = x /\ \A q \in Reporters \ {p} : reporter'[q] = reporter[q]
    BY <1>1, <1>12, <2>1, <2>2, <2>4, OneMoves DEF MakeGeneration, Shapes
  <2>6. reporter[p].pc \in Held /\ UNCHANGED rows
    BY <1>12 DEF MakeGeneration, Held, UnderWay
  <2>7. \A q \in Reporters \ {p} : reporter'[q].pc \notin Writes
    BY <1>1, <1>2, <2>5, <2>6, OthersRest
  <2>8. ASSUME NEW i \in Successes(x.date)'
        PROVE  rows'[i].gen < n
    <3>1. i \in DOMAIN rows /\ rows'[i].gen = rows[i].gen
      BY <2>6, <2>8 DEF Successes
    <3>2. rows[i] \in Row /\ Len(made) \in Nat
      BY <1>1, <3>1, RowsAre, LenProperties DEF Shapes
    <3>3. rows[i].gen \in Nat /\ rows[i].gen <= Len(made)
      BY <3>1, <3>2 DEF Replacing, RowsMade, Row
    <3> QED
      BY <2>1, <3>1, <3>2, <3>3
  <2> QED
    BY <2>4, <2>5, <2>7, <2>8 DEF Newer
<1>13. ASSUME NEW p \in Reporters,
              Analyse(p) \/ SwitchPointer(p) \/ Settle(p) \/ Retain(p) \/ SyncUpstream(p)
                \/ CommitArchive(p) \/ Push(p)
       PROVE  Newer'
  <2>1. UNCHANGED rows
    BY <1>13 DEF Analyse, SwitchPointer, Settle, Retain, SyncUpstream, CommitArchive, Push
  <2>2. CASE GiveUp(p)
    BY <1>4, <2>1, <2>2 DEF GiveUp
  <2>3. CASE Goto(p, "make") \/ Goto(p, "sync") \/ Goto(p, "json") \/ Goto(p, "push")
    BY <1>5, <2>1, <2>3 DEF Writes, Steps, UnderWay
  <2>4. CASE SwitchPointer(p) \/ Settle(p)
    BY <1>5, <2>1, <2>4 DEF SwitchPointer, Settle, Writes, Steps, UnderWay
  <2> QED
    BY <1>13, <2>2, <2>3, <2>4 DEF Analyse, Retain, SyncUpstream, CommitArchive, Push
<1>14. ASSUME NEW p \in Reporters, NEW k \in Kinds, Fill(p, k) \/ LinkReport(p, k) \/ CopyReport(p, k)
       PROVE  Newer'
  <2>1. UNCHANGED rows
    BY <1>14 DEF Fill, LinkReport, CopyReport
  <2>2. CASE GiveUp(p)
    BY <1>4, <2>1, <2>2 DEF GiveUp
  <2>3. CASE Fill(p, k) \/ LinkReport(p, k)
    BY <1>5, <2>1, <2>3 DEF Fill, LinkReport, Writes, Steps, UnderWay
  <2>4. CASE Goto(p, "md") \/ Goto(p, "commit")
    BY <1>5, <2>1, <2>4 DEF Writes, Steps, UnderWay
  <2> QED
    BY <1>14, <2>2, <2>3, <2>4 DEF CopyReport
<1>15. ASSUME NEW p \in Reporters, Finish(p)
       PROVE  Newer'
  <2>1. /\ reporter'[p].pc = "retain" /\ \A q \in Reporters \ {p} : reporter'[q] = reporter[q]
    BY <1>1, <1>15, OneGoes DEF Finish, Shapes, Steps
  <2>2. \A q \in Reporters \ {p} : reporter'[q].pc \notin Writes
    BY <1>1, <1>2, <1>15, <2>1, OthersRest DEF Finish, Held, UnderWay
  <2> QED
    BY <2>1, <2>2, NewerStays DEF Writes
<1>16. ASSUME NEW p \in Reporters, ReportFault(p)
       PROVE  Newer'
  <2>1. CASE AttemptFails(p) /\ UNCHANGED rows /\ ~Fail(p)
    <3>1. PICK x : x = [reporter[p] EXCEPT !.attempt = @ + 1]
      OBVIOUS
    <3>2. x \in Process /\ x.pc = "codex"
      BY <1>7, <2>1, <3>1 DEF Process, AttemptFails
    <3> QED
      BY <1>6, <2>1, <3>1, <3>2 DEF AttemptFails, Writes
  <2>2. CASE Fail(p) /\ reporter[p].pc \in Held
    BY <1>4, <2>2 DEF Fail
  <2>3. CASE GitFails(p) \/ KillReporter(p)
    BY <1>4, <2>3 DEF GitFails, KillReporter, GiveUp
  <2>4. CASE FinishFails(p) /\ ~Fail(p)
    BY <1>4, <2>4 DEF FinishFails
  <2>5. AttemptFails(p) \/ WriteFails(p) \/ FinishFails(p) => reporter[p].pc \in Held
    BY DEF AttemptFails, WriteFails, FinishFails, Held, UnderWay
  <2> QED
    BY <1>16, <2>1, <2>2, <2>3, <2>4, <2>5 DEF ReportFault, AttemptFails, WriteFails, FinishFails
<1> QED
  BY <1>8, <1>9, <1>10, <1>11, <1>12, <1>13, <1>14, <1>15, <1>16 DEF ReportsNext, ReportStep

\* A replacement of a date brings a newer report than any recorded one of it, at
\* every step: the lock keeps all other runs from recording one meanwhile.
THEOREM ReplacementsAreNewer == ReportsSpec => []Newer
<1>1. Replacing /\ Newer /\ [ReportsNext]_reportVars => Newer'
  BY NewerStep
<1> QED
  BY <1>1, NewerStart, ReplacingHolds, PTL DEF ReportsSpec

-----------------------------------------------------------------------------
(* What a step changes of what is seen. *)

\* A reader gets what the pointer names if it is on disk, of both files.
LEMMA PageIs ==
  ASSUME Replacing
  PROVE  Page = [d \in Dates |-> Published!Pair(OnPage(d))]
<1>1. ASSUME NEW d \in Dates, NEW k \in Kinds
      PROVE  Reads(d, k) = OnPage(d)
  <2>1. Stored(d)
    BY DEF Replacing
  <2>2. CASE Has(d, disk[d].current)
    BY <2>1, <2>2 DEF Stored, Reads, Has, Whole, Kinds, OnPage, Shown
  <2>3. CASE ~Has(d, disk[d].current)
    BY <2>3 DEF Reads, Has, OnPage, Shown
  <2> QED
    BY <2>2, <2>3
<1> QED
  BY <1>1 DEF Page, Kinds, Published!Pair

\* The same after a step.
LEMMA PageWillBe ==
  ASSUME Replacing'
  PROVE  Page' = [d \in Dates |-> Published!Pair(OnPage(d)')]
<1>1. ASSUME NEW d \in Dates, NEW k \in Kinds
      PROVE  Reads(d, k)' = OnPage(d)'
  <2>1. Stored(d)'
    BY DEF Replacing
  <2>2. CASE Has(d, disk[d].current)'
    BY <2>1, <2>2 DEF Stored, Reads, Has, Whole, Kinds, OnPage, Shown
  <2>3. CASE ~Has(d, disk[d].current)'
    BY <2>3 DEF Reads, Has, OnPage, Shown
  <2> QED
    BY <2>2, <2>3
<1> QED
  BY <1>1 DEF Page, Kinds, Published!Pair

\* While no process is between the pointer and the clean-up, no report is on trial.
LEMMA NoTrial ==
  ASSUME \A q \in Reporters : reporter[q].pc # "settle"
  PROVE  Trial = {}
BY DEF Trial

\* The same after a step.
LEMMA NoTrialThen ==
  ASSUME \A q \in Reporters : reporter'[q].pc # "settle"
  PROVE  Trial' = {}
BY DEF Trial

\* Of the processes only the lock's holder can be there.
LEMMA HoldersTrial ==
  ASSUME Replacing, NEW p \in Reporters, reporter[p].pc \in Held
  PROVE  /\ reporter[p].pc # "settle" => Trial = {}
         /\ reporter[p].pc = "settle" =>
              Trial = {[date |-> reporter[p].date,
                        back |-> Shown(reporter[p].date, reporter[p].prev)]}
<1>1. \A q \in Reporters \ {p} : reporter[q].pc \notin Held
  BY OneHolds DEF Replacing
<1>2. \A q \in Reporters \ {p} : reporter[q].pc # "settle"
  BY <1>1 DEF Held, UnderWay
<1>3. CASE reporter[p].pc # "settle"
  BY <1>2, <1>3, NoTrial
<1>4. CASE reporter[p].pc = "settle"
  BY <1>2, <1>4 DEF Trial
<1> QED
  BY <1>3, <1>4

\* The same after a step.
LEMMA HoldersTrialThen ==
  ASSUME Replacing', NEW p \in Reporters, reporter'[p].pc \in Held
  PROVE  /\ reporter'[p].pc # "settle" => Trial' = {}
         /\ reporter'[p].pc = "settle" =>
              Trial' = {[date |-> reporter'[p].date,
                         back |-> Shown(reporter[p].date, reporter[p].prev)']}
<1>1. \A q \in Reporters \ {p} : reporter'[q].pc \notin Held
  BY DEF Replacing, Live
<1>2. \A q \in Reporters \ {p} : reporter'[q].pc # "settle"
  BY <1>1 DEF Held, UnderWay
<1>3. CASE reporter'[p].pc # "settle"
  BY <1>2, <1>3, NoTrialThen
<1>4. CASE reporter'[p].pc = "settle"
  BY <1>2, <1>4 DEF Trial
<1> QED
  BY <1>3, <1>4

\* Rows whose successes stay record the same reports.
LEMMA RecordedStays ==
  ASSUME \A d \in Dates : /\ Successes(d)' = Successes(d)
                          /\ \A i \in Successes(d) : rows'[i].gen = rows[i].gen
  PROVE  AllRecorded' = AllRecorded
<1>1. \A d \in Dates : Recorded(d) = {rows[i].gen : i \in Successes(d)}
  BY DEF Recorded, Successes
<1>2. \A d \in Dates : Recorded(d)' = {rows'[i].gen : i \in Successes(d)'}
  BY DEF Recorded, Successes
<1>3. \A d \in Dates : Recorded(d)' = Recorded(d)
  BY <1>1, <1>2
<1> QED
  BY <1>3 DEF AllRecorded

\* The dates too old are the same until a day passes.
LEMMA OldStays ==
  ASSUME UNCHANGED due
  PROVE  Old' = Old
BY DEF Old, Expired

\* A page whose pointers lead to what they led to before is the same.
LEMMA PageStays ==
  ASSUME Replacing, Replacing', \A d \in Dates : OnPage(d)' = OnPage(d)
  PROVE  Page' = Page
BY PageIs, PageWillBe
-----------------------------------------------------------------------------
(* Each step is one of the published report's, or shows nothing. *)

PublishedStep == [Published!Next]_(Published!vars)

\* Nothing that is seen changes.
LEMMA SeesNothing ==
  ASSUME Seen' = Seen
  PROVE  PublishedStep
BY DEF Seen, PublishedStep, Published!vars, AllRecorded, Old

\* Steps of one process that are not at the pointer.
LEMMA StepUnseen ==
  ASSUME Replacing, Replacing', NEW p \in Reporters,
         reporter[p].pc # "settle", reporter'[p].pc # "settle",
         \A q \in Reporters \ {p} : reporter'[q] = reporter[q],
         UNCHANGED <<due, undone>>, AllRecorded' = AllRecorded,
         \/ UNCHANGED disk
         \/ reporter[p].pc \in Held /\ \A d \in Dates : OnPage(d)' = OnPage(d)
  PROVE  PublishedStep
<1>1. Trial' = Trial
  <2>1. CASE reporter[p].pc \in Held
    <3>1. \A q \in Reporters \ {p} : reporter[q].pc \notin Held /\ reporter'[q].pc \notin Held
      BY <2>1, OthersRest DEF Replacing
    <3>2. \A q \in Reporters : reporter[q].pc # "settle" /\ reporter'[q].pc # "settle"
      BY <3>1 DEF Held, UnderWay
    <3> QED
      BY <3>2, NoTrial, NoTrialThen
  <2>2. CASE UNCHANGED disk
    <3>1. {q \in Reporters : reporter'[q].pc = "settle"} = {q \in Reporters : reporter[q].pc = "settle"}
      OBVIOUS
    <3>2. \A q \in Reporters : reporter[q].pc = "settle" => reporter'[q] = reporter[q]
      OBVIOUS
    <3>3. \A d, n : Shown(d, n)' = Shown(d, n)
      BY <2>2 DEF Shown
    <3> QED
      BY <3>1, <3>2, <3>3 DEF Trial
  <2> QED
    BY <2>1, <2>2
<1>2. \A d \in Dates : OnPage(d)' = OnPage(d)
  BY DEF OnPage, Shown
<1>3. Page' = Page
  BY <1>2, PageStays
<1> QED
  BY <1>1, <1>3, OldStays, SeesNothing DEF Seen

\* The same of a step that goes on to s.
LEMMA GoesUnseen ==
  ASSUME Replacing, Replacing', NEW p \in Reporters, NEW s \in Steps, Goto(p, s),
         reporter[p].pc # "settle", s # "settle",
         UNCHANGED <<due, undone>>, AllRecorded' = AllRecorded,
         \/ UNCHANGED disk
         \/ reporter[p].pc \in Held /\ \A d \in Dates : OnPage(d)' = OnPage(d)
  PROVE  PublishedStep
<1>1. /\ reporter'[p].pc = s /\ \A q \in Reporters \ {p} : reporter'[q] = reporter[q]
  BY OneGoes DEF Replacing, Shapes
<1> QED
  BY <1>1, StepUnseen

\* The same of a step that puts a process at x.
LEMMA PutsUnseen ==
  ASSUME Replacing, Replacing', NEW p \in Reporters, NEW x \in Process,
         reporter' = [reporter EXCEPT ![p] = x],
         reporter[p].pc # "settle", x.pc # "settle",
         UNCHANGED <<due, undone>>, AllRecorded' = AllRecorded,
         \/ UNCHANGED disk
         \/ reporter[p].pc \in Held /\ \A d \in Dates : OnPage(d)' = OnPage(d)
  PROVE  PublishedStep
<1>1. reporter'[p] = x /\ \A q \in Reporters \ {p} : reporter'[q] = reporter[q]
  BY OneMoves DEF Replacing, Shapes
<1> QED
  BY <1>1, StepUnseen

\* Rows that stay, or of which one that ran is marked failed, record the same.
LEMMA EndsUnrecorded ==
  ASSUME Replacing, NEW p \in Reporters,
         \/ UNCHANGED rows
         \/ /\ reporter[p].pc \in UnderWay
            /\ rows' = [rows EXCEPT ![reporter[p].row].status = "failed"]
  PROVE  AllRecorded' = AllRecorded
<1>1. CASE UNCHANGED rows
  BY <1>1 DEF AllRecorded, Recorded
<1>2. CASE /\ reporter[p].pc \in UnderWay
           /\ rows' = [rows EXCEPT ![reporter[p].row].status = "failed"]
  <2>1. /\ DOMAIN rows' = DOMAIN rows
        /\ \A i \in DOMAIN rows : rows'[i].gen = rows[i].gen
        /\ \A d \in Dates : Successes(d)' = Successes(d)
    BY <1>2, FailedRow DEF Replacing
  <2> QED
    BY <2>1, RecordedStays DEF Successes
<1> QED
  BY <1>1, <1>2

\* Runs that end before the pointer moves, or are refused, show nothing.
LEMMA EndsUnseen ==
  ASSUME Replacing, Replacing', NEW p \in Reporters,
         reporter' = [reporter EXCEPT ![p] = Resting], reporter[p].pc # "settle",
         \/ UNCHANGED rows
         \/ /\ reporter[p].pc \in UnderWay
            /\ rows' = [rows EXCEPT ![reporter[p].row].status = "failed"],
         UNCHANGED <<due, undone>>,
         \/ UNCHANGED disk
         \/ reporter[p].pc \in Held /\ \A d \in Dates : OnPage(d)' = OnPage(d)
  PROVE  PublishedStep
<1>1. Resting \in Process /\ Resting.pc # "settle"
  BY RestingProcess DEF Resting
<1> HIDE DEF Resting
<1> QED
  BY <1>1, EndsUnrecorded, PutsUnseen

\* The calendar goes on, and more dates are too old.
LEMMA DayIsAge ==
  ASSUME Replacing, Replacing', DayPasses
  PROVE  PublishedStep
<1>1. /\ due \in Nat /\ LastDate \in Nat /\ RetentionDays \in Nat /\ due' = due + 1
      /\ UNCHANGED <<rows, disk, undone, reporter>>
  BY ReportAssumption DEF DayPasses, Replacing, Shapes, Dates
<1>2. Old \subseteq Old'
  BY <1>1 DEF Old, Expired, Dates
<1>3. Page' = Page
  BY <1>1, PageStays DEF OnPage, Shown
<1>4. Trial' = Trial
  BY <1>1 DEF Trial, Shown
<1>5. AllRecorded' = AllRecorded
  BY <1>1 DEF AllRecorded, Recorded
<1>6. Published!Age
  BY <1>1, <1>2, <1>3, <1>4, <1>5 DEF Published!Age, Old, AllRecorded
<1> QED
  BY <1>6 DEF PublishedStep, Published!Next

\* Steps outside of the lock, and Codex's.
LEMMA OutsideUnseen ==
  ASSUME Replacing, Replacing', NEW p \in Reporters,
         \/ \E d \in Dates, rules \in BOOLEAN : Command(p, d, rules)
         \/ Schedule(p) \/ Acquire(p) \/ Analyse(p) \/ AttemptFails(p) \/ FinishFails(p)
         \/ SyncUpstream(p) \/ CommitArchive(p) \/ Push(p) \/ GitFails(p)
         \/ \E k \in Kinds : CopyReport(p, k)
  PROVE  PublishedStep
<1>1. reporter[p] \in Process /\ Shapes
  BY DEF Replacing, Shapes
<1>2. ASSUME UNCHANGED rows
      PROVE  AllRecorded' = AllRecorded
  BY <1>2 DEF AllRecorded, Recorded
<1>3. CASE \E d \in Dates, rules \in BOOLEAN : Command(p, d, rules)
  <2>1. PICK d \in Dates, rules \in BOOLEAN : Command(p, d, rules)
    BY <1>3
  <2>2. PICK x : x = [Resting EXCEPT !.date = d, !.rules = rules, !.pc = "wait"]
    OBVIOUS
  <2>3. x \in Process /\ x.pc # "settle"
    BY <2>2, RestingProcess DEF Process, Steps, Flag
  <2> QED
    BY <1>2, <2>1, <2>2, <2>3, PutsUnseen DEF Command
<1>4. CASE Schedule(p)
  <2>1. PICK s \in {"sync", "wait"} : s = IF IsComplete(due, TRUE) THEN "sync" ELSE "wait"
    OBVIOUS
  <2>2. PICK x : x = [Resting EXCEPT !.date = due, !.skip = TRUE, !.pc = s]
    OBVIOUS
  <2>3. TRUE \in Flag /\ due \in Dates
    BY <1>1 DEF Flag, Shapes
  <2>4. x \in Process /\ x.pc # "settle"
    BY <2>2, <2>3, RestingProcess DEF Process, Steps
  <2> QED
    BY <1>2, <1>4, <2>1, <2>2, <2>4, PutsUnseen DEF Schedule
<1>5. CASE Acquire(p)
  <2>1. CASE reporter' = [reporter EXCEPT ![p] = Resting] /\ UNCHANGED rows
    BY <1>5, <2>1, EndsUnseen DEF Acquire
  <2>2. CASE /\ rows' = Begun(reporter[p].date)
             /\ reporter' = [reporter EXCEPT ![p] =
                  [reporter[p] EXCEPT !.row = Len(rows) + 1,
                                      !.pc = IF reporter[p].rules THEN "make" ELSE "codex"]]
    <3>1. PICK s \in {"make", "codex"} : s = IF reporter[p].rules THEN "make" ELSE "codex"
      OBVIOUS
    <3>2. PICK x : x = [reporter[p] EXCEPT !.row = Len(rows) + 1, !.pc = s]
      OBVIOUS
    <3>3. Len(rows) + 1 \in Nat /\ rows \in Seq(Row) /\ reporter[p].date \in Dates
      BY <1>1, LenProperties DEF Shapes, Process
    <3>4. x \in Process /\ x.pc # "settle"
      BY <1>1, <3>1, <3>2, <3>3 DEF Process, Steps, UnderWay
    <3>5. /\ DOMAIN rows' = DOMAIN rows \cup {Len(rows) + 1}
          /\ rows'[Len(rows) + 1].status = "running"
          /\ \A i \in DOMAIN rows :
               /\ rows'[i].date = rows[i].date /\ rows'[i].gen = rows[i].gen
               /\ rows'[i].status = "success" <=> rows[i].status = "success"
      <4> HIDE DEF Begun
      <4>1. /\ DOMAIN Begun(reporter[p].date) = DOMAIN rows \cup {Len(rows) + 1}
            /\ Begun(reporter[p].date)[Len(rows) + 1]
                 = [date |-> reporter[p].date, status |-> "running", gen |-> NoReport]
            /\ \A i \in DOMAIN rows :
                 /\ Begun(reporter[p].date)[i].date = rows[i].date
                 /\ Begun(reporter[p].date)[i].gen = rows[i].gen
                 /\ Begun(reporter[p].date)[i].status = "success" <=> rows[i].status = "success"
        BY <3>3, BegunRows
      <4> QED
        BY <2>2, <4>1
    <3>6. AllRecorded' = AllRecorded
      BY <3>5, RecordedStays DEF Successes
    <3> QED
      BY <1>5, <2>2, <3>1, <3>2, <3>4, <3>6, PutsUnseen DEF Acquire
  <2> QED
    BY <1>5, <2>1, <2>2 DEF Acquire
<1>6. CASE Analyse(p)
  BY <1>2, <1>6, GoesUnseen DEF Analyse, Steps, UnderWay
<1>7. CASE AttemptFails(p)
  <2>1. CASE Fail(p)
    BY <1>7, <2>1, EndsUnseen DEF AttemptFails, Fail, UnderWay
  <2>2. CASE reporter' = [reporter EXCEPT ![p].attempt = @ + 1] /\ UNCHANGED rows
    <3>1. PICK x : x = [reporter[p] EXCEPT !.attempt = @ + 1]
      OBVIOUS
    <3>2. x \in Process /\ x.pc = "codex"
      BY <1>1, <1>7, <3>1 DEF Process, AttemptFails
    <3> QED
      BY <1>2, <1>7, <2>2, <3>1, <3>2, PutsUnseen DEF AttemptFails
  <2> QED
    BY <1>7, <2>1, <2>2 DEF AttemptFails
<1>8. CASE FinishFails(p)
  BY <1>8, EndsUnseen DEF FinishFails, Fail, UnderWay
<1>9. CASE /\ GiveUp(p) /\ UNCHANGED <<due, rows, disk, undone>>
           /\ reporter[p].pc \in {"sync", "json", "md", "commit", "push"}
  BY <1>9, EndsUnseen DEF GiveUp
<1>10. ASSUME NEW s \in {"json", "md", "commit", "push"}, Goto(p, s),
              UNCHANGED <<due, rows, disk, undone>>,
              reporter[p].pc \in {"sync", "json", "md", "commit"}
       PROVE  PublishedStep
  BY <1>2, <1>10, GoesUnseen DEF Steps
<1>11. CASE SyncUpstream(p) \/ CommitArchive(p) \/ Push(p) \/ GitFails(p)
  BY <1>9, <1>10, <1>11 DEF SyncUpstream, CommitArchive, Push, GitFails
<1>12. CASE \E k \in Kinds : CopyReport(p, k)
  BY <1>9, <1>10, <1>12 DEF CopyReport, Kinds
<1> QED
  BY <1>3, <1>4, <1>5, <1>6, <1>7, <1>8, <1>11, <1>12
\* A generation that is begun, filled or linked to is not seen yet.
LEMMA WritesUnseen ==
  ASSUME Replacing, Replacing', NEW p \in Reporters,
         MakeGeneration(p) \/ \E k \in Kinds : Fill(p, k) \/ LinkReport(p, k)
  PROVE  PublishedStep
<1>1. PICK d : d = reporter[p].date
  OBVIOUS
<1>2. /\ Shapes /\ reporter[p] \in Process /\ d \in Dates /\ disk[d] \in Folder
      /\ Stored(d) /\ Writing(p) /\ disk \in [Dates -> Folder] /\ Len(made) \in Nat
  BY <1>1, LenProperties DEF Replacing, Shapes, Process
<1>3. AllRecorded' = AllRecorded /\ UNCHANGED <<due, undone>>
  <2>1. UNCHANGED <<due, rows, undone>>
    BY DEF MakeGeneration, Fill, LinkReport
  <2> QED
    BY <2>1 DEF AllRecorded, Recorded
<1>4. CASE MakeGeneration(p)
  <2>1. PICK n : n = Len(made) + 1
    OBVIOUS
  <2>2. PICK x : x = [reporter[p] EXCEPT !.gen = n, !.prev = disk[d].current, !.pc = "fill"]
    OBVIOUS
  <2>3. disk[d].current \in Nat /\ disk[d].current <= Len(made) /\ n \in Nat
    BY <1>2, <2>1 DEF Folder, Stored
  <2>4. x \in Process /\ x.pc = "fill"
    BY <1>2, <2>2, <2>3 DEF Process, Steps, UnderWay
  <2>5. /\ \A e \in Dates \ {d} : disk'[e] = disk[e]
        /\ disk'[d].current = disk[d].current
        /\ disk'[d].gens = disk[d].gens \cup {[n |-> n, files |-> {}]}
    BY <1>1, <1>2, <1>4, <2>1 DEF MakeGeneration, Folder
  <2>6. disk[d].current # n
    BY <1>2, <2>1, <2>3
  <2>7. \A e \in Dates : OnPage(e)' = OnPage(e)
    BY <2>5, <2>6 DEF OnPage, Shown
  <2>8. reporter' = [reporter EXCEPT ![p] = x] /\ reporter[p].pc = "make"
    BY <1>1, <1>4, <2>1, <2>2 DEF MakeGeneration
  <2> QED
    BY <1>3, <2>4, <2>7, <2>8, PutsUnseen DEF Held, UnderWay
<1>5. ASSUME NEW k \in Kinds, Fill(p, k)
      PROVE  PublishedStep
  <2>1. PICK n : n = reporter[p].gen
    OBVIOUS
  <2>2. PICK g : g = CHOOSE h \in disk[d].gens : h.n = n
    OBVIOUS
  <2>3. /\ reporter[p].pc = "fill" /\ n \in Nat /\ reporter[p].prev \in Nat
    BY <1>2, <1>5, <2>1 DEF Fill, Process
  <2>4. Has(d, n) /\ disk[d].current # n
    BY <1>1, <1>2, <2>1, <2>3 DEF Writing
  <2>5. g \in disk[d].gens /\ g.n = n /\ g \in Generation
    BY <1>2, <2>2, <2>4 DEF Has, Folder
  <2>6. PICK new : new = [g EXCEPT !.files = @ \cup {k}]
    OBVIOUS
  <2>7. new.n = n
    BY <2>5, <2>6 DEF Generation
  <2>8. /\ \A e \in Dates \ {d} : disk'[e] = disk[e]
        /\ disk'[d].current = disk[d].current
        /\ disk'[d].gens = {h \in disk[d].gens : h.n # n} \cup {new}
    <3>1. disk' = [disk EXCEPT ![d].gens = {h \in disk[d].gens : h.n # n} \cup {new}]
      BY <1>1, <1>2, <1>5, <2>1, <2>2, <2>6 DEF Fill, Without, Folder
    <3> QED
      BY <1>2, <3>1 DEF Folder
  <2>9. \A e \in Dates : OnPage(e)' = OnPage(e)
    BY <2>4, <2>7, <2>8 DEF OnPage, Shown
  <2>10. CASE Goto(p, "link") \/ Goto(p, "fill")
    BY <1>3, <2>3, <2>9, <2>10, GoesUnseen DEF Held, UnderWay, Steps
  <2> QED
    BY <1>5, <2>10 DEF Fill
<1>6. ASSUME NEW k \in Kinds, LinkReport(p, k)
      PROVE  PublishedStep
  <2>1. /\ \A e \in Dates \ {d} : disk'[e] = disk[e]
        /\ disk'[d].current = disk[d].current /\ disk'[d].gens = disk[d].gens
    BY <1>1, <1>2, <1>6 DEF LinkReport, Folder
  <2>2. \A e \in Dates : OnPage(e)' = OnPage(e)
    BY <2>1 DEF OnPage, Shown
  <2>3. reporter[p].pc = "link"
    BY <1>6 DEF LinkReport
  <2>4. CASE Goto(p, "switch") \/ Goto(p, "link")
    BY <1>3, <2>2, <2>3, <2>4, GoesUnseen DEF Held, UnderWay, Steps
  <2> QED
    BY <1>6, <2>4 DEF LinkReport
<1> QED
  BY <1>4, <1>5, <1>6

\* What is recorded of a date, as a set of numbers.
LEMMA RecordedIs ==
  ASSUME NEW d \in Dates, NEW m \in Recorded(d)
  PROVE  \E i \in Successes(d) : rows[i].gen = m
BY DEF Recorded, Successes

\* The pointer moves: the report is published.
LEMMA SwitchIsPublish ==
  ASSUME Replacing, Newer, Replacing', NEW p \in Reporters, SwitchPointer(p)
  PROVE  PublishedStep
<1>1. PICK d : d = reporter[p].date
  OBVIOUS
<1>2. PICK n : n = reporter[p].gen
  OBVIOUS
<1>3. PICK v : v = reporter[p].prev
  OBVIOUS
<1>4. /\ Shapes /\ reporter[p] \in Process /\ d \in Dates /\ disk[d] \in Folder
      /\ Stored(d) /\ Writing(p) /\ disk \in [Dates -> Folder] /\ n \in Nat /\ v \in Nat
      /\ reporter[p].pc = "switch"
  BY <1>1, <1>2, <1>3 DEF Replacing, Shapes, Process, SwitchPointer
<1>5. Has(d, n) /\ v < n /\ disk[d].current = v
  BY <1>1, <1>2, <1>3, <1>4 DEF Writing
<1>6. /\ \A e \in Dates \ {d} : disk'[e] = disk[e]
      /\ disk'[d].current = n /\ disk'[d].gens = disk[d].gens
  BY <1>1, <1>2, <1>4 DEF SwitchPointer, Folder
<1>7. /\ reporter'[p].pc = "settle" /\ reporter'[p].date = d /\ reporter'[p].prev = v
      /\ \A q \in Reporters \ {p} : reporter'[q] = reporter[q]
  <2>1. /\ reporter'[p].pc = "settle"
        /\ \A f \in {"date", "row", "gen", "prev"} : reporter'[p][f] = reporter[p][f]
        /\ \A q \in Reporters \ {p} : reporter'[q] = reporter[q]
    BY <1>4, OneGoes DEF SwitchPointer, Shapes, Steps, UnderWay
  <2> QED
    BY <1>1, <1>3, <2>1
<1>8. OnPage(d) = Shown(d, v) /\ OnPage(d)' = n /\ Shown(d, v)' = Shown(d, v)
  BY <1>5, <1>6 DEF OnPage, Shown, Has
<1>9. n > Shown(d, v)
  BY <1>4, <1>5 DEF Shown, NoReport
<1>10. Trial = {} /\ Trial' = {[date |-> d, back |-> Shown(d, v)]}
  <2>1. Trial = {}
    BY <1>4, HoldersTrial DEF Held, UnderWay
  <2>2. Trial' = {[date |-> reporter'[p].date,
                   back |-> Shown(reporter[p].date, reporter[p].prev)']}
    BY <1>7, HoldersTrialThen DEF Held, UnderWay
  <2>3. Shown(reporter[p].date, reporter[p].prev)' = Shown(d, v)'
    BY <1>7 DEF Shown
  <2> QED
    BY <1>7, <1>8, <2>1, <2>2, <2>3
<1>11. Page' = [Page EXCEPT ![d] = Published!Pair(n)] /\ Page[d].md = Shown(d, v) /\ Page'[d].md = n
  <2>1. \A e \in Dates \ {d} : OnPage(e)' = OnPage(e)
    BY <1>6 DEF OnPage, Shown
  <2>2. Page = [e \in Dates |-> Published!Pair(OnPage(e))]
    BY PageIs
  <2>3. Page' = [e \in Dates |-> Published!Pair(OnPage(e)')]
    BY PageWillBe
  <2>4. Page' = [Page EXCEPT ![d] = Published!Pair(n)]
    BY <1>8, <2>1, <2>2, <2>3
  <2>5. Page[d].md = Shown(d, v) /\ Page'[d].md = n
    BY <1>4, <1>8, <2>2, <2>3 DEF Published!Pair
  <2> QED
    BY <2>4, <2>5
<1>12. \A m \in Recorded(d) : n > m
  <2>1. \A i \in Successes(d) : rows[i].gen < n
    BY <1>1, <1>2, <1>4 DEF Newer, Writes
  <2>2. \A i \in Successes(d) : rows[i].gen \in Nat
    <3>1. \A i \in DOMAIN rows : rows[i] \in Row
      BY <1>4, RowsAre DEF Shapes
    <3> QED
      BY <3>1 DEF Successes, Row
  <2>3. ASSUME NEW m \in Recorded(d)
        PROVE  n > m
    <3>1. PICK i \in Successes(d) : rows[i].gen = m
      BY <1>4, RecordedIs
    <3> QED
      BY <1>4, <2>1, <2>2, <3>1
  <2> QED
    BY <2>3
<1>13. AllRecorded' = AllRecorded /\ Old' = Old /\ UNCHANGED undone
  BY OldStays DEF AllRecorded, Recorded, SwitchPointer
<1>14. Published!Publish(d)
  <2>1. \A m \in [e \in Dates |-> Recorded(e)][d] : n > m
    BY <1>4, <1>12
  <2> QED
    BY <1>9, <1>10, <1>11, <1>13, <2>1 DEF Published!Publish, AllRecorded, Old
<1> QED
  BY <1>4, <1>14 DEF PublishedStep, Published!Next

\* The files are settled, or the process dies when they show the new report.
LEMMA SettleIsKeep ==
  ASSUME Replacing, Replacing', NEW p \in Reporters, reporter[p].pc = "settle",
         Settle(p) \/ KillReporter(p)
  PROVE  PublishedStep
<1>1. PICK d : d = reporter[p].date
  OBVIOUS
<1>2. /\ Shapes /\ reporter[p] \in Process /\ d \in Dates /\ disk[d] \in Folder
      /\ Writing(p) /\ disk \in [Dates -> Folder]
  BY <1>1 DEF Replacing, Shapes, Process
<1>3. AllRecorded' = AllRecorded /\ UNCHANGED <<due, undone>>
  BY DEF AllRecorded, Recorded, Settle, KillReporter
<1>4. Page' = Page
  <2>1. CASE Settle(p)
    <3>1. disk[d].current = reporter[p].gen
      BY <1>1, <1>2 DEF Writing
    <3>2. /\ \A e \in Dates \ {d} : disk'[e] = disk[e]
          /\ disk'[d].current = disk[d].current
          /\ disk'[d].gens = {g \in disk[d].gens : g.n = disk[d].current}
      BY <1>1, <1>2, <2>1, <3>1 DEF Settle, Folder
    <3>3. \A e \in Dates : OnPage(e)' = OnPage(e)
      BY <3>2 DEF OnPage, Shown
    <3> QED
      BY <3>3, PageStays
  <2>2. CASE KillReporter(p)
    BY <2>2, PageStays DEF KillReporter, OnPage, Shown
  <2> QED
    BY <2>1, <2>2
<1>5. Trial # {} /\ Trial' = {}
  <2>1. /\ reporter'[p].pc # "settle"
        /\ \A q \in Reporters \ {p} : reporter'[q] = reporter[q]
    <3>1. CASE Settle(p)
      <4>1. Goto(p, "finish") /\ "finish" \in Steps
        BY <3>1 DEF Settle, Steps, UnderWay
      <4>2. /\ reporter'[p].pc = "finish"
            /\ \A q \in Reporters \ {p} : reporter'[q] = reporter[q]
        BY <1>2, <4>1, OneGoes DEF Shapes
      <4> QED
        BY <4>2
    <3>2. CASE KillReporter(p)
      <4>1. reporter'[p] = Resting /\ \A q \in Reporters \ {p} : reporter'[q] = reporter[q]
        BY <1>2, <3>2, OneMoves, RestingProcess DEF KillReporter, Shapes
      <4> QED
        BY <4>1 DEF Resting
    <3> QED
      BY <3>1, <3>2
  <2>2. \A q \in Reporters \ {p} : reporter'[q].pc \notin Held
    BY <2>1, OthersRest DEF Replacing, Held, UnderWay
  <2>3. \A q \in Reporters : reporter'[q].pc # "settle"
    BY <2>1, <2>2 DEF Held, UnderWay
  <2> QED
    BY <2>3, NoTrialThen DEF Trial
<1>6. Published!Keep
  BY <1>3, <1>4, <1>5, OldStays DEF Published!Keep, AllRecorded, Old
<1> QED
  BY <1>6 DEF PublishedStep, Published!Next

\* A process that dies anywhere else shows nothing.
LEMMA KillIsKeep ==
  ASSUME Replacing, Replacing', NEW p \in Reporters, KillReporter(p)
  PROVE  PublishedStep
<1>1. CASE reporter[p].pc = "settle"
  BY <1>1, SettleIsKeep
<1>2. CASE reporter[p].pc # "settle"
  BY <1>2, EndsUnseen DEF KillReporter
<1> QED
  BY <1>1, <1>2
\* A write that fails before the pointer has moved shows nothing; after it, the
\* report is withdrawn, or the date's files are lost.
LEMMA WriteFailsIsWithdraw ==
  ASSUME Replacing, Replacing', NEW p \in Reporters, WriteFails(p)
  PROVE  PublishedStep
<1>1. PICK d : d = reporter[p].date
  OBVIOUS
<1>2. PICK n : n = reporter[p].gen
  OBVIOUS
<1>3. PICK v : v = reporter[p].prev
  OBVIOUS
<1>4. /\ Shapes /\ reporter[p] \in Process /\ d \in Dates /\ disk[d] \in Folder
      /\ Writing(p) /\ disk \in [Dates -> Folder] /\ n \in Nat /\ v \in Nat
      /\ reporter[p].pc \in {"fill", "link", "switch", "settle"}
  BY <1>1, <1>2, <1>3 DEF Replacing, Shapes, Process, WriteFails
<1>5. v < n /\ reporter[p].pc \in UnderWay /\ reporter[p].pc \in Held
  BY <1>2, <1>3, <1>4 DEF Writing, UnderWay, Held
<1>6. PICK restored \in BOOLEAN :
         /\ ~restored => reporter[p].pc = "settle"
         /\ disk' = [disk EXCEPT ![d] = RolledBack(@, reporter[p], restored)]
         /\ undone' = IF restored THEN undone ELSE undone \cup {d}
  BY <1>1 DEF WriteFails
<1>7. PICK c : c = IF reporter[p].pc = "settle" /\ restored THEN v ELSE disk[d].current
  OBVIOUS
<1>8. /\ \A e \in Dates \ {d} : disk'[e] = disk[e]
      /\ disk'[d].gens = {g \in disk[d].gens : g.n # n}
      /\ disk'[d].current = c
  <2>1. PICK f : f = RolledBack(disk[d], reporter[p], restored)
    OBVIOUS
  <2>2. f.gens = {g \in disk[d].gens : g.n # n} /\ f.current = c
    BY <1>2, <1>3, <1>7, <2>1 DEF RolledBack, Without
  <2>3. disk' = [disk EXCEPT ![d] = f]
    BY <1>6, <2>1
  <2> QED
    BY <1>4, <2>2, <2>3
<1>9. \A e \in Dates \ {d} : OnPage(e)' = OnPage(e)
  BY <1>8 DEF OnPage, Shown
<1>10. /\ rows' = [rows EXCEPT ![reporter[p].row].status = "failed"]
       /\ reporter' = [reporter EXCEPT ![p] = Resting] /\ UNCHANGED due
  BY DEF WriteFails, Fail
<1>11. AllRecorded' = AllRecorded /\ Old' = Old
  BY <1>5, <1>10, EndsUnrecorded, OldStays
<1>12. CASE reporter[p].pc # "settle"
  <2>1. disk[d].current = v /\ c = v /\ undone' = undone
    BY <1>1, <1>3, <1>4, <1>6, <1>7, <1>12 DEF Writing
  <2>2. v # n
    BY <1>4, <1>5
  <2>3. OnPage(d)' = OnPage(d)
    BY <1>8, <2>1, <2>2 DEF OnPage, Shown
  <2>4. \A e \in Dates : OnPage(e)' = OnPage(e)
    BY <1>9, <2>3
  <2> QED
    BY <1>5, <1>10, <1>12, <2>1, <2>4, EndsUnseen
<1>13. CASE reporter[p].pc = "settle"
  <2>1. Trial = {[date |-> d, back |-> Shown(d, v)]}
    BY <1>1, <1>3, <1>5, <1>13, HoldersTrial
  <2>2. Trial' = {}
    <3>1. reporter'[p] = Resting /\ \A q \in Reporters \ {p} : reporter'[q] = reporter[q]
      BY <1>4, <1>10, OneMoves, RestingProcess DEF Shapes
    <3>2. \A q \in Reporters \ {p} : reporter'[q].pc \notin Held
      BY <1>5, <3>1, OthersRest DEF Replacing
    <3>3. \A q \in Reporters : reporter'[q].pc # "settle"
      BY <3>1, <3>2 DEF Held, UnderWay, Resting
    <3> QED
      BY <3>3, NoTrialThen
  <2>3. PICK m : m = IF restored THEN Shown(d, v) ELSE 0
    OBVIOUS
  <2>4. OnPage(d)' = m
    <3>1. CASE restored
      <4>1. c = v /\ v # n
        BY <1>4, <1>5, <1>7, <1>13, <3>1
      <4> QED
        BY <1>8, <2>3, <3>1, <4>1 DEF OnPage, Shown
    <3>2. CASE ~restored
      <4>1. c = n
        BY <1>1, <1>2, <1>4, <1>7, <1>13, <3>2 DEF Writing
      <4> QED
        BY <1>8, <2>3, <3>2, <4>1 DEF OnPage, Shown, NoReport
    <3> QED
      BY <3>1, <3>2
  <2>5. Page' = [Page EXCEPT ![d] = Published!Pair(m)]
    <3>1. Page = [e \in Dates |-> Published!Pair(OnPage(e))]
      BY PageIs
    <3>2. Page' = [e \in Dates |-> Published!Pair(OnPage(e)')]
      BY PageWillBe
    <3> QED
      BY <1>4, <1>9, <2>4, <3>1, <3>2
  <2>6. CASE restored
    <3>1. Published!Withdraw(d)
      BY <1>6, <1>11, <2>1, <2>2, <2>3, <2>5, <2>6 DEF Published!Withdraw, AllRecorded, Old
    <3> QED
      BY <1>4, <3>1 DEF PublishedStep, Published!Next
  <2>7. CASE ~restored
    <3>1. Published!Lose(d)
      BY <1>6, <1>11, <2>1, <2>2, <2>3, <2>5, <2>7 DEF Published!Lose, AllRecorded, Old
    <3> QED
      BY <1>4, <3>1 DEF PublishedStep, Published!Next
  <2> QED
    BY <2>6, <2>7
<1> QED
  BY <1>12, <1>13

\* The run's row is a success: what the readers have is recorded.
LEMMA FinishIsRecord ==
  ASSUME Replacing, Replacing', NEW p \in Reporters, Finish(p)
  PROVE  PublishedStep
<1>1. PICK d : d = reporter[p].date
  OBVIOUS
<1>2. PICK n : n = reporter[p].gen
  OBVIOUS
<1>3. PICK w : w = reporter[p].row
  OBVIOUS
<1>4. /\ Shapes /\ reporter[p] \in Process /\ d \in Dates /\ Stored(d) /\ n \in Nat
      /\ Writing(p) /\ Live(p) /\ reporter[p].pc = "finish" /\ Len(made) \in Nat
      /\ DOMAIN made = 1..Len(made)
  BY <1>1, <1>2, LenProperties DEF Replacing, Shapes, Process, Finish
<1>5. Has(d, n) /\ disk[d].current = n /\ n # 0
  BY <1>1, <1>2, <1>4 DEF Writing, Has, Stored
<1>6. /\ w \in DOMAIN rows /\ rows[w].date = d /\ rows[w].status = "running" /\ rows[w] \in Row
      /\ rows \in Seq(Row)
  BY <1>1, <1>3, <1>4, RowsAre DEF Live, UnderWay, Shapes
<1>7. PICK x : x = [rows[w] EXCEPT !.status = "success", !.gen = n]
  OBVIOUS
<1>8. x \in Row /\ x.gen = n /\ x.status = "success" /\ x.date = d
  BY <1>4, <1>6, <1>7 DEF Row, Statuses
<1>9. rows' = [rows EXCEPT ![w] = x]
  BY <1>2, <1>3, <1>7 DEF Finish
<1>10. /\ DOMAIN rows' = DOMAIN rows /\ rows'[w] = x
       /\ \A j \in DOMAIN rows \ {w} : rows'[j] = rows[j]
  BY <1>6, <1>8, <1>9, RowChanged
<1>11. \A e \in Dates : Recorded(e)' = IF e = d THEN Recorded(e) \cup {n} ELSE Recorded(e)
  <2>1. ASSUME NEW e \in Dates
        PROVE  /\ Recorded(e) = {rows[i].gen : i \in Successes(e)}
               /\ Recorded(e)' = {rows'[i].gen : i \in Successes(e)'}
    BY DEF Recorded, Successes
  <2>2. Successes(d)' = Successes(d) \cup {w} /\ w \notin Successes(d)
    BY <1>6, <1>8, <1>10 DEF Successes
  <2>3. \A e \in Dates \ {d} : Successes(e)' = Successes(e) /\ w \notin Successes(e)
    BY <1>6, <1>8, <1>10 DEF Successes
  <2>4. \A e \in Dates : \A i \in Successes(e) : i # w => rows'[i].gen = rows[i].gen
    BY <1>10 DEF Successes
  <2>5. rows'[w].gen = n
    BY <1>8, <1>10
  <2>6. ASSUME NEW e \in Dates \ {d}
        PROVE  Recorded(e)' = Recorded(e)
    BY <2>1, <2>3, <2>4
  <2>7. Recorded(d)' = Recorded(d) \cup {n}
    <3>1. Recorded(d)' = {rows'[i].gen : i \in Successes(d) \cup {w}}
      BY <1>4, <2>1, <2>2
    <3>2. \A i \in Successes(d) : rows'[i].gen = rows[i].gen
      BY <1>4, <2>2, <2>4
    <3> QED
      BY <1>4, <2>1, <2>5, <3>1, <3>2
  <2> QED
    BY <2>6, <2>7
<1>12. /\ UNCHANGED <<due, disk, undone>> /\ reporter[p].pc # "settle" /\ reporter'[p].pc = "retain"
       /\ \A q \in Reporters \ {p} : reporter'[q] = reporter[q]
  <2>1. Goto(p, "retain") /\ UNCHANGED <<due, disk, undone>>
    BY DEF Finish
  <2> QED
    BY <1>4, <2>1, OneGoes DEF Shapes, Steps
<1>13. Page' = Page
  BY <1>12, PageStays DEF OnPage, Shown
<1>14. Trial = {} /\ Trial' = {}
  BY <1>4, <1>12, HoldersTrial, HoldersTrialThen DEF Held, UnderWay
<1>15. Page[d].md = n
  BY <1>4, <1>5, PageIs DEF Published!Pair, OnPage, Shown, Has
<1>16. AllRecorded' = [AllRecorded EXCEPT ![d] = @ \cup {Page[d].md}]
  BY <1>4, <1>11, <1>15 DEF AllRecorded
<1>17. Published!Record(d)
  BY <1>5, <1>12, <1>13, <1>14, <1>15, <1>16, OldStays DEF Published!Record, AllRecorded, Old
<1> QED
  BY <1>4, <1>17 DEF PublishedStep, Published!Next

\* The retention takes the dates that are too old, and from the others nothing
\* that a reader could get.
LEMMA RetainIsExpire ==
  ASSUME Replacing, Replacing', NEW p \in Reporters, Retain(p)
  PROVE  PublishedStep
<1>1. /\ Shapes /\ reporter[p].pc = "retain" /\ Goto(p, "sync") /\ UNCHANGED <<due, rows, undone>>
      /\ disk \in [Dates -> Folder]
  BY DEF Replacing, Shapes, Retain
<1>2. AllRecorded' = AllRecorded /\ Old' = Old
  BY <1>1, OldStays DEF AllRecorded, Recorded
<1>3. CASE UNCHANGED disk
  BY <1>1, <1>2, <1>3, GoesUnseen DEF Steps
<1>4. CASE disk' = [d \in Dates |->
                IF Expired(d) THEN [gens |-> {}, current |-> NoReport, links |-> {}]
                ELSE [disk[d] EXCEPT !.gens =
                        {g \in @ : g.n = disk[d].current \/ made[g.n].due = due}]]
  <2>1. ASSUME NEW d \in Dates, Expired(d)
        PROVE  OnPage(d)' = 0
    <3>1. disk'[d] = [gens |-> {}, current |-> 0, links |-> {}]
      BY <1>4, <2>1 DEF NoReport
    <3>2. disk'[d].gens = {} /\ disk'[d].current = 0
      BY <3>1
    <3> QED
      BY <3>2 DEF OnPage, Shown, NoReport
  <2>2. ASSUME NEW d \in Dates, ~Expired(d)
        PROVE  OnPage(d)' = OnPage(d)
    <3>1. disk'[d] = [disk[d] EXCEPT !.gens =
                        {g \in disk[d].gens : g.n = disk[d].current \/ made[g.n].due = due}]
      BY <1>4, <2>2
    <3>2. disk[d] \in Folder
      BY <1>1
    <3>3. /\ disk'[d].current = disk[d].current
          /\ disk'[d].gens = {g \in disk[d].gens : g.n = disk[d].current \/ made[g.n].due = due}
      BY <3>1, <3>2 DEF Folder
    <3>4. Has(d, disk[d].current)' <=> Has(d, disk[d].current)
      BY <3>3 DEF Has
    <3> QED
      BY <3>3, <3>4 DEF OnPage, Shown, Has
  <2>3. Page' = [d \in Dates |-> IF d \in Old THEN Published!Pair(0) ELSE Page[d]]
    <3>1. Page = [d \in Dates |-> Published!Pair(OnPage(d))]
      BY PageIs
    <3>2. Page' = [d \in Dates |-> Published!Pair(OnPage(d)')]
      BY PageWillBe
    <3>3. \A d \in Dates : Published!Pair(OnPage(d)') = IF d \in Old THEN Published!Pair(0) ELSE Page[d]
      BY <2>1, <2>2, <3>1 DEF Old
    <3> QED
      BY <3>2, <3>3
  <2>4. Trial = {}
    BY <1>1, HoldersTrial DEF Held, UnderWay
  <2>5. Trial' = {}
    <3>1. reporter'[p].pc = "sync" /\ \A q \in Reporters \ {p} : reporter'[q] = reporter[q]
      BY <1>1, OneGoes DEF Shapes, Steps
    <3>2. \A q \in Reporters \ {p} : reporter'[q].pc \notin Held
      BY <1>1, <3>1, OthersRest DEF Replacing, Held
    <3>3. \A q \in Reporters : reporter'[q].pc # "settle"
      BY <3>1, <3>2 DEF Held, UnderWay
    <3> QED
      BY <3>3, NoTrialThen
  <2>6. Published!Expire
    BY <1>1, <1>2, <2>3, <2>4, <2>5 DEF Published!Expire, AllRecorded, Old
  <2> QED
    BY <2>6 DEF PublishedStep, Published!Next
<1> QED
  BY <1>3, <1>4 DEF Retain

\* So each step of the reporter is one of the published report's, or shows nothing.
LEMMA EachStepPublishes ==
  ASSUME Replacing, Newer, [ReportsNext]_reportVars
  PROVE  PublishedStep
<1>1. Replacing'
  BY ReportsStep
<1>2. CASE DayPasses
  BY <1>1, <1>2, DayIsAge
<1>3. CASE UpstreamMoves \/ UNCHANGED reportVars
  <2>1. UNCHANGED <<due, rows, disk, undone, reporter>>
    BY <1>3 DEF UpstreamMoves, reportVars
  <2>2. Page' = Page
    BY <1>1, <2>1, PageStays DEF OnPage, Shown
  <2>3. Trial' = Trial
    BY <2>1 DEF Trial, Shown
  <2>4. AllRecorded' = AllRecorded
    BY <2>1 DEF AllRecorded, Recorded
  <2> QED
    BY <2>1, <2>2, <2>3, <2>4, OldStays, SeesNothing DEF Seen
<1>4. ASSUME NEW p \in Reporters, ReportStep(p)
      PROVE  PublishedStep
  <2>1. CASE MakeGeneration(p) \/ \E k \in Kinds : Fill(p, k) \/ LinkReport(p, k)
    BY <1>1, <2>1, WritesUnseen
  <2>2. CASE SwitchPointer(p)
    BY <1>1, <2>2, SwitchIsPublish
  <2>3. CASE Settle(p)
    BY <1>1, <2>3, SettleIsKeep DEF Settle
  <2>4. CASE Finish(p) \/ Retain(p)
    BY <1>1, <2>4, FinishIsRecord, RetainIsExpire
  <2>5. CASE \/ Schedule(p) \/ Acquire(p) \/ Analyse(p)
             \/ SyncUpstream(p) \/ CommitArchive(p) \/ Push(p)
             \/ \E k \in Kinds : CopyReport(p, k)
    BY <1>1, <2>5, OutsideUnseen
  <2> QED
    BY <1>4, <2>1, <2>2, <2>3, <2>4, <2>5 DEF ReportStep
<1>5. ASSUME NEW p \in Reporters, ReportFault(p)
      PROVE  PublishedStep
  BY <1>1, <1>5, OutsideUnseen, WriteFailsIsWithdraw, KillIsKeep DEF ReportFault
<1>6. ASSUME NEW p \in Reporters, NEW d \in Dates, NEW rules \in BOOLEAN, Command(p, d, rules)
      PROVE  PublishedStep
  BY <1>1, <1>6, OutsideUnseen
<1> QED
  BY <1>2, <1>3, <1>4, <1>5, <1>6 DEF ReportsNext

\* Nothing is published, on trial, recorded or lost to begin with.
LEMMA NothingPublished ==
  ASSUME ReportsInit
  PROVE  Published!Init
<1>1. Replacing
  BY ReportsStart
<1>2. due = 1 /\ rows = <<>> /\ undone = {}
  BY DEF ReportsInit
<1>3. \A d \in Dates : disk[d].gens = {}
  BY DEF ReportsInit
<1>4. \A d \in Dates : OnPage(d) = 0
  BY <1>3 DEF OnPage, Shown, NoReport
<1>5. Page = [d \in Dates |-> Published!Pair(0)]
  BY <1>1, <1>4, PageIs
<1>6. Trial = {}
  BY NoTrial DEF ReportsInit, Resting
<1>7. DOMAIN rows = {}
  BY <1>2, EmptySeq
<1>8. \A d \in Dates : Recorded(d) = {}
  BY <1>7 DEF Recorded
<1>9. {d \in Dates : Expired(d)} = {}
  BY <1>2, ReportAssumption DEF Expired, Dates
<1> QED
  BY <1>2, <1>5, <1>6, <1>8, <1>9 DEF Published!Init

\* The files, links, pointer, roll backs and rows of the reporter implement a
\* report that is published at once, withdrawn at once if its files cannot be
\* settled, and recorded for what the readers have.
THEOREM ReportsAreAtomic == ReportsSpec => PublishesAtomically
<1>1. Replacing /\ Newer /\ [ReportsNext]_reportVars => [Published!Next]_(Published!vars)
  BY EachStepPublishes DEF PublishedStep
<1>2. ReportsInit => Published!Init
  BY NothingPublished
<1> QED
  BY <1>1, <1>2, ReplacingHolds, ReplacementsAreNewer, PTL
  DEF ReportsSpec, PublishesAtomically, Published!Spec

-----------------------------------------------------------------------------
(* What the abstract report promises its readers. *)

\* What would be put back stands for the recorded reports too.
Backed ==
  \A t \in Trial : t.date \in Dates \ (Old \cup undone) =>
    \A m \in Recorded(t.date) : t.back = m \/ t.back > m

\* The promise, in the terms of the reporter.
Stands ==
  \A d \in Dates \ (Old \cup undone) :
    \A m \in Recorded(d) : Page[d].md = m \/ Page[d].md > m

\* They are the same.
LEMMA StandingIs == Published!Standing <=> Stands
BY DEF Published!Standing, Stands, Old

\* A step of the published report that only changes the page of one date, which is
\* the later report, the one before, or lost.
LEMMA StandsWhereTried ==
  ASSUME Stands, Backed, NEW e \in Dates,
         Published!Publish(e) \/ Published!Withdraw(e) \/ Published!Lose(e)
  PROVE  Stands' /\ Backed'
<1>1. DOMAIN Page = Dates /\ DOMAIN AllRecorded = Dates
  BY DEF Page, AllRecorded
<1>2. PICK n : Page' = [Page EXCEPT ![e] = Published!Pair(n)]
  BY DEF Published!Publish, Published!Withdraw, Published!Lose
<1>3. AllRecorded' = AllRecorded /\ Old' = Old /\ undone \subseteq undone'
  BY DEF Published!Publish, Published!Withdraw, Published!Lose, AllRecorded, Old
<1>4. \A d \in Dates : Recorded(d)' = Recorded(d)
  BY <1>3 DEF AllRecorded
<1>5. \A d \in Dates : d # e => Page'[d] = Page[d]
  BY <1>1, <1>2
<1>6. Page'[e].md = n
  BY <1>1, <1>2 DEF Published!Pair
<1>7. CASE Published!Publish(e)
  <2>1. \A m \in Recorded(e) : n > m
    BY <1>6, <1>7 DEF Published!Publish
  <2>2. Trial' = {[date |-> e, back |-> Page[e].md]} /\ undone' = undone
    BY <1>7 DEF Published!Publish
  <2>3. Stands'
    BY <1>3, <1>4, <1>5, <1>6, <2>1, <2>2 DEF Stands
  <2>4. Backed'
    BY <1>3, <1>4, <2>2 DEF Stands, Backed
  <2> QED
    BY <2>3, <2>4
<1>8. CASE Published!Withdraw(e)
  <2>1. PICK t \in Trial : t.date = e /\ Page' = [Page EXCEPT ![e] = Published!Pair(t.back)]
    BY <1>8 DEF Published!Withdraw
  <2>2. Page'[e].md = t.back
    BY <1>1, <2>1 DEF Published!Pair
  <2>3. Trial' = {} /\ undone' = undone
    BY <1>8 DEF Published!Withdraw
  <2>4. Stands'
    BY <1>3, <1>4, <1>5, <2>1, <2>2, <2>3 DEF Stands, Backed
  <2> QED
    BY <2>3, <2>4 DEF Backed
<1>9. CASE Published!Lose(e)
  <2>1. Trial' = {} /\ e \in undone'
    BY <1>9 DEF Published!Lose
  <2>2. Stands'
    BY <1>3, <1>4, <1>5, <2>1 DEF Stands
  <2> QED
    BY <2>1, <2>2 DEF Backed
<1> QED
  BY <1>7, <1>8, <1>9

\* What is recorded is what the readers have.
LEMMA StandsWhenRecorded ==
  ASSUME Stands, NEW e \in Dates, Published!Record(e)
  PROVE  Stands' /\ Backed'
<1>1. UNCHANGED <<Page, Trial, Old, undone>> /\ Trial = {}
  BY DEF Published!Record, Old
<1>2. AllRecorded' = [AllRecorded EXCEPT ![e] = @ \cup {Page[e].md}]
  BY DEF Published!Record, AllRecorded
<1>3. \A d \in Dates : Recorded(d)' \subseteq Recorded(d) \cup {Page[d].md}
  BY <1>2 DEF AllRecorded
<1>4. Stands'
  BY <1>1, <1>3 DEF Stands
<1> QED
  BY <1>1, <1>4 DEF Backed

\* It is kept by every step of the published report.
LEMMA StandsStep == Stands /\ Backed /\ PublishedStep => Stands' /\ Backed'
<1> SUFFICES ASSUME Stands, Backed, PublishedStep
             PROVE  Stands' /\ Backed'
  OBVIOUS
<1>1. ASSUME UNCHANGED <<Page, AllRecorded, undone>>, Old \subseteq Old', Trial' = {} \/ Trial' = Trial
      PROVE  Stands' /\ Backed'
  <2>1. \A d \in Dates : Recorded(d)' = Recorded(d)
    BY <1>1 DEF AllRecorded
  <2>2. Stands'
    BY <1>1, <2>1 DEF Stands
  <2>3. Backed'
    BY <1>1, <2>1 DEF Backed
  <2> QED
    BY <2>2, <2>3
<1>2. CASE Published!Keep \/ Published!Age \/ UNCHANGED Published!vars
  BY <1>1, <1>2 DEF Published!Keep, Published!Age, Published!vars, AllRecorded, Old
<1>3. CASE Published!Expire
  <2>1. AllRecorded' = AllRecorded /\ Old' = Old /\ undone' = undone /\ Trial' = {}
    BY <1>3 DEF Published!Expire, AllRecorded, Old
  <2>2. \A d \in Dates : Recorded(d)' = Recorded(d)
    BY <2>1 DEF AllRecorded
  <2>3. \A d \in Dates \ Old : Page'[d] = Page[d]
    BY <1>3 DEF Published!Expire, Old
  <2>4. Stands'
    BY <2>1, <2>2, <2>3 DEF Stands
  <2> QED
    BY <2>1, <2>4 DEF Backed
<1> QED
  BY <1>2, <1>3, StandsWhereTried, StandsWhenRecorded DEF PublishedStep, Published!Next

\* From the abstract report alone: a report that was once recorded as successful
\* is what readers of its date get, or a later one is, whatever runs, deaths and
\* roll backs follow, until the retention takes it or a roll back itself fails.
THEOREM RecordedStand == PublishesAtomically => []Published!Standing
<1>1. Published!Init => Stands /\ Backed
  BY DEF Published!Init, Stands, Backed, AllRecorded
<1>2. Stands /\ Backed /\ [Published!Next]_(Published!vars) => Stands' /\ Backed'
  BY StandsStep DEF PublishedStep
<1> QED
  BY <1>1, <1>2, StandingIs, PTL DEF PublishesAtomically, Published!Spec

\* So it is for the reporter.
THEOREM ReportsStand == ReportsSpec => []Published!Standing
BY ReportsAreAtomic, RecordedStand, PTL
=============================================================================
