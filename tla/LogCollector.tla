---------------------------- MODULE LogCollector ----------------------------
(***************************************************************************)
(* The evidence collector (components/xray_ops/collector.py, remote.py,    *)
(* parsing.py) and the part of the ops database it writes (storage.py).    *)
(*                                                                         *)
(* A node writes a log; the log is rotated under the collector; a          *)
(* collection run reads the cursor of each stream, reads over SSH what the *)
(* log has past it, and commits the events of all streams with their       *)
(* cursors in one transaction.  A manual run and the backfill work beside  *)
(* the service on the same database, and any of them may be killed.        *)
(*                                                                         *)
(* Bytes are half lines: a read may end in the middle of a line, the limit *)
(* of a read is counted in half lines, and an offset is where a line ends. *)
(* The n-th line of a stream is text[n], the number of the line whose text *)
(* and time it has: a line equal to the one before it in the same          *)
(* microsecond has that line's number, and is the same event to the        *)
(* database.  Line numbers also stand for time.                            *)
(*                                                                         *)
(* The collector is retired (docs/ops-reporting/log-collector.md): no      *)
(* container runs it, so nothing is said here of what it does eventually.  *)
(***************************************************************************)
EXTENDS Integers, Sequences, FiniteSets

CONSTANTS
    Streams,          \* one log stream of one node each
    Collectors,       \* collecting processes; "service" is the one that loops, if it runs
    Limit,            \* max_bytes_per_stream, in half lines
    RawSpan,          \* raw_retention_days, in lines
    BackfillSpans,    \* backfill --hours, in lines: what a run may ask for
    CollectBudgets    \* bounds, one record per scenario: streams, write,
                      \* repeat, rename, truncate, fail, crash, once, backfill

ASSUME CollectAssumption ==
    /\ "service" \in Collectors
    /\ Limit \in Nat \ {0, 1}          \* a line fits in one read
    /\ RawSpan \in Nat \ {0}            \* _env_int refuses less than one
    /\ BackfillSpans \subseteq Nat \ {0}  \* --hours must be positive

VARIABLES
    text,      \* every complete line written so far
    logs,      \* the files of the stream, oldest first, the open one last
    cursor,    \* collection_cursors; with, as history, the number n of the
               \* last line before it and the line after which it collects
    stored,    \* raw_log_events
    counted,   \* rollups_5m: the sum of the event counts
    runs,      \* collection_runs written by the backfill
    proc,      \* what each collecting process is doing
    fill,      \* what the backfill is doing
    pruned,    \* history: events deleted by the retention
    beyond,    \* history: the backfill stored what the retention deletes
    moved,     \* history: bytes were read from a place the log had left
    left       \* what is left of the bounds

collectVars == <<text, logs, cursor, stored, counted, runs, proc, fill,
                 pruned, beyond, moved, left>>
storeVars == <<cursor, stored, counted, runs, pruned, beyond>>
nodeVars == <<text, logs>>

NoCursor == [id |-> 0, off |-> 0, n |-> 0, after |-> 0]
Unread == [st |-> "none", cur |-> NoCursor, got |-> NoCursor, first |-> 0]
Idle == [pc |-> "idle", of |-> [s \in Streams |-> Unread]]
NoFill == [pc |-> "idle", s |-> CHOOSE s \in Streams : TRUE, files |-> <<>>,
           i |-> 1, off |-> 0, cut |-> 0]

Greatest(a, b) == IF a >= b THEN a ELSE b
Least(a, b) == IF a <= b THEN a ELSE b

\* What a file holds: the lines after its base, and half a line if its size is odd.
LinesOf(f) == f.size \div 2
File(id, base, size) == [id |-> id, base |-> base, size |-> size]
Open(s) == logs[s][Len(logs[s])]
Keys(s, first, last) == {text[s][n] : n \in first + 1 .. last}
Now(s) == IF text[s] = <<>> THEN 0 ELSE text[s][Len(text[s])]

\* The newest k files: path.2, path.1 and path for k = 3.
Newest(fs, k) == SubSeq(fs, Greatest(1, Len(fs) - k + 1), Len(fs))

Spend(what) == /\ left[what] > 0
               /\ left' = [left EXCEPT ![what] = @ - 1]

CollectInit ==
    /\ left \in CollectBudgets
    /\ text = [s \in Streams |-> <<>>]
    /\ logs = [s \in Streams |-> <<File(1, 0, 0)>>]
    /\ cursor = [s \in Streams |-> NoCursor]
    /\ stored = [s \in Streams |-> {}]
    /\ counted = [s \in Streams |-> 0]
    /\ runs = {}
    /\ proc = [c \in Collectors |-> Idle]
    /\ fill = NoFill
    /\ pruned = [s \in Streams |-> {}]
    /\ beyond = [s \in Streams |-> FALSE]
    /\ moved = [s \in Streams |-> FALSE]

-----------------------------------------------------------------------------
(* The node: Xray or Docker writes the log, Docker or the host rotates it.  *)
(* The writer opens the new file before it writes again, as Docker does     *)
(* (max-size in docker-compose.node.yml), and a log of no line is not       *)
(* rotated.                                                                 *)

\* Half a line more; the second half completes the line.
WriteLog(s) ==
    /\ s \in left.streams
    /\ Spend("write")
    /\ LET f == Open(s)
           done == f.size % 2 = 1
       IN /\ logs' = [logs EXCEPT ![s][Len(logs[s])].size = @ + 1]
          /\ \/ /\ done
                /\ text' = [text EXCEPT ![s] = Append(@, Len(@) + 1)]
             \/ ~done /\ UNCHANGED text
    /\ UNCHANGED <<storeVars, proc, fill, moved>>

\* The same line again, in the same microsecond.
RepeatLine(s) ==
    /\ Open(s).size % 2 = 0
    /\ text[s] # <<>>
    /\ Spend("repeat")
    /\ logs' = [logs EXCEPT ![s][Len(logs[s])].size = @ + 2]
    /\ text' = [text EXCEPT ![s] = Append(@, @[Len(@)])]
    /\ UNCHANGED <<storeVars, proc, fill, moved>>

\* Rotation by renaming: a new file is opened under the old name.  Half a line
\* at the end of the old one is never completed: its writer was stopped in it.
RenameLog(s) ==
    /\ LinesOf(Open(s)) > 0
    /\ Spend("rename")
    /\ LET f == Open(s)
       IN logs' = [logs EXCEPT ![s] =
                      Newest(Append(@, File(Len(text[s]) + 10, f.base + LinesOf(f), 0)), 4)]
    /\ UNCHANGED <<text, storeVars, proc, fill, moved>>

\* Rotation by copying: the open file keeps its identity and is emptied.  What
\* is written while it is copied, half a line included, is in neither file.
TruncateLog(s) ==
    /\ LinesOf(Open(s)) > 0 /\ Open(s).size % 2 = 0
    /\ Spend("truncate")
    /\ LET f == Open(s)
       IN logs' = [logs EXCEPT ![s] =
                      Newest(SubSeq(@, 1, Len(@) - 1)
                               \o <<File(Len(text[s]) + 10, f.base, f.size),
                                    File(f.id, f.base + LinesOf(f), 0)>>, 4)]
    /\ UNCHANGED <<text, storeVars, proc, fill, moved>>

-----------------------------------------------------------------------------
(* Reading what a stream has past its cursor.                               *)

\* Mutant: a cursor whose file is gone starts over at the open file unnoticed.
ResumeAtSilently(vs, cur) ==
    LET exact == {i \in DOMAIN vs : vs[i].id = cur.id /\ vs[i].size >= cur.off}
    IN IF exact # {} THEN [at |-> CHOOSE i \in exact : TRUE, off |-> cur.off, gap |-> FALSE]
       ELSE [at |-> Len(vs), off |-> 0, gap |-> FALSE]

\* Where REMOTE_FILE_DELTA_SCRIPT starts among the candidates vs.
ResumeAt(vs, cur) ==
    LET last == Len(vs)
        exact == {i \in 1 .. last : vs[i].id = cur.id /\ vs[i].size >= cur.off}
        older == {i \in 1 .. last - 1 : vs[i].size >= cur.off}
    IN IF cur.id = 0 THEN [at |-> last, off |-> 0, gap |-> FALSE]
       ELSE IF exact # {} THEN [at |-> CHOOSE i \in exact : TRUE, off |-> cur.off, gap |-> FALSE]
       ELSE IF vs[last].id = cur.id /\ older # {}
            THEN [at |-> CHOOSE i \in older : \A j \in older : j <= i,
                  off |-> cur.off, gap |-> FALSE]
       ELSE [at |-> last, off |-> 0, gap |-> TRUE]

\* What the script reads, from offset off of file at on, as far as file i.
Through(vs, at, off, i) == 2 * (vs[i].base - vs[at].base) + vs[i].size - off

\* Reading and parsing do not get past file i: the read reaches the limit in it,
\* it ends in half a line, or it is the open one.
Stops(vs, at, off, i) ==
    Through(vs, at, off, i) >= Limit \/ vs[i].size % 2 = 1 \/ i = Len(vs)

\* The file in which a read ends.
StopFile(vs, at, off) ==
    CHOOSE i \in at .. Len(vs) :
        /\ Stops(vs, at, off, i)
        /\ \A j \in at .. i - 1 : ~Stops(vs, at, off, j)

\* One run of the script and of parse_log_bytes on its segments: the files are
\* read in order until the limit, and the cursor stops before a cut line: for
\* good, when the line was cut by a rotation, until that file is gone.
Delta(vs, cur) ==
    LET r == ResumeAt(vs, cur)
        a == vs[r.at]
        e == StopFile(vs, r.at, r.off)
        end == r.off + Least(Through(vs, r.at, r.off, e), Limit) - 2 * (vs[e].base - a.base)
    IN [first |-> a.base + r.off \div 2,
        skips |-> ~r.gap /\ cur.id # 0 /\ r.off = cur.off /\ a.base + r.off \div 2 # cur.n,
        got |-> [id |-> vs[e].id, off |-> 2 * (end \div 2), n |-> vs[e].base + end \div 2,
                 after |-> IF r.gap \/ cur.id = 0 THEN a.base + r.off \div 2 ELSE cur.after]]

StartRun(c) ==
    /\ proc[c].pc = "idle"
    /\ \/ c = "service" /\ UNCHANGED left
       \/ c # "service" /\ Spend("once")
    /\ proc' = [proc EXCEPT ![c] = [Idle EXCEPT !.pc = "collect"]]
    /\ UNCHANGED <<nodeVars, storeVars, fill, moved>>

ReadCursor(c, s) ==
    /\ proc[c].pc = "collect" /\ proc[c].of[s].st = "none" /\ s \in left.streams
    /\ proc' = [proc EXCEPT ![c].of[s] = [@ EXCEPT !.st = "asked", !.cur = cursor[s]]]
    /\ UNCHANGED <<nodeVars, storeVars, fill, moved, left>>

ReadDelta(c, s) ==
    /\ proc[c].pc = "collect" /\ proc[c].of[s].st = "asked"
    /\ LET cur == proc[c].of[s].cur
           d == Delta(Newest(logs[s], 3), cur)
       IN /\ proc' = [proc EXCEPT ![c].of[s] =
                        [st |-> "read", cur |-> cur, got |-> d.got, first |-> d.first]]
          /\ moved' = [moved EXCEPT ![s] = @ \/ d.skips]
    /\ UNCHANGED <<nodeVars, storeVars, fill, left>>

\* RemoteCommandError, a missing log, or a container path the snapshot lacks:
\* the stream fails alone and the run goes on.
StreamFails(c, s) ==
    /\ proc[c].pc = "collect" /\ proc[c].of[s].st = "asked"
    /\ Spend("fail")
    /\ proc' = [proc EXCEPT ![c].of[s].st = "failed"]
    /\ UNCHANGED <<nodeVars, storeVars, fill, moved>>

\* Mutant: the rollup counts what was read and not what was inserted.
NewInAll(s, keys) == Cardinality(keys)

\* The events of keys that the database does not have.
NewIn(s, keys) == Cardinality(keys \ stored[s])

\* INSERT OR IGNORE of the events of one stream, and the count of the inserted.
Insert(s, keys) ==
    /\ stored' = [stored EXCEPT ![s] = @ \cup keys]
    /\ counted' = [counted EXCEPT ![s] = @ + NewIn(s, keys)]

CommitRun(c) ==
    /\ proc[c].pc = "collect"
    /\ \A s \in left.streams : proc[c].of[s].st \in {"read", "failed"}
    /\ LET of == proc[c].of
           read == {s \in left.streams : of[s].st = "read"}
           new(s) == IF s \in read THEN Keys(s, of[s].first, of[s].got.n) ELSE {}
       IN /\ stored' = [s \in Streams |-> stored[s] \cup new(s)]
          /\ counted' = [s \in Streams |-> counted[s] + NewIn(s, new(s))]
          /\ cursor' = [s \in Streams |-> IF s \in read THEN of[s].got ELSE cursor[s]]
    /\ proc' = [proc EXCEPT ![c] = [Idle EXCEPT !.pc = "committed"]]
    /\ UNCHANGED <<nodeVars, runs, pruned, beyond, fill, moved, left>>

\* Days pass between a line and its retention, minutes between a read and its
\* commit: no line that old is unread, or in a run's batch.
Settled ==
    \A s \in Streams :
        LET old == Now(s) - RawSpan
            unread == Keys(s, cursor[s].n, Len(text[s]))
            held == UNION {Keys(s, proc[c].of[s].cur.n, Len(text[s])) :
                             c \in {d \in Collectors : proc[d].of[s].st # "none"}}
        IN \A k \in unread \cup held : k > old

\* OpsStore.cleanup of the raw events, at most once an hour, by the service.
Cleanup(c) ==
    /\ c = "service" /\ proc[c].pc = "committed"
    /\ Settled
    /\ LET old(s) == {k \in stored[s] : k <= Now(s) - RawSpan}
       IN /\ stored' = [s \in Streams |-> stored[s] \ old(s)]
          /\ pruned' = [s \in Streams |-> pruned[s] \cup old(s)]
    /\ proc' = [proc EXCEPT ![c] = Idle]
    /\ UNCHANGED <<nodeVars, cursor, counted, runs, beyond, fill, moved, left>>

Rest(c) ==
    /\ proc[c].pc = "committed"
    /\ proc' = [proc EXCEPT ![c] = Idle]
    /\ UNCHANGED <<nodeVars, storeVars, fill, moved, left>>

\* The process is killed; started again, it begins anew.
KillCollector(c) ==
    /\ proc[c].pc # "idle"
    /\ Spend("crash")
    /\ proc' = [proc EXCEPT ![c] = Idle]
    /\ UNCHANGED <<nodeVars, storeVars, fill, moved>>

-----------------------------------------------------------------------------
(* The backfill: it lists the files of a stream once, then reads each by    *)
(* its path in chunks and commits each chunk with a run of its own.         *)

\* The file now found under the path of the i-th listed file.
AtPath(i) ==
    LET slot == Len(fill.files) - i
        fs == logs[fill.s]
    IN IF slot < Len(fs) THEN fs[Len(fs) - slot] ELSE File(0, 0, 0)

ListFiles(s, span) ==
    /\ fill.pc = "idle" /\ s \in left.streams
    /\ Spend("backfill")
    /\ fill' = [pc |-> "read", s |-> s, files |-> Newest(logs[s], 4), i |-> 1, off |-> 0,
                cut |-> Greatest(0, Now(s) - span)]
    /\ UNCHANGED <<nodeVars, storeVars, proc, moved>>

\* The file is done: the next one, or the cursor.
NextFile(f, off) ==
    IF f.i = Len(f.files) THEN [f EXCEPT !.pc = "cursor", !.off = off]
    ELSE [f EXCEPT !.i = @ + 1, !.off = 0]

ReadChunk ==
    /\ fill.pc = "read"
    /\ LET s == fill.s
           f == AtPath(fill.i)
           listed == fill.files[fill.i]
           end == Least(f.size, fill.off + Limit)
           line == f.base + fill.off \div 2              \* lines before the chunk
           upto == f.base + end \div 2
           selected == {k \in Keys(s, line, upto) : k > fill.cut}
           run == <<s, listed.id, fill.off>>
           consumed == 2 * (end \div 2) - fill.off
           over == consumed <= 0 \/ (end = f.size /\ end % 2 = 0)
           off == Greatest(fill.off, fill.off + consumed)
       IN /\ moved' = [moved EXCEPT ![s] = @ \/ f.id # listed.id \/ f.base # listed.base]
          /\ \/ /\ selected # {} /\ run \in runs
                /\ fill' = NoFill                        \* IntegrityError ends the backfill
                /\ UNCHANGED <<stored, counted, runs, beyond>>
             \/ /\ ~(selected # {} /\ run \in runs)
                /\ Insert(s, selected)
                /\ runs' = IF selected # {} THEN runs \cup {run} ELSE runs
                /\ beyond' = [beyond EXCEPT ![s] =
                                @ \/ \E k \in selected : k <= Now(s) - RawSpan]
                /\ fill' = IF over THEN NextFile(fill, off) ELSE [fill EXCEPT !.off = off]
    /\ UNCHANGED <<nodeVars, cursor, pruned, proc, left>>

\* set_cursor_if_absent: the backfill's cursor yields to the collector's.
PlaceCursor ==
    /\ fill.pc = "cursor"
    /\ LET s == fill.s
           open == fill.files[Len(fill.files)]
           off == Least(open.size, fill.off)
       IN \/ /\ cursor[s].id = 0
             /\ cursor' = [cursor EXCEPT ![s] =
                            [id |-> open.id, off |-> off, n |-> open.base + off \div 2,
                             after |-> Greatest(fill.files[1].base,
                                 Cardinality({n \in DOMAIN text[s] : text[s][n] <= fill.cut}))]]
          \/ /\ cursor[s].id # 0
             /\ UNCHANGED cursor
    /\ fill' = NoFill
    /\ UNCHANGED <<nodeVars, stored, counted, runs, pruned, beyond, proc, moved, left>>

KillBackfill ==
    /\ fill.pc # "idle"
    /\ Spend("crash")
    /\ fill' = NoFill
    /\ UNCHANGED <<nodeVars, storeVars, proc, moved>>

-----------------------------------------------------------------------------
CollectEnv ==
    \/ \E s \in Streams : WriteLog(s) \/ RepeatLine(s) \/ RenameLog(s) \/ TruncateLog(s)
    \/ \E c \in Collectors : KillCollector(c) \/ \E s \in Streams : StreamFails(c, s)
    \/ \E s \in Streams, span \in BackfillSpans : ListFiles(s, span)
    \/ KillBackfill

CollectStep(c) ==
    \/ StartRun(c)
    \/ \E s \in Streams : ReadCursor(c, s) \/ ReadDelta(c, s)
    \/ CommitRun(c)
    \/ Cleanup(c)
    \/ Rest(c)

CollectNext ==
    \/ CollectEnv
    \/ \E c \in Collectors : CollectStep(c)
    \/ ReadChunk
    \/ PlaceCursor

CollectSpec == CollectInit /\ [][CollectNext]_collectVars

-----------------------------------------------------------------------------
CollectTypeOK ==
    /\ text \in [Streams -> Seq(Nat)]
    /\ \A s \in Streams : \A i \in DOMAIN logs[s] : logs[s][i] \in [id : Nat, base : Nat, size : Nat]
    /\ cursor \in [Streams -> [id : Nat, off : Nat, n : Nat, after : Nat]]
    /\ counted \in [Streams -> Nat]
    /\ \A s \in Streams : stored[s] \cup pruned[s] \subseteq 1 .. Len(text[s])
    /\ \A c \in Collectors : proc[c].pc \in {"idle", "collect", "committed"}
    /\ fill.pc \in {"idle", "read", "cursor"}
    /\ beyond \in [Streams -> BOOLEAN] /\ moved \in [Streams -> BOOLEAN]

\* Between the line a stream is collected from and its cursor no line is
\* missing: over crashes, failing streams, rotations, concurrent runs, reads
\* cut by the limit and the backfill, the cursor never passes a line whose
\* event is not in the database (or was there until the retention), unless the
\* run reported a rotation gap.  The exception, moved, is a log that changed
\* place under the reader without the reader being able to tell.
NoSilentLoss ==
    \A s \in Streams :
        moved[s] \/ Keys(s, cursor[s].after, cursor[s].n) \subseteq stored[s] \cup pruned[s]

\* The rollups, kept far longer than the events they count, count every event,
\* and count it once: not again when a run is repeated, when two runs read the
\* same lines, nor when the backfill reads what the collector has.  The one
\* exception is a backfill that reaches beyond the retention, as the one of 48
\* hours does when the retention is a day: it stores again, and counts again,
\* what the retention has deleted.
CountedOnce ==
    \A s \in Streams :
        LET seen == Cardinality(stored[s] \cup pruned[s])
        IN counted[s] >= seen /\ (counted[s] = seen \/ beyond[s])
=============================================================================
