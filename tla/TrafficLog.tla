----------------------------- MODULE TrafficLog -----------------------------
(***************************************************************************)
(* What the panel measures of its ports: the connections, from Xray's      *)
(* access log (state/traffic.py and the node's delta script), and the      *)
(* upstream probes (state/probes.py).  The log is read from a cursor, and  *)
(* the counts and the cursor are one transaction with the counters' bytes, *)
(* which may fail; the file is rotated or truncated meanwhile, also        *)
(* between the stat and the open.  A probing round reads the ports, probes *)
(* them without a lock, and stores the results of ports that may be gone.  *)
(*                                                                         *)
(* A count is the bag of the lines it stands for.  A port's number can be  *)
(* given again: port is the number, and its life counts its owners.        *)
(* A line is written in one piece.                                         *)
(***************************************************************************)
EXTENDS Integers, Sequences, Bags

CONSTANTS
    ListenPorts,    \* the numbers; a line of another inbound has port 0
    TrafficBudgets  \* bounds, one record per scenario: line, rotate,
                    \* truncate, sync, fail, delete, round

ASSUME TrafficAssumption == 0 \notin ListenPorts

VARIABLES
    lines,         \* all lines ever written: the port of each
    file,          \* the open log: inode, the lines before it, and its content,
                   \* which a truncation makes another
    cursor,        \* xray_access_log_inode and _offset; content is a history
    syncing,       \* the transaction under way
    totals,        \* traffic_totals.total_connections
    life,          \* of each port's number; an even one has no port
    round,         \* the probing round under way
    probes,        \* upstream_probes: the life that was probed
    excused,       \* history: lines that a rotation or truncation has made
                   \* unreadable, or readable twice; those deleted; the lives
                   \* deleted while they were probed
    trafficLeft    \* what is left of the bounds

logFileVars == <<lines, file>>
portVars == <<life, round, probes>>
trafficVars == <<logFileVars, cursor, syncing, totals, portVars, excused, trafficLeft>>

SpendTraffic(what) ==
    trafficLeft[what] > 0 /\ trafficLeft' = [trafficLeft EXCEPT ![what] = @ - 1]

NotSyncing == [pc |-> "off", inode |-> 0, content |-> 0, start |-> 0, end |-> 0, read |-> {}]
NoRound == [on |-> FALSE, todo |-> {}, results |-> {}]

TrafficInit ==
    /\ trafficLeft \in TrafficBudgets
    /\ lines = <<>>
    /\ file = [inode |-> 1, content |-> 1, before |-> 0]
    /\ cursor = [inode |-> 0, off |-> 0, content |-> 0]
    /\ syncing = NotSyncing
    /\ totals = [p \in ListenPorts |-> EmptyBag]
    /\ life = [p \in ListenPorts |-> 1]
    /\ round = NoRound /\ probes = {}
    /\ excused = [lost |-> {}, twice |-> {}, deleted |-> {}, lives |-> {}]

Size == Len(lines) - file.before
LinesOf(from, to) == file.before + from .. file.before + to
Present == {p \in ListenPorts : life[p] % 2 = 1}

-----------------------------------------------------------------------------
(* The log's writer, and who rotates it.                                    *)

WriteLine(p) ==
    /\ SpendTraffic("line")
    /\ lines' = Append(lines, p)
    /\ UNCHANGED <<file, cursor, syncing, totals, portVars, excused>>

\* What no later reading finds.
UnreadHere == LinesOf(IF cursor.content = file.content THEN cursor.off + 1 ELSE 1, Size)

Replaced(inode) ==
    /\ Size > 0
    /\ file' = [inode |-> inode, content |-> file.content + 1, before |-> Len(lines)]
    /\ excused' = [excused EXCEPT !.lost = @ \cup UnreadHere]
    /\ UNCHANGED <<lines, cursor, syncing, totals, portVars>>

RotateLog == SpendTraffic("rotate") /\ Replaced(file.inode + 1)
TruncateLog == SpendTraffic("truncate") /\ Replaced(file.inode)

-----------------------------------------------------------------------------
(* sync_traffic_state_locked: one at a time, under the write lock.          *)

\* Where the reading begins.
StartsAt == IF cursor.inode # file.inode \/ Size < cursor.off THEN 0 ELSE cursor.off

\* BEGIN IMMEDIATE, and the stat of the log.  A content that has grown past the
\* offset of another one is taken for that.
StatLog ==
    /\ syncing.pc = "off"
    /\ SpendTraffic("sync")
    /\ syncing' = [NotSyncing EXCEPT !.pc = "open", !.inode = file.inode,
                                     !.content = file.content, !.start = StartsAt]
    /\ excused' = [excused EXCEPT !.lost =
           IF cursor.inode = file.inode /\ cursor.content # file.content
           THEN @ \cup LinesOf(1, StartsAt) ELSE @]
    /\ UNCHANGED <<logFileVars, cursor, totals, portVars>>

\* The open file is read from there to its end, whichever file that is now.
ReadLog ==
    LET from == syncing.start
        new == LinesOf(from + 1, Size) IN
    /\ syncing.pc = "open"
    /\ syncing' = [syncing EXCEPT !.pc = "commit",
                                  !.end = IF Size < from THEN from ELSE Size,
                                  !.read = new]
    /\ excused' =
         IF syncing.content = file.content THEN excused
         ELSE [excused EXCEPT !.lost = @ \cup LinesOf(1, from), !.twice = @ \cup new]
    /\ UNCHANGED <<logFileVars, cursor, totals, portVars, trafficLeft>>

\* The lines of the panel's inbounds are counted, whether or not the port is
\* still there, and the cursor is moved, with the statistics' bytes.
CommitCounts ==
    /\ syncing.pc = "commit"
    /\ totals' = [p \in ListenPorts |->
           totals[p] (+) SetToBag({i \in syncing.read : lines[i] = p})]
    /\ cursor' = [inode |-> syncing.inode, off |-> syncing.end, content |-> syncing.content]
    /\ syncing' = NotSyncing
    /\ UNCHANGED <<logFileVars, portVars, excused, trafficLeft>>

\* Mutant: the cursor is kept in a transaction of its own.
SyncFailsHalfway ==
    /\ syncing.pc # "off"
    /\ SpendTraffic("fail")
    /\ cursor' = IF syncing.pc = "open" THEN cursor
                 ELSE [inode |-> syncing.inode, off |-> syncing.end, content |-> syncing.content]
    /\ syncing' = NotSyncing
    /\ UNCHANGED <<logFileVars, totals, portVars, excused>>

\* The log cannot be read, the statistics raise, or the panel stops: all is
\* rolled back.
SyncFails ==
    /\ syncing.pc # "off"
    /\ SpendTraffic("fail")
    /\ syncing' = NotSyncing
    /\ UNCHANGED <<logFileVars, cursor, totals, portVars, excused>>

-----------------------------------------------------------------------------
(* Ports and their probes.                                                  *)

\* delete_port_in_tx: under the write lock, as a synchronization is.
DeletePort(p) ==
    /\ syncing.pc = "off" /\ p \in Present
    /\ SpendTraffic("delete")
    /\ life' = [life EXCEPT ![p] = @ + 1]
    /\ totals' = [totals EXCEPT ![p] = EmptyBag]
    /\ probes' = {r \in probes : r.port # p}
    /\ excused' = [excused EXCEPT
           !.deleted = @ \cup BagToSet(totals[p]),
           !.lives = IF round.on THEN @ \cup {[port |-> p, life |-> n] : n \in {life[p], life[p] + 1}} ELSE @]
    /\ UNCHANGED <<logFileVars, cursor, syncing, round>>

\* The number is given to another.
CreatePort(p) ==
    /\ syncing.pc = "off" /\ p \notin Present
    /\ life' = [life EXCEPT ![p] = @ + 1]
    /\ UNCHANGED <<logFileVars, cursor, syncing, totals, round, probes, excused, trafficLeft>>

\* run_upstream_probes
StartRound ==
    /\ ~round.on
    /\ SpendTraffic("round")
    /\ round' = [on |-> TRUE, todo |-> Present, results |-> {}]
    /\ UNCHANGED <<logFileVars, cursor, syncing, totals, life, probes, excused>>

ProbePort(p) ==
    /\ round.on /\ p \in round.todo
    /\ round' = [round EXCEPT !.todo = @ \ {p},
                              !.results = @ \cup {[port |-> p, life |-> life[p]]}]
    /\ UNCHANGED <<logFileVars, cursor, syncing, totals, life, probes, excused, trafficLeft>>

StoreRound ==
    /\ round.on /\ round.todo = {} /\ syncing.pc = "off"
    /\ probes' = {r \in probes : \A s \in round.results : r.port # s.port} \cup round.results
    /\ round' = NoRound
    /\ UNCHANGED <<logFileVars, cursor, syncing, totals, life, excused, trafficLeft>>

-----------------------------------------------------------------------------
TrafficNext ==
    \/ \E p \in ListenPorts \cup {0} : WriteLine(p)
    \/ RotateLog \/ TruncateLog
    \/ StatLog \/ ReadLog \/ CommitCounts \/ SyncFails
    \/ \E p \in ListenPorts : DeletePort(p) \/ CreatePort(p) \/ ProbePort(p)
    \/ StartRound \/ StoreRound

TrafficSpec == TrafficInit /\ [][TrafficNext]_trafficVars

-----------------------------------------------------------------------------
TrafficTypeOK ==
    /\ \A i \in 1 .. Len(lines) : lines[i] \in ListenPorts \cup {0}
    /\ file.before \in 0 .. Len(lines) /\ cursor.inode <= file.inode
    /\ \A p \in ListenPorts : \A i \in BagToSet(totals[p]) : lines[i] = p
    /\ syncing.pc \in {"off", "open", "commit"}
    /\ round.on \/ round = NoRound

\* The lines that the cursor says have been read.
BeforeCursor == 1 .. file.before + (IF cursor.inode = file.inode /\ cursor.content = file.content
                              THEN cursor.off ELSE 0)

\* Every line of a port that lies before the cursor is counted, and once: over
\* rotations, truncations and rolled back transactions, but for the lines that
\* a rotation or truncation took away unread or changed under the reader, and
\* those deleted with their port.
CountsExact ==
    /\ \A p \in ListenPorts : \A i \in BagToSet(totals[p]) :
          totals[p][i] > 1 => i \in excused.twice
    /\ \A i \in BeforeCursor : lines[i] # 0 =>
          i \in BagToSet(totals[lines[i]]) \cup excused.lost \cup excused.deleted

\* A probe that is shown for a port is of this port, not of one that had its
\* number before; but for one deleted while it was probed.
ProbesOfTheirPort ==
    \A r \in probes : life[r.port] = r.life \/ r \in excused.lives

LinesCountedOnce == CountsExact /\ ProbesOfTheirPort
=============================================================================
