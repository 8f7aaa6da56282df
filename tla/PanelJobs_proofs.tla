-------------------------- MODULE PanelJobs_proofs --------------------------
(***************************************************************************)
(* Proofs about two of the panel's background jobs.  TrafficLog: for any   *)
(* ports, log, rotations and failures, every line is counted once and a    *)
(* probe is shown for the port it was made of.  Backup: for any retention, *)
(* roles, settings and failures, a bundle that says it is ready restores   *)
(* what it says, the records name what is there, and a directory with a    *)
(* record is whole.                                                        *)
(***************************************************************************)
EXTENDS MC_PanelJobs, AiRouting_proofs

-----------------------------------------------------------------------------
(* The traffic log.                                                         *)

Switch == BOOLEAN
Probe == [port : ListenPorts, life : Nat]

LogShape ==
  /\ lines \in Seq(ListenPorts \cup {0})
  /\ file \in [inode : Nat, content : Nat, before : Nat]
  /\ file.before <= Len(lines)
CursorShape == cursor \in [inode : Nat, off : Nat, content : Nat]
SyncShape ==
  syncing \in [pc : {"off", "open", "commit"}, inode : Nat, content : Nat,
               start : Nat, end : Nat, read : SUBSET Nat]
CountShape ==
  /\ totals = [p \in ListenPorts |-> totals[p]]
  /\ \A p \in ListenPorts : totals[p] \in [BagToSet(totals[p]) -> Nat \ {0}]
RoundShape ==
  /\ life \in [ListenPorts -> Nat]
  /\ round \in [on : Switch, todo : SUBSET ListenPorts, results : SUBSET Probe]
  /\ probes \in SUBSET Probe
ExcuseShape ==
  excused \in [lost : SUBSET Nat, twice : SUBSET Nat, deleted : SUBSET Nat,
               lives : SUBSET Probe]

TrafficShapes ==
  LogShape /\ CursorShape /\ SyncShape /\ CountShape /\ RoundShape /\ ExcuseShape

\* The contents have numbers that grow: a cursor and a synchronization are not
\* ahead of the open file, and what has its content has its inode and fits it.
Contents ==
  /\ cursor.content <= file.content /\ cursor.inode <= file.inode
  /\ cursor.content = file.content => cursor.inode = file.inode /\ cursor.off <= Size
  /\ syncing.pc # "off" =>
       /\ cursor.content <= syncing.content /\ syncing.content <= file.content
       /\ syncing.inode <= file.inode
       /\ syncing.content = file.content =>
            /\ syncing.inode = file.inode
            /\ syncing.pc = "open" => syncing.start <= Size
            /\ syncing.pc = "commit" => syncing.end <= Size

\* The last of the lines that the cursor says have been read.
Behind == file.before + (IF cursor.content = file.content THEN cursor.off ELSE 0)

\* The counts: of lines of their port, behind the cursor, and complete.
Counted ==
  /\ \A p \in ListenPorts : \A i \in BagToSet(totals[p]) :
       /\ i \in 1..Len(lines) /\ lines[i] = p
       /\ i <= Behind \/ i \in excused.twice
       /\ totals[p][i] > 1 => i \in excused.twice
  /\ \A i \in 1..Behind : lines[i] # 0 =>
       i \in BagToSet(totals[lines[i]]) \cup excused.lost \cup excused.deleted

\* What a synchronization that is to read will start behind, and what one that
\* has read will count: lines that are not counted yet, none left out.
Sound ==
  /\ syncing.pc = "open" /\ syncing.content = file.content =>
       /\ Behind <= file.before + syncing.start
       /\ \A i \in Behind + 1 .. file.before + syncing.start : i \in excused.lost
  /\ syncing.pc = "commit" =>
       /\ \A i \in syncing.read :
            /\ i \in 1..Len(lines)
            /\ i \in excused.twice \/ \A p \in ListenPorts : i \notin BagToSet(totals[p])
            /\ \/ i \in excused.twice
               \/ i <= file.before
               \/ syncing.content = file.content /\ i <= file.before + syncing.end
       /\ syncing.content = file.content =>
            /\ Behind <= file.before + syncing.end
            /\ \A i \in Behind + 1 .. file.before + syncing.end :
                 i \in syncing.read \cup excused.lost

\* Probes are of the port that has the number, and results of the round under
\* way, but for the deleted.
RoundSound ==
  /\ \A r \in probes \cup round.results :
       r \in excused.lives \/ (life[r.port] = r.life /\ r.life % 2 = 1)
  /\ ~round.on => round.todo = {} /\ round.results = {}
  /\ \A p \in round.todo : life[p] % 2 = 1 \/ [port |-> p, life |-> life[p]] \in excused.lives

Measuring == TrafficShapes /\ Contents /\ Counted /\ Sound /\ RoundSound

\* At first nothing is written or counted.
LEMMA TrafficInitHolds ==
  TrafficInit => Measuring
<1> SUFFICES ASSUME TrafficInit PROVE Measuring
  OBVIOUS
<1>1. TrafficShapes
  BY DEF TrafficInit, TrafficShapes, LogShape, CursorShape, SyncShape, CountShape, RoundShape,
         ExcuseShape, NotSyncing, NoRound, EmptyBag, SetToBag, BagToSet, Switch
<1>2. Contents
  BY DEF TrafficInit, Contents, NotSyncing, Size
<1>3. Behind = 0
  BY DEF TrafficInit, Behind
<1>4. Counted
  BY <1>3 DEF TrafficInit, Counted, EmptyBag, SetToBag, BagToSet
<1>5. Sound
  BY DEF TrafficInit, Sound, NotSyncing
<1>6. RoundSound
  BY DEF TrafficInit, RoundSound, NoRound
<1> QED BY <1>1, <1>2, <1>4, <1>5, <1>6 DEF Measuring

\* Numbers of a state, by name.
LEMMA TrafficNumbers ==
  ASSUME TrafficShapes
  PROVE  /\ Len(lines) \in Nat /\ file.before \in Nat /\ file.content \in Nat /\ file.inode \in Nat
         /\ cursor.off \in Nat /\ cursor.content \in Nat /\ cursor.inode \in Nat
         /\ syncing.start \in Nat /\ syncing.end \in Nat /\ syncing.content \in Nat
         /\ syncing.inode \in Nat /\ Size \in Nat /\ Behind \in Nat
         /\ file.before <= Behind
         /\ excused.lost \in SUBSET Nat /\ excused.twice \in SUBSET Nat
         /\ excused.deleted \in SUBSET Nat /\ excused.lives \in SUBSET Probe
<1>1. Len(lines) \in Nat
  BY LenProperties DEF TrafficShapes, LogShape, CursorShape, SyncShape, ExcuseShape
<1>2. /\ file.before \in Nat /\ file.content \in Nat /\ file.inode \in Nat
      /\ cursor.off \in Nat /\ cursor.content \in Nat /\ cursor.inode \in Nat
  BY DEF TrafficShapes, LogShape, CursorShape, SyncShape, ExcuseShape
<1>3. /\ syncing.start \in Nat /\ syncing.end \in Nat /\ syncing.content \in Nat
      /\ syncing.inode \in Nat
  BY DEF TrafficShapes, LogShape, CursorShape, SyncShape, ExcuseShape
<1>4. Size \in Nat
  BY <1>1, <1>2 DEF TrafficShapes, LogShape, Size
<1>5. Behind \in Nat /\ file.before <= Behind
  BY <1>2 DEF Behind
<1> QED BY <1>1, <1>2, <1>3, <1>4, <1>5 DEF TrafficShapes, LogShape, CursorShape, SyncShape, ExcuseShape

\* The cursor is not behind a line that is not written.
LEMMA BehindWritten ==
  ASSUME TrafficShapes, Contents
  PROVE  Behind <= Len(lines)
  BY TrafficNumbers DEF TrafficShapes, LogShape, Contents, Behind, Size

\* What keeps its variables keeps its shape.
LEMMA ShapesKept ==
  ASSUME TrafficShapes
  PROVE  /\ lines' = lines /\ file' = file => LogShape'
         /\ cursor' = cursor => CursorShape'
         /\ syncing' = syncing => SyncShape'
         /\ totals' = totals => CountShape'
         /\ life' = life /\ round' = round /\ probes' = probes => RoundShape'
         /\ excused' = excused => ExcuseShape'
<1>1. lines' = lines /\ file' = file => LogShape'
  BY DEF TrafficShapes, LogShape
<1>2. cursor' = cursor => CursorShape'
  BY DEF TrafficShapes, CursorShape
<1>3. syncing' = syncing => SyncShape'
  BY DEF TrafficShapes, SyncShape
<1>4. totals' = totals => CountShape'
  BY DEF TrafficShapes, CountShape
<1>5. life' = life /\ round' = round /\ probes' = probes => RoundShape'
  BY DEF TrafficShapes, RoundShape
<1>6. excused' = excused => ExcuseShape'
  BY DEF TrafficShapes, ExcuseShape
<1> QED BY <1>1, <1>2, <1>3, <1>4, <1>5, <1>6

\* A connection is logged.
LEMMA WriteLineStep ==
  ASSUME Measuring, NEW p \in ListenPorts \cup {0}, WriteLine(p)
  PROVE  Measuring'
<1>1. /\ lines' = Append(lines, p) /\ file' = file /\ cursor' = cursor /\ syncing' = syncing
      /\ totals' = totals /\ life' = life /\ round' = round /\ probes' = probes
      /\ excused' = excused
  BY DEF WriteLine, portVars
<1>2. TrafficShapes /\ Contents /\ Counted /\ Sound /\ RoundSound
  BY DEF Measuring
<1>3. /\ lines' \in Seq(ListenPorts \cup {0}) /\ Len(lines') = Len(lines) + 1
      /\ \A i \in 1..Len(lines) : lines'[i] = lines[i]
  <2>1. PICK ls \in Seq(ListenPorts \cup {0}) : ls = lines
    BY <1>2 DEF TrafficShapes, LogShape
  <2>2. /\ Append(ls, p) \in Seq(ListenPorts \cup {0}) /\ Len(Append(ls, p)) = Len(ls) + 1
        /\ \A i \in 1..Len(ls) : Append(ls, p)[i] = ls[i]
    OBVIOUS
  <2> QED BY <1>1, <2>1, <2>2
<1>4. TrafficShapes'
  <2>1. file' \in [inode : Nat, content : Nat, before : Nat] /\ file'.before <= Len(lines)
    BY <1>1, <1>2 DEF TrafficShapes, LogShape
  <2>2. LogShape'
    BY <1>2, <1>3, <2>1, TrafficNumbers DEF LogShape
  <2> QED BY <1>1, <1>2, <2>2, ShapesKept DEF TrafficShapes
<1>5. Size' = Size + 1 /\ Behind' = Behind
  <2>1. Behind' = Behind
    BY <1>1 DEF Behind
  <2>2. Size' = Len(lines') - file.before
    BY <1>1 DEF Size
  <2>3. Len(lines) \in Nat /\ file.before \in Nat /\ Len(lines') = Len(lines) + 1
    BY <1>2, <1>3, TrafficNumbers
  <2>4. Size' = Size + 1
    BY <2>2, <2>3 DEF Size
  <2> QED BY <2>1, <2>4
<1>n. /\ Len(lines) \in Nat /\ Behind \in Nat /\ Behind <= Len(lines)
      /\ Size \in Nat /\ cursor.off \in Nat /\ syncing.start \in Nat /\ syncing.end \in Nat
  BY <1>2, TrafficNumbers, BehindWritten
<1>6. Contents'
  <2>1. \A k \in Nat : k <= Size => k <= Size'
    BY ONLY <1>5, <1>n
  <2> QED BY ONLY <1>1, <1>2, <1>n, <2>1 DEF Contents
<1>7. Counted'
  <2>1. \A i \in 1..Len(lines) : i \in 1..Len(lines') /\ lines'[i] = lines[i]
    BY ONLY <1>3, <1>n
  <2>2. \A i \in 1..Behind : i \in 1..Len(lines)
    BY ONLY <1>n
  <2> QED BY ONLY <1>1, <1>2, <1>5, <2>1, <2>2 DEF Counted
<1>8. Sound'
  <2>1. \A i \in 1..Len(lines) : i \in 1..Len(lines')
    BY ONLY <1>3, <1>n
  <2> QED BY ONLY <1>1, <1>2, <1>5, <2>1 DEF Sound
<1>9. RoundSound'
  BY <1>1, <1>2 DEF RoundSound
<1> QED BY <1>4, <1>6, <1>7, <1>8, <1>9 DEF Measuring

\* The log is rotated or truncated.
LEMMA ReplacedStep ==
  ASSUME Measuring, NEW inode \in {file.inode, file.inode + 1}, Replaced(inode)
  PROVE  Measuring'
<1>1. /\ file' = [inode |-> inode, content |-> file.content + 1, before |-> Len(lines)]
      /\ excused' = [excused EXCEPT !.lost = @ \cup UnreadHere]
      /\ lines' = lines /\ cursor' = cursor /\ syncing' = syncing
      /\ totals' = totals /\ life' = life /\ round' = round /\ probes' = probes
  BY DEF Replaced, portVars
<1>2. TrafficShapes /\ Contents /\ Counted /\ Sound /\ RoundSound
  BY DEF Measuring
<1>n. /\ Len(lines) \in Nat /\ Behind \in Nat /\ Behind <= Len(lines) /\ Size \in Nat
      /\ file.inode \in Nat /\ file.content \in Nat /\ file.before \in Nat
      /\ cursor.content \in Nat /\ cursor.inode \in Nat /\ cursor.off \in Nat
      /\ syncing.content \in Nat /\ syncing.inode \in Nat
      /\ syncing.start \in Nat /\ syncing.end \in Nat
  BY <1>2, TrafficNumbers, BehindWritten
<1>3. UnreadHere = Behind + 1 .. Len(lines)
  <2>1. PICK k \in Nat : k = IF cursor.content = file.content THEN cursor.off ELSE 0
    BY ONLY <1>n
  <2>2. PICK b \in Nat, l \in Nat : b = file.before /\ l = Len(lines)
    BY ONLY <1>n
  <2>3. Behind = b + k /\ UnreadHere = b + (k + 1) .. b + (l - b)
    BY ONLY <2>1, <2>2 DEF Behind, UnreadHere, LinesOf, Size
  <2>4. b + (l - b) = l /\ b + (k + 1) = (b + k) + 1
    BY ONLY b \in Nat, l \in Nat, k \in Nat
  <2> QED BY ONLY <2>2, <2>3, <2>4
<1>4. excused' \in [lost : SUBSET Nat, twice : SUBSET Nat, deleted : SUBSET Nat,
                    lives : SUBSET Probe]
      /\ excused'.lost = excused.lost \cup (Behind + 1 .. Len(lines))
      /\ excused'.twice = excused.twice /\ excused'.deleted = excused.deleted
      /\ excused'.lives = excused.lives
  <2>1. ExcuseShape /\ Behind \in Nat /\ Len(lines) \in Nat
    BY <1>2, TrafficNumbers DEF TrafficShapes
  <2>2. PICK set \in SUBSET Nat : set = Behind + 1 .. Len(lines)
    BY <2>1
  <2>3. excused' = [excused EXCEPT !.lost = @ \cup set]
    BY <1>1, <1>3, <2>2
  <2> QED BY <2>1, <2>2, <2>3 DEF ExcuseShape
<1>5. file' \in [inode : Nat, content : Nat, before : Nat] /\ file'.before = Len(lines)
      /\ file'.inode = inode /\ inode \in Nat /\ file.inode <= inode
      /\ file'.content = file.content + 1
  <2>1. inode \in Nat /\ file.inode <= inode
    BY ONLY <1>n, inode \in {file.inode, file.inode + 1}
  <2>2. file.content + 1 \in Nat
    BY ONLY <1>n
  <2> QED BY ONLY <1>1, <1>n, <2>1, <2>2
<1>6. TrafficShapes'
  <2>1. ExcuseShape'
    BY <1>4 DEF ExcuseShape
  <2>2. LogShape'
    <3>1. lines \in Seq(ListenPorts \cup {0}) /\ Len(lines) <= Len(lines)
      BY ONLY <1>2, <1>n DEF TrafficShapes, LogShape
    <3> QED BY ONLY <1>1, <1>5, <3>1 DEF LogShape
  <2> QED BY <1>1, <1>2, <2>1, <2>2, ShapesKept DEF TrafficShapes
<1>7. Contents'
  <2>0. /\ cursor.content <= file.content /\ cursor.inode <= file.inode
        /\ syncing.pc # "off" => /\ cursor.content <= syncing.content
                                 /\ syncing.content <= file.content
                                 /\ syncing.inode <= file.inode
    BY ONLY <1>2 DEF Contents
  <2>n. PICK f \in Nat, g \in Nat, h \in Nat :
               f = file.content /\ g = file.inode /\ h = inode /\ g <= h
    BY ONLY <1>5, <1>n
  <2>o. PICK k \in Nat, l \in Nat, m \in Nat, n \in Nat :
          /\ k = cursor.content /\ l = cursor.inode
          /\ m = syncing.content /\ n = syncing.inode
    BY ONLY <1>n
  <2>p. file'.content = f + 1 /\ file'.inode = h
    BY ONLY <1>5, <2>n
  <2>1. cursor.content < file'.content /\ cursor.inode <= file'.inode
    <3>1. k <= f /\ l <= g
      BY ONLY <2>0, <2>n, <2>o
    <3>2. k < f + 1 /\ l <= h
      BY ONLY <3>1, <2>n, k \in Nat, l \in Nat
    <3> QED BY ONLY <3>2, <2>o, <2>p
  <2>2. syncing.pc # "off" => /\ cursor.content <= syncing.content
                              /\ syncing.content < file'.content /\ syncing.inode <= file'.inode
    <3>1. syncing.pc # "off" => k <= m /\ m <= f /\ n <= g
      BY ONLY <2>0, <2>n, <2>o
    <3>2. syncing.pc # "off" => k <= m /\ m < f + 1 /\ n <= h
      BY ONLY <3>1, <2>n, k \in Nat, m \in Nat, n \in Nat
    <3> QED BY ONLY <3>2, <2>o, <2>p
  <2>3. /\ cursor.content \in Nat /\ syncing.content \in Nat /\ file'.content \in Nat
    BY ONLY <1>5, <1>n
  <2>4. cursor.content <= file'.content /\ cursor.content # file'.content
    BY <2>1, <2>3
  <2>5. syncing.pc # "off" => syncing.content <= file'.content /\ syncing.content # file'.content
    BY <2>2, <2>3
  <2> QED BY <1>1, <2>1, <2>2, <2>4, <2>5 DEF Contents
<1>8. Behind' = Len(lines)
  BY <1>1, <1>2, <1>5, TrafficNumbers DEF Behind, Contents
<1>9. Counted'
  <2>1. \A i \in 1..Len(lines) : i \in 1..Behind \/ i \in excused'.lost
    BY ONLY <1>4, <1>n
  <2>2. \A i \in 1..Len(lines) : i <= Len(lines)
    BY ONLY <1>n
  <2> QED BY ONLY <1>1, <1>2, <1>4, <1>8, <2>1, <2>2 DEF Counted
<1>10. syncing.pc # "off" => syncing'.content # file'.content
  <2>1. syncing.pc # "off" => syncing.content <= file.content
    BY ONLY <1>2 DEF Contents
  <2> QED BY ONLY <1>1, <1>5, <1>n, <2>1
<1>11. Sound'
  <2>1. \A i \in 1..Len(lines) : i <= Len(lines)
    BY ONLY <1>n
  <2> QED BY ONLY <1>1, <1>2, <1>4, <1>5, <1>10, <2>1 DEF Sound
<1>12. RoundSound'
  BY <1>1, <1>2, <1>4 DEF RoundSound
<1> QED BY <1>6, <1>7, <1>9, <1>11, <1>12 DEF Measuring

\* A synchronization begins with the size and identity of the log.
LEMMA StatLogStep ==
  ASSUME Measuring, StatLog
  PROVE  Measuring'
<1> DEFINE skips == cursor.inode = file.inode /\ cursor.content # file.content
           lost == IF skips THEN excused.lost \cup LinesOf(1, StartsAt) ELSE excused.lost
<1>1. /\ syncing.pc = "off"
      /\ syncing' = [NotSyncing EXCEPT !.pc = "open", !.inode = file.inode,
                                       !.content = file.content, !.start = StartsAt]
      /\ excused' = [excused EXCEPT !.lost = lost]
      /\ lines' = lines /\ file' = file /\ cursor' = cursor
      /\ totals' = totals /\ life' = life /\ round' = round /\ probes' = probes
  BY DEF StatLog, portVars, logFileVars
<1>2. TrafficShapes /\ Contents /\ Counted /\ Sound /\ RoundSound
  BY DEF Measuring
<1>3. StartsAt \in Nat /\ StartsAt <= Size
  <2>1. Size \in Nat /\ cursor.off \in Nat
    BY <1>2, TrafficNumbers
  <2> QED BY ONLY <2>1 DEF StartsAt
<1>4. syncing' = [pc |-> "open", inode |-> file.inode, content |-> file.content,
                  start |-> StartsAt, end |-> 0, read |-> {}]
  BY <1>1 DEF NotSyncing
<1>5. lost \in SUBSET Nat /\ excused.lost \subseteq lost
  <2>1. excused.lost \in SUBSET Nat /\ file.before \in Nat
    BY <1>2, TrafficNumbers
  <2>2. LinesOf(1, StartsAt) \in SUBSET Nat
    BY ONLY <2>1, <1>3 DEF LinesOf
  <2> QED BY ONLY <2>1, <2>2
<1>6. Behind' = Behind /\ Size' = Size
  BY <1>1 DEF Behind, Size
<1>7. Behind <= file.before + StartsAt
      /\ \A i \in Behind + 1 .. file.before + StartsAt : i \in lost
  <2>1. CASE cursor.content = file.content
    <3>1. StartsAt = cursor.off /\ Behind = file.before + cursor.off
      BY <1>2, <2>1, TrafficNumbers DEF Contents, StartsAt, Behind
    <3> QED BY <1>2, <3>1, TrafficNumbers
  <2>2. CASE cursor.content # file.content /\ cursor.inode = file.inode
    <3>1. Behind = file.before
      BY <1>2, <2>2, TrafficNumbers DEF Behind
    <3>2. lost = excused.lost \cup (file.before + 1 .. file.before + StartsAt)
      BY <2>2 DEF LinesOf
    <3> QED BY <1>2, <1>3, <3>1, <3>2, TrafficNumbers
  <2>3. CASE cursor.content # file.content /\ cursor.inode # file.inode
    <3>1. Behind = file.before /\ StartsAt = 0
      BY <1>2, <2>3, TrafficNumbers DEF Behind, StartsAt
    <3> QED BY <1>2, <3>1, TrafficNumbers
  <2> QED BY <2>1, <2>2, <2>3
<1> HIDE DEF lost
<1>8. /\ excused' \in [lost : SUBSET Nat, twice : SUBSET Nat, deleted : SUBSET Nat,
                       lives : SUBSET Probe]
      /\ excused'.lost = lost /\ excused'.twice = excused.twice
      /\ excused'.deleted = excused.deleted /\ excused'.lives = excused.lives
  BY <1>1, <1>2, <1>5 DEF TrafficShapes, ExcuseShape
<1>9. TrafficShapes'
  <2>1. ExcuseShape'
    BY <1>8 DEF ExcuseShape
  <2>2. SyncShape'
    BY <1>2, <1>3, <1>4, TrafficNumbers DEF SyncShape
  <2> QED BY <1>1, <1>2, <2>1, <2>2, ShapesKept DEF TrafficShapes
<1>10. Contents'
  BY <1>1, <1>2, <1>3, <1>4, <1>6, TrafficNumbers DEF Contents
<1>11. Counted'
  BY <1>1, <1>2, <1>5, <1>6, <1>8 DEF Counted
<1>12. Sound'
  BY <1>1, <1>4, <1>6, <1>7, <1>8 DEF Sound
<1>13. RoundSound'
  BY <1>1, <1>2, <1>8 DEF RoundSound
<1> QED BY <1>9, <1>10, <1>11, <1>12, <1>13 DEF Measuring

\* It reads the log from the cursor.
LEMMA ReadLogStep ==
  ASSUME Measuring, ReadLog
  PROVE  Measuring'
<1> DEFINE from == syncing.start
           new == LinesOf(from + 1, Size)
           end == IF Size < from THEN from ELSE Size
           same == syncing.content = file.content
           lost == IF same THEN excused.lost
                   ELSE excused.lost \cup LinesOf(1, from)
           twice == IF same THEN excused.twice ELSE excused.twice \cup new
<1>1. /\ syncing.pc = "open"
      /\ syncing' = [syncing EXCEPT !.pc = "commit", !.end = end, !.read = new]
      /\ excused' = [excused EXCEPT !.lost = lost, !.twice = twice]
      /\ lines' = lines /\ file' = file /\ cursor' = cursor
      /\ totals' = totals /\ life' = life /\ round' = round /\ probes' = probes
  <2>1. /\ syncing.pc = "open"
        /\ syncing' = [syncing EXCEPT !.pc = "commit", !.end = end, !.read = new]
        /\ lines' = lines /\ file' = file /\ cursor' = cursor
        /\ totals' = totals /\ life' = life /\ round' = round /\ probes' = probes
    BY DEF ReadLog, logFileVars, portVars
  <2>2. excused' = IF same THEN excused
                   ELSE [excused EXCEPT !.lost = @ \cup LinesOf(1, from),
                                        !.twice = @ \cup new]
    BY DEF ReadLog
  <2>3. ExcuseShape
    BY DEF Measuring, TrafficShapes
  <2>4. same => excused = [excused EXCEPT !.lost = lost, !.twice = twice]
    BY <2>3 DEF ExcuseShape
  <2> QED BY <2>1, <2>2, <2>4
<1>2. TrafficShapes /\ Contents /\ Counted /\ Sound /\ RoundSound
  BY DEF Measuring
<1>3. PICK b \in Nat : b = file.before
  BY <1>2, TrafficNumbers
<1>4. PICK z \in Nat : z = Size
  BY <1>2, TrafficNumbers
<1>5. PICK o \in Nat : o = syncing.start
  BY <1>2, TrafficNumbers
<1>6. PICK h \in Nat : h = Behind /\ b <= h
  BY <1>2, <1>3, TrafficNumbers
<1>7. Len(lines) = b + z
  <2>1. PICK l \in Nat : l = Len(lines)
    BY <1>2, TrafficNumbers
  <2>2. z = l - b
    BY ONLY <1>3, <1>4, <2>1 DEF Size
  <2> QED BY ONLY <2>1, <2>2, b \in Nat
<1>8. new = b + o + 1 .. b + z /\ end \in Nat /\ end >= o /\ end >= z /\ (end = o \/ end = z)
  <2>1. new = b + (o + 1) .. b + z
    BY <1>3, <1>4, <1>5 DEF LinesOf
  <2>2. end = IF z < o THEN o ELSE z
    BY <1>4, <1>5
  <2> QED BY <2>1, <2>2
<1>9. \A i \in new : i \in 1..Len(lines)
  BY <1>7, <1>8
<1>10. /\ lost \in SUBSET Nat /\ twice \in SUBSET Nat /\ new \in SUBSET Nat
       /\ excused.lost \subseteq lost /\ excused.twice \subseteq twice
       /\ ~same => new \subseteq twice
       /\ same => twice = excused.twice /\ lost = excused.lost
  <2>1. LinesOf(1, from) \in SUBSET Nat
    BY <1>3, <1>5 DEF LinesOf
  <2>2. new \in SUBSET Nat
    BY <1>8
  <2>3. excused.lost \in SUBSET Nat /\ excused.twice \in SUBSET Nat
    BY <1>2, TrafficNumbers
  <2> HIDE DEF new
  <2> QED BY <2>1, <2>2, <2>3
<1> HIDE DEF new, end, lost, twice
<1>11. /\ excused' \in [lost : SUBSET Nat, twice : SUBSET Nat, deleted : SUBSET Nat,
                        lives : SUBSET Probe]
       /\ excused'.lost = lost /\ excused'.twice = twice
       /\ excused'.deleted = excused.deleted /\ excused'.lives = excused.lives
  BY <1>1, <1>2, <1>10 DEF TrafficShapes, ExcuseShape
<1>12. /\ SyncShape'
       /\ syncing'.pc = "commit" /\ syncing'.end = end /\ syncing'.read = new
       /\ syncing'.content = syncing.content /\ syncing'.inode = syncing.inode
  BY <1>1, <1>2, <1>8, <1>10 DEF TrafficShapes, SyncShape
<1>13. TrafficShapes'
  <2>1. ExcuseShape'
    BY <1>11 DEF ExcuseShape
  <2> QED BY <1>1, <1>2, <1>12, <2>1, ShapesKept DEF TrafficShapes
<1>14. Behind' = Behind /\ Size' = Size
  BY <1>1 DEF Behind, Size
<1>15. Contents'
  <2>1. same => end <= Size
    BY <1>1, <1>2, <1>4, <1>5, <1>8 DEF Contents
  <2> QED BY <1>1, <1>2, <1>12, <1>14, <2>1 DEF Contents
<1>16. Counted'
  BY <1>1, <1>2, <1>10, <1>11, <1>14 DEF Counted
<1>17. ASSUME same
       PROVE  /\ h <= b + o /\ o <= z /\ end = z
              /\ \A i \in h + 1 .. b + o : i \in lost
  BY <1>1, <1>2, <1>3, <1>4, <1>5, <1>6, <1>8, <1>10, <1>17 DEF Sound, Contents
<1>18. Sound'
  <2>1. ASSUME NEW i \in new
        PROVE  /\ i \in twice \/ \A p \in ListenPorts : i \notin BagToSet(totals[p])
               /\ i \in twice \/ i <= b \/ (same /\ i <= b + end)
    <3>1. CASE same
      <4>1. i > h /\ i <= b + end
        BY <1>6, <1>8, <1>17, <3>1
      <4>2. \A p \in ListenPorts : i \in BagToSet(totals[p]) => i <= h \/ i \in twice
        BY <1>2, <1>6, <1>10 DEF Counted
      <4>3. i \in Nat
        BY <1>10
      <4> QED BY <1>6, <3>1, <4>1, <4>2, <4>3
    <3>2. CASE ~same
      BY <1>10, <3>2
    <3> QED BY <3>1, <3>2
  <2>2. ASSUME same
        PROVE  h <= b + end /\ \A i \in h + 1 .. b + end : i \in new \cup lost
    <3>1. \A i \in h + 1 .. b + z : i \in h + 1 .. b + o \/ i \in b + o + 1 .. b + z
      BY <1>5, <1>6
    <3> QED BY <1>6, <1>8, <1>17, <2>2, <3>1
  <2> QED BY <1>1, <1>3, <1>6, <1>9, <1>11, <1>12, <1>14, <2>1, <2>2 DEF Sound
<1>19. RoundSound'
  BY <1>1, <1>2, <1>11 DEF RoundSound
<1> QED BY <1>13, <1>15, <1>16, <1>18, <1>19 DEF Measuring

\* The lines T are counted once more.
LEMMA BagAdded ==
  ASSUME NEW B, B \in [BagToSet(B) -> Nat \ {0}], NEW T
  PROVE  /\ BagToSet(B (+) SetToBag(T)) = BagToSet(B) \cup T
         /\ \A i \in BagToSet(B) \cup T :
              /\ (B (+) SetToBag(T))[i] \in Nat \ {0}
              /\ (B (+) SetToBag(T))[i] > 1 =>
                   (i \in BagToSet(B) /\ i \in T) \/ (i \in BagToSet(B) /\ B[i] > 1)
         /\ B (+) SetToBag(T) \in [BagToSet(B) \cup T -> Nat \ {0}]
<1> DEFINE S == SetToBag(T)
           C == [i \in DOMAIN B \cup DOMAIN S |->
                   (IF i \in DOMAIN B THEN B[i] ELSE 0) + (IF i \in DOMAIN S THEN S[i] ELSE 0)]
<1>1. DOMAIN S = T /\ \A i \in T : S[i] = 1
  BY DEF SetToBag
<1> HIDE DEF S
<1>2. B (+) S = C
  BY DEF (+)
<1>3. BagToSet(C) = BagToSet(B) \cup T
  BY <1>1 DEF BagToSet
<1>4. \A i \in DOMAIN B : B[i] \in Nat \ {0}
  BY DEF BagToSet
<1>5. ASSUME NEW i \in BagToSet(B) \cup T
      PROVE  /\ C[i] \in Nat \ {0}
             /\ C[i] > 1 => (i \in BagToSet(B) /\ i \in T) \/ (i \in BagToSet(B) /\ B[i] > 1)
  BY <1>1, <1>4 DEF BagToSet
<1>6. C \in [BagToSet(B) \cup T -> Nat \ {0}]
  BY <1>1, <1>5 DEF BagToSet
<1> HIDE DEF C
<1> QED BY <1>2, <1>3, <1>5, <1>6 DEF S

\* It stores counts and cursor.
LEMMA CommitCountsStep ==
  ASSUME Measuring, CommitCounts
  PROVE  Measuring'
<1> DEFINE T(p) == {i \in syncing.read : lines[i] = p}
<1>1. /\ syncing.pc = "commit"
      /\ totals' = [p \in ListenPorts |-> totals[p] (+) SetToBag(T(p))]
      /\ cursor' = [inode |-> syncing.inode, off |-> syncing.end, content |-> syncing.content]
      /\ syncing' = NotSyncing
      /\ lines' = lines /\ file' = file /\ excused' = excused
      /\ life' = life /\ round' = round /\ probes' = probes
  BY DEF CommitCounts, logFileVars, portVars
<1>2. TrafficShapes /\ Contents /\ Counted /\ Sound /\ RoundSound
  BY DEF Measuring
<1>3. PICK b \in Nat : b = file.before
  BY <1>2, TrafficNumbers
<1>4. PICK e \in Nat : e = syncing.end
  BY <1>2, TrafficNumbers
<1>5. PICK h \in Nat : h = Behind /\ b <= h
  BY <1>2, <1>3, TrafficNumbers
<1>6. ASSUME NEW p \in ListenPorts
      PROVE  /\ BagToSet(totals'[p]) = BagToSet(totals[p]) \cup T(p)
             /\ totals'[p] \in [BagToSet(totals'[p]) -> Nat \ {0}]
             /\ \A i \in BagToSet(totals'[p]) :
                  totals'[p][i] > 1 => i \in BagToSet(totals[p])
                                       /\ (i \in T(p) \/ totals[p][i] > 1)
  <2>1. totals[p] \in [BagToSet(totals[p]) -> Nat \ {0}]
    BY <1>2 DEF TrafficShapes, CountShape
  <2>2. PICK S : S = T(p)
    OBVIOUS
  <2>3. totals'[p] = totals[p] (+) SetToBag(S)
    BY <1>1, <2>2
  <2>4. PICK B : B = totals[p]
    OBVIOUS
  <2>5. B \in [BagToSet(B) -> Nat \ {0}] /\ totals'[p] = B (+) SetToBag(S)
    BY <2>1, <2>3, <2>4
  <2>6. /\ BagToSet(B (+) SetToBag(S)) = BagToSet(B) \cup S
        /\ \A i \in BagToSet(B) \cup S :
              (B (+) SetToBag(S))[i] > 1 =>
                 (i \in BagToSet(B) /\ i \in S) \/ (i \in BagToSet(B) /\ B[i] > 1)
        /\ B (+) SetToBag(S) \in [BagToSet(B) \cup S -> Nat \ {0}]
    BY <2>5, BagAdded
  <2>7. PICK C : C = totals'[p]
    OBVIOUS
  <2>8. /\ BagToSet(C) = BagToSet(B) \cup S
        /\ \A i \in BagToSet(B) \cup S :
              C[i] > 1 => (i \in BagToSet(B) /\ i \in S) \/ (i \in BagToSet(B) /\ B[i] > 1)
        /\ C \in [BagToSet(B) \cup S -> Nat \ {0}]
    BY <2>5, <2>6, <2>7
  <2> QED BY <2>2, <2>4, <2>7, <2>8
<1>7. /\ cursor' \in [inode : Nat, off : Nat, content : Nat]
      /\ cursor'.inode = syncing.inode /\ cursor'.off = e /\ cursor'.content = syncing.content
  BY <1>1, <1>2, <1>4, TrafficNumbers
<1>8. NotSyncing \in [pc : {"off", "open", "commit"}, inode : Nat, content : Nat,
                      start : Nat, end : Nat, read : SUBSET Nat]
      /\ NotSyncing.pc = "off"
  BY DEF NotSyncing
<1> HIDE DEF NotSyncing
<1>9. TrafficShapes'
  <2>1. CursorShape' /\ SyncShape'
    BY <1>1, <1>7, <1>8 DEF CursorShape, SyncShape
  <2>2. CountShape'
    <3>1. totals' = [p \in ListenPorts |-> totals'[p]]
      BY <1>1
    <3> QED BY <1>6, <3>1 DEF CountShape
  <2> QED BY <1>1, <1>2, <2>1, <2>2, ShapesKept DEF TrafficShapes
<1>10. Size' = Size
  BY <1>1 DEF Size
<1>11. Contents'
  <2>1. /\ syncing.content <= file.content /\ syncing.inode <= file.inode
        /\ syncing.content = file.content => syncing.inode = file.inode /\ e <= Size
    BY <1>1, <1>2, <1>4 DEF Contents
  <2>2. syncing'.pc = "off"
    BY <1>1, <1>8
  <2> QED BY <1>1, <1>7, <1>10, <2>1, <2>2 DEF Contents
<1>12. PICK h2 \in Nat : h2 = Behind'
  BY <1>1, <1>3, <1>4, <1>7 DEF Behind
<1>13. /\ h <= h2 /\ \A i \in syncing.read : i \in excused.twice \/ i <= h2
       /\ \A i \in 1..h2 : i \in 1..h \/ i \in syncing.read \cup excused.lost
  <2>1. CASE syncing.content = file.content
    <3>1. h2 = b + e
      BY <1>1, <1>3, <1>7, <1>12, <2>1 DEF Behind
    <3>2. h <= b + e /\ \A i \in h + 1 .. b + e : i \in syncing.read \cup excused.lost
      BY <1>1, <1>2, <1>3, <1>4, <1>5, <2>1 DEF Sound
    <3>3. \A i \in 1..h2 : i \in 1..h \/ i \in syncing.read \cup excused.lost
      BY <3>1, <3>2
    <3>4. h <= h2 /\ \A i \in syncing.read : i \in excused.twice \/ i <= h2
      <4>1. \A i \in syncing.read : i \in Nat /\ (i \in excused.twice \/ i <= b \/ i <= b + e)
        BY <1>1, <1>2, <1>3, <1>4 DEF Sound
      <4> QED BY <3>1, <3>2, <4>1
    <3> QED BY <3>3, <3>4
  <2>2. CASE syncing.content # file.content
    <3>1. h2 = b
      BY <1>1, <1>3, <1>7, <1>12, <2>2 DEF Behind
    <3>2. cursor.content # file.content
      BY <1>1, <1>2, <2>2, TrafficNumbers DEF Contents
    <3>3. h = b
      BY <1>3, <1>5, <3>2 DEF Behind
    <3>4. \A i \in syncing.read : i \in excused.twice \/ i <= b
      BY <1>1, <1>2, <1>3, <2>2 DEF Sound
    <3> QED BY <3>1, <3>3, <3>4
  <2> QED BY <2>1, <2>2
<1>14. \A i \in syncing.read :
         /\ i \in 1..Len(lines)
         /\ i \in excused.twice \/ \A p \in ListenPorts : i \notin BagToSet(totals[p])
  BY <1>1, <1>2 DEF Sound
<1>15. ASSUME NEW p \in ListenPorts, NEW i \in BagToSet(totals'[p])
       PROVE  /\ i \in 1..Len(lines) /\ lines[i] = p
              /\ i <= h2 \/ i \in excused.twice
              /\ totals'[p][i] > 1 => i \in excused.twice
  <2>1. CASE i \in BagToSet(totals[p])
    <3>1. /\ i \in 1..Len(lines) /\ lines[i] = p
          /\ i <= h \/ i \in excused.twice
          /\ totals[p][i] > 1 => i \in excused.twice
      BY <1>2, <1>5, <2>1 DEF Counted
    <3>2. i \in Nat /\ h <= h2
      BY <1>13, <3>1
    <3>3. i <= h => i <= h2
      BY <3>2
    <3>4. totals'[p][i] > 1 => i \in excused.twice
      <4>1. totals'[p][i] > 1 => i \in T(p) \/ totals[p][i] > 1
        BY <1>6
      <4>2. i \in T(p) => i \in excused.twice
        BY <1>14, <2>1
      <4> QED BY <3>1, <4>1, <4>2
    <3> QED BY <3>1, <3>3, <3>4
  <2>2. CASE i \notin BagToSet(totals[p])
    <3>1. i \in syncing.read /\ lines[i] = p
      BY <1>6, <2>2
    <3>2. ~ totals'[p][i] > 1
      BY <1>6, <2>2
    <3> QED BY <1>13, <1>14, <3>1, <3>2
  <2> QED BY <2>1, <2>2
<1>16. ASSUME NEW i \in 1..h2, lines[i] # 0
       PROVE  i \in BagToSet(totals'[lines[i]]) \cup excused.lost \cup excused.deleted
  <2>1. CASE i \in 1..h
    <3>1. i \in BagToSet(totals[lines[i]]) \cup excused.lost \cup excused.deleted
      BY <1>2, <1>5, <1>16, <2>1 DEF Counted
    <3>2. CASE i \in BagToSet(totals[lines[i]])
      <4>1. lines[i] \in ListenPorts
        <5>1. h <= Len(lines) /\ Len(lines) \in Nat
          BY <1>2, <1>5, BehindWritten, TrafficNumbers
        <5>2. i \in 1..Len(lines)
          BY <2>1, <5>1
        <5> QED BY <1>2, <1>16, <5>2 DEF TrafficShapes, LogShape
      <4> QED BY <1>6, <3>2, <4>1
    <3> QED BY <3>1, <3>2
  <2>2. CASE i \in syncing.read
    <3>1. lines[i] \in ListenPorts
      BY <1>2, <1>14, <1>16, <2>2 DEF TrafficShapes, LogShape
    <3>2. i \in T(lines[i])
      BY <2>2
    <3> QED BY <1>6, <3>1, <3>2
  <2> QED BY <1>13, <2>1, <2>2
<1>17. Counted'
  BY <1>1, <1>12, <1>15, <1>16 DEF Counted
<1>18. Sound'
  BY <1>1, <1>8 DEF Sound
<1>19. RoundSound'
  BY <1>1, <1>2 DEF RoundSound
<1> QED BY <1>9, <1>11, <1>17, <1>18, <1>19 DEF Measuring

\* A step of which the log's counts know nothing but that no synchronization
\* goes on.
LEMMA CountsAlone ==
  ASSUME TrafficShapes, Contents, Counted, Sound,
         UNCHANGED <<lines, file, cursor, totals, excused>>,
         syncing' = syncing \/ syncing' = NotSyncing
  PROVE  SyncShape' /\ Contents' /\ Counted' /\ Sound'
<1>1. Behind' = Behind /\ Size' = Size
  BY DEF Behind, Size
<1>2. CASE syncing' = syncing
  <2>1. SyncShape'
    BY <1>2, ShapesKept
  <2> QED BY <1>1, <1>2, <2>1 DEF Contents, Counted, Sound
<1>3. CASE syncing' = NotSyncing
  <2>1. NotSyncing \in [pc : {"off", "open", "commit"}, inode : Nat, content : Nat,
                        start : Nat, end : Nat, read : SUBSET Nat]
        /\ NotSyncing.pc = "off"
    BY DEF NotSyncing
  <2>2. SyncShape' /\ syncing'.pc = "off"
    BY <1>3, <2>1 DEF SyncShape
  <2> QED BY <1>1, <2>2 DEF Contents, Counted, Sound
<1> QED BY <1>2, <1>3

\* It fails: nothing of it is stored.
LEMMA SyncFailsStep ==
  ASSUME Measuring, SyncFails
  PROVE  Measuring'
<1>1. /\ UNCHANGED <<lines, file, cursor, totals, excused>> /\ syncing' = NotSyncing
      /\ life' = life /\ round' = round /\ probes' = probes
  BY DEF SyncFails, logFileVars, portVars
<1>2. TrafficShapes /\ Contents /\ Counted /\ Sound /\ RoundSound
  BY DEF Measuring
<1>3. SyncShape' /\ Contents' /\ Counted' /\ Sound'
  BY <1>1, <1>2, CountsAlone
<1>4. TrafficShapes'
  BY <1>1, <1>2, <1>3, ShapesKept DEF TrafficShapes
<1>5. RoundSound'
  BY <1>1, <1>2 DEF RoundSound
<1> QED BY <1>3, <1>4, <1>5 DEF Measuring

\* A port is deleted, with its counts and probes.
LEMMA DeletePortStep ==
  ASSUME Measuring, NEW p \in ListenPorts, DeletePort(p)
  PROVE  Measuring'
<1> DEFINE former == IF round.on THEN {[port |-> p, life |-> n] : n \in {life[p], life[p] + 1}} ELSE {}
<1>1. /\ syncing.pc = "off" /\ life[p] % 2 = 1
      /\ life' = [life EXCEPT ![p] = @ + 1]
      /\ totals' = [totals EXCEPT ![p] = EmptyBag]
      /\ probes' = {r \in probes : r.port # p}
      /\ lines' = lines /\ file' = file /\ cursor' = cursor /\ syncing' = syncing /\ round' = round
      /\ excused' = [excused EXCEPT !.deleted = @ \cup BagToSet(totals[p]),
           !.lives = IF round.on THEN @ \cup {[port |-> p, life |-> n] : n \in {life[p], life[p] + 1}}
                     ELSE @]
  BY DEF DeletePort, Present, logFileVars
<1>2. TrafficShapes /\ Contents /\ Counted /\ Sound /\ RoundSound
  BY DEF Measuring
<1>3. PICK n \in Nat : n = life[p]
  BY <1>2 DEF TrafficShapes, RoundShape
<1>4. PICK old \in SUBSET Nat : old = BagToSet(totals[p])
  <2>1. \A i \in BagToSet(totals[p]) : i \in 1..Len(lines)
    BY <1>2 DEF Counted
  <2>2. BagToSet(totals[p]) \in SUBSET Nat
    BY <2>1
  <2> QED BY <2>2
<1>5. former \in SUBSET Probe /\ (round.on => \A m \in {n, n + 1} : [port |-> p, life |-> m] \in former)
  BY <1>3 DEF Probe
<1> HIDE DEF former
<1>6. /\ ExcuseShape'
      /\ excused'.lost = excused.lost /\ excused'.twice = excused.twice
      /\ excused'.deleted = excused.deleted \cup old
      /\ excused'.lives = excused.lives \cup former
  <2>1. excused \in [lost : SUBSET Nat, twice : SUBSET Nat, deleted : SUBSET Nat,
                     lives : SUBSET Probe]
    BY <1>2 DEF TrafficShapes, ExcuseShape
  <2>2. excused' = [[excused EXCEPT !.deleted = excused.deleted \cup old]
                      EXCEPT !.lives = excused.lives \cup former]
    <3>1. CASE round.on
      BY <1>1, <1>4, <2>1, <3>1 DEF former
    <3>2. CASE ~round.on
      BY <1>1, <1>4, <2>1, <3>2 DEF former
    <3> QED BY <3>1, <3>2
  <2>3. excused' = [lost |-> excused.lost, twice |-> excused.twice,
                    deleted |-> excused.deleted \cup old, lives |-> excused.lives \cup former]
    BY <2>1, <2>2
  <2>4. /\ excused.lost \in SUBSET Nat /\ excused.twice \in SUBSET Nat
        /\ excused.deleted \in SUBSET Nat /\ excused.lives \in SUBSET Probe
    BY <2>1
  <2> QED BY <1>5, <2>3, <2>4 DEF ExcuseShape
<1>7. /\ totals'[p] = EmptyBag /\ \A q \in ListenPorts : q # p => totals'[q] = totals[q]
      /\ totals' = [q \in ListenPorts |-> totals'[q]]
  BY <1>1, <1>2 DEF TrafficShapes, CountShape
<1>8. BagToSet(EmptyBag) = {} /\ EmptyBag \in [{} -> Nat \ {0}]
  BY DEF EmptyBag, SetToBag, BagToSet
<1>9. CountShape'
  <2>1. ASSUME NEW q \in ListenPorts PROVE totals'[q] \in [BagToSet(totals'[q]) -> Nat \ {0}]
    <3>1. CASE q = p
      BY <1>7, <1>8, <3>1
    <3>2. CASE q # p
      BY <1>2, <1>7, <3>2 DEF TrafficShapes, CountShape
    <3> QED BY <3>1, <3>2
  <2> QED BY <1>7, <2>1 DEF CountShape
<1>10. /\ life' \in [ListenPorts -> Nat] /\ life'[p] = n + 1
       /\ \A q \in ListenPorts : q # p => life'[q] = life[q]
  BY <1>1, <1>2, <1>3 DEF TrafficShapes, RoundShape
<1>11. TrafficShapes'
  <2>1. RoundShape'
    BY <1>1, <1>2, <1>10 DEF TrafficShapes, RoundShape
  <2> QED BY <1>1, <1>2, <1>6, <1>9, <2>1, ShapesKept DEF TrafficShapes
<1>12. Behind' = Behind /\ Size' = Size
  BY <1>1 DEF Behind, Size
<1>13. Contents' /\ Sound'
  BY <1>1, <1>2, <1>12 DEF Contents, Sound
<1>14. Counted'
  <2>1. ASSUME NEW q \in ListenPorts, NEW i \in BagToSet(totals'[q])
        PROVE  /\ i \in 1..Len(lines) /\ lines[i] = q
               /\ i <= Behind \/ i \in excused.twice
               /\ totals'[q][i] > 1 => i \in excused.twice
    <3>1. q # p
      BY <1>7, <1>8, <2>1
    <3>2. totals'[q] = totals[q]
      BY <1>7, <3>1
    <3> QED BY <1>2, <2>1, <3>2 DEF Counted
  <2>2. ASSUME NEW i \in 1..Behind, lines[i] # 0
        PROVE  i \in BagToSet(totals'[lines[i]]) \cup excused.lost \cup (excused.deleted \cup old)
    <3>1. i \in BagToSet(totals[lines[i]]) \cup excused.lost \cup excused.deleted
      BY <1>2, <2>2 DEF Counted
    <3>2. CASE lines[i] = p
      BY <1>4, <3>1, <3>2
    <3>3. CASE lines[i] # p
      <4>1. lines[i] \in ListenPorts
        <5>1. i \in 1..Len(lines)
          BY <1>2, BehindWritten, TrafficNumbers
        <5> QED BY <1>2, <2>2, <5>1 DEF TrafficShapes, LogShape
      <4> QED BY <1>7, <3>1, <3>3, <4>1
    <3> QED BY <3>2, <3>3
  <2> QED BY <1>1, <1>6, <1>12, <2>1, <2>2 DEF Counted
<1>15. RoundSound'
  <2>1. ASSUME NEW r \in probes' \cup round.results
        PROVE  r \in excused'.lives \/ (life'[r.port] = r.life /\ r.life % 2 = 1)
    <3>1. r \in Probe /\ r.port \in ListenPorts
      BY <1>1, <1>2, <2>1 DEF TrafficShapes, RoundShape, Probe
    <3>2. r \in excused.lives \/ (life[r.port] = r.life /\ r.life % 2 = 1)
      BY <1>1, <1>2, <2>1 DEF RoundSound
    <3>3. CASE r.port # p
      BY <1>6, <1>10, <3>1, <3>2, <3>3
    <3>4. CASE r.port = p /\ r \in round.results
      <4>1. round.on
        BY <1>2, <3>4 DEF RoundSound
      <4>2. r \in excused.lives \/ r = [port |-> p, life |-> n]
        BY <1>3, <3>1, <3>2, <3>4 DEF Probe
      <4> QED BY <1>5, <1>6, <4>1, <4>2
    <3> QED BY <1>1, <2>1, <3>3, <3>4
  <2>2. ASSUME NEW q \in round.todo
        PROVE  life'[q] % 2 = 1 \/ [port |-> q, life |-> life'[q]] \in excused'.lives
    <3>1. q \in ListenPorts
      BY <1>2 DEF TrafficShapes, RoundShape
    <3>2. CASE q = p
      <4>1. round.on
        BY <1>2, <2>2 DEF RoundSound
      <4> QED BY <1>5, <1>6, <1>10, <3>2, <4>1
    <3>3. CASE q # p
      BY <1>2, <1>6, <1>10, <2>2, <3>1, <3>3 DEF RoundSound
    <3> QED BY <3>2, <3>3
  <2> QED BY <1>1, <1>2, <2>1, <2>2 DEF RoundSound
<1> QED BY <1>11, <1>13, <1>14, <1>15 DEF Measuring

\* A port is created, perhaps one that was deleted.
LEMMA CreatePortStep ==
  ASSUME Measuring, NEW p \in ListenPorts, CreatePort(p)
  PROVE  Measuring'
<1>1. /\ life[p] % 2 # 1 /\ life' = [life EXCEPT ![p] = @ + 1]
      /\ UNCHANGED <<lines, file, cursor, totals, excused>> /\ syncing' = syncing
      /\ round' = round /\ probes' = probes
  BY DEF CreatePort, Present, logFileVars
<1>2. TrafficShapes /\ Contents /\ Counted /\ Sound /\ RoundSound
  BY DEF Measuring
<1>3. PICK n \in Nat : n = life[p]
  BY <1>2 DEF TrafficShapes, RoundShape
<1>4. /\ life' \in [ListenPorts -> Nat] /\ life'[p] = n + 1
      /\ \A q \in ListenPorts : q # p => life'[q] = life[q]
  BY <1>1, <1>2, <1>3 DEF TrafficShapes, RoundShape
<1>5. SyncShape' /\ Contents' /\ Counted' /\ Sound'
  BY <1>1, <1>2, CountsAlone
<1>6. TrafficShapes'
  <2>1. RoundShape'
    BY <1>1, <1>2, <1>4 DEF TrafficShapes, RoundShape
  <2> QED BY <1>1, <1>2, <2>1, ShapesKept DEF TrafficShapes
<1>7. RoundSound'
  <2>1. ASSUME NEW r \in probes \cup round.results
        PROVE  r \in excused.lives \/ (life'[r.port] = r.life /\ r.life % 2 = 1)
    <3>1. r \in Probe /\ r.port \in ListenPorts
      BY <1>2, <2>1 DEF TrafficShapes, RoundShape, Probe
    <3>2. r \in excused.lives \/ (life[r.port] = r.life /\ r.life % 2 = 1)
      BY <1>2, <2>1 DEF RoundSound
    <3> QED BY <1>1, <1>4, <3>1, <3>2
  <2>2. ASSUME NEW q \in round.todo
        PROVE  life'[q] % 2 = 1 \/ [port |-> q, life |-> life'[q]] \in excused.lives
    <3>1. q \in ListenPorts
      BY <1>2, <2>2 DEF TrafficShapes, RoundShape
    <3>2. CASE q = p
      <4>1. (n + 1) % 2 = 1
        BY <1>1, <1>3
      <4> QED BY <1>4, <3>2, <4>1
    <3>3. CASE q # p
      BY <1>2, <1>4, <2>2, <3>1, <3>3 DEF RoundSound
    <3> QED BY <3>2, <3>3
  <2> QED BY <1>1, <1>2, <2>1, <2>2 DEF RoundSound
<1> QED BY <1>5, <1>6, <1>7 DEF Measuring

\* The steps of a probing round.
LEMMA RoundSteps ==
  ASSUME Measuring, StartRound \/ StoreRound \/ \E p \in ListenPorts : ProbePort(p)
  PROVE  Measuring'
<1>1. UNCHANGED <<lines, file, cursor, totals, excused>> /\ syncing' = syncing /\ life' = life
  BY DEF StartRound, StoreRound, ProbePort, logFileVars
<1>2. TrafficShapes /\ Contents /\ Counted /\ Sound /\ RoundSound
  BY DEF Measuring
<1>3. SyncShape' /\ Contents' /\ Counted' /\ Sound'
  BY <1>1, <1>2, CountsAlone
<1>4. /\ life \in [ListenPorts -> Nat] /\ probes \in SUBSET Probe
      /\ round.on \in Switch /\ round.todo \in SUBSET ListenPorts
      /\ round.results \in SUBSET Probe
      /\ round = [on |-> round.on, todo |-> round.todo, results |-> round.results]
  BY <1>2 DEF TrafficShapes, RoundShape
<1>5. SUFFICES RoundShape' /\ RoundSound'
  BY <1>1, <1>2, <1>3, ShapesKept DEF TrafficShapes, Measuring
<1>6. CASE StartRound
  <2>1. round' = [on |-> TRUE, todo |-> Present, results |-> {}] /\ probes' = probes
    BY <1>6 DEF StartRound
  <2>2. Present \in SUBSET ListenPorts /\ \A p \in Present : life[p] % 2 = 1
    BY DEF Present
  <2>3. TRUE \in Switch
    BY DEF Switch
  <2> HIDE DEF Present
  <2>4. RoundShape'
    BY <1>1, <1>4, <2>1, <2>2, <2>3 DEF RoundShape
  <2>5. RoundSound'
    BY <1>1, <1>2, <2>1, <2>2 DEF RoundSound
  <2> QED BY <2>4, <2>5
<1>7. ASSUME NEW p \in ListenPorts, ProbePort(p)
      PROVE  RoundShape' /\ RoundSound'
  <2>1. PICK r : r = [port |-> p, life |-> life[p]]
    OBVIOUS
  <2>2. /\ round.on /\ p \in round.todo /\ probes' = probes
        /\ round' = [[round EXCEPT !.todo = round.todo \ {p}]
                       EXCEPT !.results = round.results \cup {r}]
    BY <1>7, <2>1 DEF ProbePort
  <2>3. round' = [on |-> round.on, todo |-> round.todo \ {p}, results |-> round.results \cup {r}]
    BY <1>4, <2>2
  <2>4. r \in Probe /\ r.port = p /\ r.life = life[p]
    BY <1>4, <2>1 DEF Probe
  <2>5. r \in excused.lives \/ life[p] % 2 = 1
    BY <1>2, <2>1, <2>2 DEF RoundSound
  <2>6. RoundShape'
    <3>1. round.results \cup {r} \in SUBSET Probe /\ round.todo \ {p} \in SUBSET ListenPorts
      BY <1>4, <2>4
    <3>2. round' \in [on : Switch, todo : SUBSET ListenPorts, results : SUBSET Probe]
      BY <1>4, <2>3, <3>1
    <3> QED BY <1>1, <1>4, <2>2, <3>2 DEF RoundShape
  <2>7. RoundSound'
    BY <1>1, <1>2, <2>2, <2>3, <2>4, <2>5 DEF RoundSound
  <2> QED BY <2>6, <2>7
<1>8. CASE StoreRound
  <2>1. /\ probes' \subseteq probes \cup round.results
        /\ round' = NoRound
    BY <1>8 DEF StoreRound
  <2>2. NoRound \in [on : Switch, todo : SUBSET ListenPorts, results : SUBSET Probe]
        /\ NoRound.todo = {} /\ NoRound.results = {}
    BY DEF NoRound, Switch
  <2> HIDE DEF NoRound
  <2>3. RoundShape'
    BY <1>1, <1>4, <2>1, <2>2 DEF RoundShape
  <2>4. RoundSound'
    BY <1>1, <1>2, <2>1, <2>2 DEF RoundSound
  <2> QED BY <2>3, <2>4
<1> QED BY <1>6, <1>7, <1>8

\* Every action keeps the invariant.
LEMMA TrafficNextHolds ==
  Measuring /\ [TrafficNext]_trafficVars => Measuring'
<1> SUFFICES ASSUME Measuring, [TrafficNext]_trafficVars
             PROVE  Measuring'
  OBVIOUS
<1>1. ASSUME NEW p \in ListenPorts \cup {0}, WriteLine(p) PROVE Measuring'
  BY <1>1, WriteLineStep
<1>2. CASE RotateLog \/ TruncateLog
  BY <1>2, ReplacedStep DEF RotateLog, TruncateLog
<1>3. CASE StatLog
  BY <1>3, StatLogStep
<1>4. CASE ReadLog
  BY <1>4, ReadLogStep
<1>5. CASE CommitCounts
  BY <1>5, CommitCountsStep
<1>6. CASE SyncFails
  BY <1>6, SyncFailsStep
<1>7. ASSUME NEW p \in ListenPorts, DeletePort(p) PROVE Measuring'
  BY <1>7, DeletePortStep
<1>8. ASSUME NEW p \in ListenPorts, CreatePort(p) PROVE Measuring'
  BY <1>8, CreatePortStep
<1>9. CASE StartRound \/ StoreRound \/ \E p \in ListenPorts : ProbePort(p)
  BY <1>9, RoundSteps
<1>10. CASE UNCHANGED trafficVars
  <2>1. /\ UNCHANGED <<lines, file, cursor, totals, excused>> /\ syncing' = syncing
        /\ life' = life /\ round' = round /\ probes' = probes
    BY <1>10 DEF trafficVars, logFileVars, portVars
  <2>2. TrafficShapes /\ Contents /\ Counted /\ Sound /\ RoundSound
    BY DEF Measuring
  <2>3. SyncShape' /\ Contents' /\ Counted' /\ Sound'
    BY <2>1, <2>2, CountsAlone
  <2>4. TrafficShapes'
    BY <2>1, <2>2, ShapesKept DEF TrafficShapes
  <2>5. RoundSound'
    BY <2>1, <2>2 DEF RoundSound
  <2> QED BY <2>3, <2>4, <2>5 DEF Measuring
<1> QED BY <1>1, <1>2, <1>3, <1>4, <1>5, <1>6, <1>7, <1>8, <1>9, <1>10 DEF TrafficNext

\* Whatever is rotated, fails or is deleted between the steps of a
\* synchronization and of a probing round: the cursor, the counts, and what has
\* been read and not counted yet agree.
THEOREM MeasuringHolds ==
  TrafficSpec => []Measuring
<1> QED BY TrafficInitHolds, TrafficNextHolds, PTL DEF TrafficSpec

\* Every line of a port before the cursor is counted, and once, and a probe is
\* shown for the port it was made of, but for what rotations and deletions
\* excuse (sync_traffic_state_locked, run_upstream_probes).
THEOREM LinesAreCountedOnce ==
  TrafficSpec => []LinesCountedOnce
<1>1. Measuring => LinesCountedOnce
  <2> SUFFICES ASSUME Measuring PROVE LinesCountedOnce
    OBVIOUS
  <2>1. Contents /\ Counted /\ RoundSound /\ TrafficShapes
    BY DEF Measuring
  <2>2. BeforeCursor \subseteq 1..Behind
    BY <2>1, TrafficNumbers DEF BeforeCursor, Behind, Contents
  <2>3. CountsExact
    BY <2>1, <2>2 DEF CountsExact, Counted
  <2>4. ProbesOfTheirPort
    BY <2>1 DEF ProbesOfTheirPort, RoundSound
  <2> QED BY <2>3, <2>4 DEF LinesCountedOnce
<1> QED BY <1>1, MeasuringHolds, PTL

\* The types of the traffic log's state: a count is of lines of its port.
THEOREM TrafficTyped ==
  TrafficSpec => []TrafficTypeOK
<1>1. Measuring => TrafficTypeOK
  <2> SUFFICES ASSUME Measuring PROVE TrafficTypeOK
    OBVIOUS
  <2>1. TrafficShapes /\ Contents /\ Counted /\ RoundSound
    BY DEF Measuring
  <2>2. /\ \A i \in 1 .. Len(lines) : lines[i] \in ListenPorts \cup {0}
        /\ file.before \in 0 .. Len(lines)
    BY <2>1, TrafficNumbers DEF TrafficShapes, LogShape
  <2>3. \A p \in ListenPorts : \A i \in BagToSet(totals[p]) : lines[i] = p
    BY <2>1 DEF Counted
  <2>4. round.on \/ round = NoRound
    <3>1. /\ round = [on |-> round.on, todo |-> round.todo, results |-> round.results]
          /\ round.on \in BOOLEAN
      BY <2>1 DEF TrafficShapes, RoundShape, Switch
    <3>2. ~round.on => round.todo = {} /\ round.results = {}
      BY <2>1 DEF RoundSound
    <3> QED BY <3>1, <3>2 DEF NoRound
  <2>5. cursor.inode <= file.inode /\ syncing.pc \in {"off", "open", "commit"}
    BY <2>1 DEF Contents, TrafficShapes, SyncShape
  <2> QED BY <2>2, <2>3, <2>4, <2>5 DEF TrafficTypeOK
<1> QED BY <1>1, MeasuringHolds, PTL

-----------------------------------------------------------------------------
(* The backups.                                                             *)

\* The names a file may have, and the files of a bundle or a directory.
Names == {Database} \cup (Roles \X {"config", "env"}) \cup ({"local"} \X (Roles \cup {"env"}))
Files == UNION {[S -> Nat] : S \in SUBSET Names}
Both == BOOLEAN

\* Files are functions from names to versions.
LEMMA FilesFacts ==
  /\ NoFiles \in Files /\ DOMAIN NoFiles = {}
  /\ \A fs \in Files : /\ DOMAIN fs \in SUBSET Names
                       /\ \A f \in DOMAIN fs : fs[f] \in Nat
                       /\ fs = [f \in DOMAIN fs |-> fs[f]]
  /\ \A S \in SUBSET Names : \A fs \in [S -> Nat] : fs \in Files /\ DOMAIN fs = S
<1>1. NoFiles \in [{} -> Nat] /\ DOMAIN NoFiles = {}
  BY DEF NoFiles
<1>2. \A S \in SUBSET Names : \A fs \in [S -> Nat] : fs \in Files /\ DOMAIN fs = S
  BY DEF Files
<1>3. ASSUME NEW fs \in Files
      PROVE  /\ DOMAIN fs \in SUBSET Names
             /\ \A f \in DOMAIN fs : fs[f] \in Nat
             /\ fs = [f \in DOMAIN fs |-> fs[f]]
  <2>1. PICK S \in SUBSET Names : fs \in [S -> Nat]
    BY DEF Files
  <2> QED BY <2>1
<1>4. {} \in SUBSET Names
  OBVIOUS
<1> QED BY <1>1, <1>2, <1>3, <1>4

\* One file more, and files before others.
LEMMA FileAdded ==
  ASSUME NEW fs \in Files, NEW f \in Names, NEW v \in Nat
  PROVE  /\ Overwritten(OneFile(f, v), fs) \in Files
         /\ DOMAIN Overwritten(OneFile(f, v), fs) = DOMAIN fs \cup {f}
         /\ \A g \in DOMAIN fs \cup {f} :
              Overwritten(OneFile(f, v), fs)[g] = IF g = f THEN v ELSE fs[g]
<1>1. DOMAIN fs \in SUBSET Names /\ \A g \in DOMAIN fs : fs[g] \in Nat
  BY FilesFacts
<1>2. PICK h : h = [g \in DOMAIN fs \cup {f} |-> IF g = f THEN v ELSE fs[g]]
  OBVIOUS
<1>3. h \in [DOMAIN fs \cup {f} -> Nat] /\ DOMAIN fs \cup {f} \in SUBSET Names
  BY <1>1, <1>2
<1>4. h \in Files /\ DOMAIN h = DOMAIN fs \cup {f}
  BY <1>3, FilesFacts
<1>5. Overwritten(OneFile(f, v), fs) = h
  BY <1>2 DEF Overwritten, OneFile
<1> QED BY <1>2, <1>4, <1>5

\* Files written over others.
LEMMA FilesJoined ==
  ASSUME NEW fs \in Files, NEW gs \in Files
  PROVE  /\ Overwritten(fs, gs) \in Files
         /\ DOMAIN Overwritten(fs, gs) = DOMAIN fs \cup DOMAIN gs
         /\ \A g \in DOMAIN fs \cup DOMAIN gs :
              Overwritten(fs, gs)[g] = IF g \in DOMAIN fs THEN fs[g] ELSE gs[g]
<1>1. /\ DOMAIN fs \in SUBSET Names /\ \A g \in DOMAIN fs : fs[g] \in Nat
      /\ DOMAIN gs \in SUBSET Names /\ \A g \in DOMAIN gs : gs[g] \in Nat
  BY FilesFacts
<1>2. PICK h : h = [g \in DOMAIN fs \cup DOMAIN gs |-> IF g \in DOMAIN fs THEN fs[g] ELSE gs[g]]
  OBVIOUS
<1>3. h \in [DOMAIN fs \cup DOMAIN gs -> Nat] /\ DOMAIN fs \cup DOMAIN gs \in SUBSET Names
  BY <1>1, <1>2
<1>4. h \in Files /\ DOMAIN h = DOMAIN fs \cup DOMAIN gs
  BY <1>3, FilesFacts
<1>5. Overwritten(fs, gs) = h
  BY <1>2 DEF Overwritten
<1> QED BY <1>2, <1>4, <1>5

\* Some of the files.
LEMMA FilesRestricted ==
  ASSUME NEW fs \in Files, NEW S \in SUBSET DOMAIN fs
  PROVE  /\ Restrict(fs, S) \in Files /\ DOMAIN Restrict(fs, S) = S
         /\ \A g \in S : Restrict(fs, S)[g] = fs[g]
<1>1. DOMAIN fs \in SUBSET Names /\ \A g \in DOMAIN fs : fs[g] \in Nat
  BY FilesFacts
<1>2. PICK h : h = [g \in S |-> fs[g]]
  OBVIOUS
<1>3. h \in [S -> Nat] /\ S \in SUBSET Names
  BY <1>1, <1>2
<1>4. h \in Files /\ DOMAIN h = S
  BY <1>3, FilesFacts
<1>5. Restrict(fs, S) = h
  BY <1>2 DEF Restrict
<1> QED BY <1>2, <1>4, <1>5

\* The sources of the roles' files, and the two places of each role's.
LEMMA SourcesFacts ==
  ASSUME Remote \subseteq Roles
  PROVE  /\ Sources \subseteq Names /\ Database \in Sources \ Local
         /\ Local \subseteq Sources
         /\ \A role \in Roles : Required(role) \subseteq Sources
         /\ \A role \in Remote : Required(role) \cap Local = {}
         /\ \A role \in Roles \ Remote : Required(role) \subseteq Local
<1>1. \A role \in Roles : Required(role) \subseteq Names /\ Database \notin Required(role)
  BY DEF Required, Names, Roles, Database
<1>2. \A role \in Remote : \A f \in Required(role) : f[1] # "local"
  BY DEF Required, Roles
<1>3. \A role \in Roles \ Remote : \A f \in Required(role) : f[1] = "local"
  BY DEF Required, Roles
<1>4. Database \in Names
  BY DEF Names
<1>5. \A f \in Local : \E role \in Roles \ Remote : f \in Required(role)
  BY DEF Local
<1>6. \A role \in Roles \ Remote : Required(role) \subseteq Local
  BY DEF Local
<1>7. \A f \in Sources : f = Database \/ \E role \in Roles : f \in Required(role)
  BY DEF Sources
<1>8. Database \in Sources /\ \A role \in Roles : Required(role) \subseteq Sources
  BY DEF Sources
<1> QED BY <1>1, <1>2, <1>3, <1>4, <1>5, <1>6, <1>7, <1>8

\* A role's required files go to two places of their own.
LEMMA PlacesFacts ==
  ASSUME NEW role \in Roles
  PROVE  /\ \A f, g \in Required(role) : RestorePath(f) = RestorePath(g) => f = g
         /\ \A f \in Required(role) : RestorePath(f) \in {"config", "env"}
         /\ \A path \in {"config", "env"} : \E f \in Required(role) : RestorePath(f) = path
<1>1. CASE role \in Remote
  <2>1. Required(role) = {<<role, "config">>, <<role, "env">>}
    BY <1>1 DEF Required
  <2>2. RestorePath(<<role, "config">>) = "config" /\ RestorePath(<<role, "env">>) = "env"
    BY DEF RestorePath
  <2> QED BY <2>1, <2>2
<1>2. CASE role \notin Remote
  <2>1. Required(role) = {<<"local", role>>, <<"local", "env">>}
    BY <1>2 DEF Required
  <2>2. /\ RestorePath(<<"local", role>>) = "config"
        /\ RestorePath(<<"local", "env">>) = "env"
    BY DEF RestorePath, Roles
  <2> QED BY <2>1, <2>2
<1> QED BY <1>1, <1>2

\* The settings are those of the scenario, whatever is spent.
Purse ==
  /\ backupLeft = [x \in DOMAIN backupLeft |-> backupLeft[x]]
  /\ {"remote", "gated"} \subseteq DOMAIN backupLeft
  /\ Remote \subseteq Roles

SettingsStay ==
  /\ backupLeft'.remote = backupLeft.remote
  /\ backupLeft'.gated = backupLeft.gated

\* A budget is spent, and never the settings.
LEMMA SpendingKeeps ==
  ASSUME Purse, NEW what, what \notin {"remote", "gated"}, SpendBackup(what)
  PROVE  Purse' /\ SettingsStay
  BY DEF Purse, SpendBackup, SettingsStay, Remote

\* As above, of the fault that a step may meet.
LEMMA CostKeeps ==
  ASSUME Purse, NEW what \in {"none", "unread", "down"}, Costs(what)
  PROVE  Purse' /\ SettingsStay
<1>1. CASE what = "none"
  BY <1>1 DEF Costs, Purse, SettingsStay, Remote
<1>2. CASE what # "none"
  BY <1>2, SpendingKeeps DEF Costs
<1> QED BY <1>1, <1>2

\* As above, of a step that meets none.
LEMMA IdleKeeps ==
  ASSUME Purse, UNCHANGED backupLeft
  PROVE  Purse' /\ SettingsStay
  BY DEF Purse, SettingsStay, Remote

\* No action alters the settings.
LEMMA SettingsKept ==
  ASSUME Purse, [BackupNext]_backupVars
  PROVE  Purse' /\ SettingsStay
<1>1. CASE DayPasses
  BY <1>1, SpendingKeeps DEF DayPasses
<1>2. ASSUME NEW f \in Sources, Rewrite(f) \/ Lose(f)
      PROVE  Purse' /\ SettingsStay
  BY <1>2, SpendingKeeps DEF Rewrite, Lose
<1>3. ASSUME NEW c \in Cyclers, BackupStep(c) \/ CycleStops(c)
      PROVE  Purse' /\ SettingsStay
  <2>1. CASE Snapshot(c) \/ CycleStops(c)
    BY <2>1, SpendingKeeps DEF Snapshot, CycleStops, Cyclers
  <2>2. CASE PruneSnapshots(c) \/ PruneBundles(c) \/ DraftStatus(c) \/ PublishStatus(c)
            \/ ClearDraft(c) \/ Upload(c) \/ RecordUpload(c)
    BY <2>2, IdleKeeps DEF PruneSnapshots, PruneBundles, DraftStatus, PublishStatus, ClearDraft,
       Upload, RecordUpload
  <2>3. ASSUME NEW role \in Roles, Collect(c, role)
        PROVE  Purse' /\ SettingsStay
    <3>1. PICK a \in Answers(role) : Costs(a.cost)
      BY <2>3 DEF Collect
    <3>2. a.cost \in {"none", "unread", "down"}
      BY <3>1 DEF Answers, ReadOnNode
    <3> QED BY <3>1, <3>2, CostKeeps
  <2>4. ASSUME NEW f \in Local, AddSource(c, f)
        PROVE  Purse' /\ SettingsStay
    BY <2>4, IdleKeeps, CostKeeps DEF AddSource
  <2>5. CASE Place(c)
    <3>1. Costs("none") \/ Costs("unread")
      BY <2>5 DEF Place
    <3> QED BY <3>1, CostKeeps
  <2> QED BY <1>3, <2>1, <2>2, <2>3, <2>4, <2>5 DEF BackupStep
<1>4. ASSUME NEW b \in bundles \cup bucket, NEW role \in Roles, NEW force \in BOOLEAN,
             NEW partial \in BOOLEAN, StartPrepare(b, role, force, partial)
      PROVE  Purse' /\ SettingsStay
  BY <1>4, SpendingKeeps DEF StartPrepare
<1>5. ASSUME NEW f \in Sources, WriteFile(f)
      PROVE  Purse' /\ SettingsStay
  BY <1>5, IdleKeeps DEF WriteFile
<1>6. CASE FinishPrepare
  BY <1>6, IdleKeeps DEF FinishPrepare
<1>7. CASE PrepareStops
  BY <1>7, SpendingKeeps DEF PrepareStops
<1>8. CASE UNCHANGED backupVars
  BY <1>8, IdleKeeps DEF backupVars
<1> QED BY <1>1, <1>2, <1>3, <1>4, <1>5, <1>6, <1>7, <1>8 DEF BackupNext

\* While they stay, so does what a role requires.
LEMMA RolesStay ==
  ASSUME SettingsStay
  PROVE  /\ Remote' = Remote /\ Local' = Local /\ Sources' = Sources
         /\ \A role : Required(role)' = Required(role)
  BY DEF SettingsStay, Remote, Local, Sources, Required

-----------------------------------------------------------------------------
(* A replacement node's directory.                                          *)

\* The places written, over those there already.
LEMMA OverFacts ==
  ASSUME NEW old, NEW path, NEW v
  PROVE  /\ DOMAIN Overwritten(OneFile(path, v), old) = DOMAIN old \cup {path}
         /\ \A p \in DOMAIN old \cup {path} :
              Overwritten(OneFile(path, v), old)[p] = IF p = path THEN v ELSE old[p]
  BY DEF Overwritten, OneFile

\* What is to be written of the bundle, and what of it is in the directory.
CycleWants == Required(preparing.role) \cap DOMAIN preparing.of.data

Underway ==
  preparing.on =>
    /\ preparing = [on |-> TRUE, of |-> preparing.of, role |-> preparing.role,
                    force |-> preparing.force, todo |-> preparing.todo]
    /\ preparing.role \in Roles
    /\ preparing.todo \subseteq CycleWants
    /\ \A f \in CycleWants \ preparing.todo :
         /\ RestorePath(f) \in DOMAIN output.files
         /\ output.files[RestorePath(f)] = preparing.of.data[f]
    /\ ~preparing.force => output.record.stamp = 0

Restoring ==
  /\ Purse
  /\ output = [files |-> output.files, record |-> output.record]
  /\ Underway
  /\ RestoreIsWhole

\* What is restored of a bundle for a role depends on the settings alone.
LEMMA RestoredStays ==
  ASSUME SettingsStay, NEW b, NEW role
  PROVE  Restored(b, role)' = Restored(b, role)
  BY RolesStay DEF Restored

\* Each of the files is at its place, with its content, and nothing else is.
InPlace(at, files, data) ==
  /\ \A f \in files : RestorePath(f) \in DOMAIN at /\ at[RestorePath(f)] = data[f]
  /\ \A path \in DOMAIN at : \E f \in files : RestorePath(f) = path

\* So are those that a preparation restores.
LEMMA RestoredFacts ==
  ASSUME Purse, NEW b, NEW role \in Roles
  PROVE  InPlace(Restored(b, role), Required(role) \cap DOMAIN b.data, b.data)
<1>1. PICK wants : wants = Required(role) \cap DOMAIN b.data
  OBVIOUS
<1>2. PICK at : at = Restored(b, role)
  OBVIOUS
<1>3. \A g, h \in wants : RestorePath(g) = RestorePath(h) => g = h
  BY <1>1, PlacesFacts
<1>4. /\ DOMAIN at = {RestorePath(f) : f \in wants}
      /\ \A path \in DOMAIN at : at[path] = b.data[CHOOSE f \in wants : RestorePath(f) = path]
  BY <1>1, <1>2 DEF Restored, AtPlaces
<1>5. ASSUME NEW g \in wants
      PROVE  RestorePath(g) \in DOMAIN at /\ at[RestorePath(g)] = b.data[g]
  <2>1. (CHOOSE f \in wants : RestorePath(f) = RestorePath(g)) = g
    BY <1>3
  <2> QED BY <1>4, <2>1
<1> QED BY <1>1, <1>2, <1>4, <1>5 DEF InPlace

\* A step that leaves the preparation alone.
LEMMA RestoringRests ==
  ASSUME Restoring, Purse', SettingsStay, UNCHANGED prepareVars
  PROVE  Restoring'
<1>1. CycleWants' = CycleWants
  BY RolesStay DEF CycleWants, prepareVars
<1>2. Underway'
  BY <1>1 DEF Underway, Restoring, prepareVars
<1>3. Restored(preparing.of, preparing.role)' = Restored(preparing.of, preparing.role)
  BY RestoredStays DEF Restored, prepareVars
<1>4. ForcedIn' = ForcedIn
  BY <1>3 DEF ForcedIn, prepareVars
<1>5. RestoreIsWhole'
  BY <1>4 DEF RestoreIsWhole, Restoring, prepareVars
<1> QED BY <1>2, <1>5 DEF Restoring, prepareVars

\* A preparation begins.
LEMMA RestoringStarts ==
  ASSUME Restoring, Purse', SettingsStay, NEW b, NEW role \in Roles, NEW force, NEW partial,
         StartPrepare(b, role, force, partial)
  PROVE  Restoring'
<1>1. /\ preparing' = [on |-> TRUE, of |-> b, role |-> role, force |-> force,
                       todo |-> Required(role) \cap DOMAIN b.data]
      /\ output' = output /\ torn' = torn /\ ~preparing.on
      /\ force \/ output.record.stamp = 0
  BY DEF StartPrepare
<1>2. CycleWants' = Required(role) \cap DOMAIN b.data
  BY <1>1, RolesStay DEF CycleWants
<1>3. Underway'
  BY <1>1, <1>2 DEF Underway
<1>4. ForcedIn \subseteq ForcedIn'
  BY <1>1 DEF ForcedIn
<1>5. RestoreIsWhole'
  BY <1>1, <1>4 DEF RestoreIsWhole, Restoring
<1> QED BY <1>1, <1>3, <1>5 DEF Restoring

\* It writes a file of the bundle.
LEMMA RestoringWrites ==
  ASSUME Restoring, Purse', SettingsStay, NEW f, WriteFile(f)
  PROVE  Restoring'
<1>1. /\ preparing.on /\ f \in preparing.todo
      /\ output' = [output EXCEPT !.files = Overwritten(OneFile(RestorePath(f), preparing.of.data[f]), @)]
      /\ preparing' = [preparing EXCEPT !.todo = @ \ {f}]
      /\ torn' = torn
  BY DEF WriteFile, Written
<1>2. /\ output'.record = output.record
      /\ output'.files = Overwritten(OneFile(RestorePath(f), preparing.of.data[f]), output.files)
      /\ output' = [files |-> output'.files, record |-> output'.record]
  BY <1>1 DEF Restoring
<1>3. /\ preparing'.on /\ preparing'.of = preparing.of /\ preparing'.role = preparing.role
      /\ preparing'.force = preparing.force /\ preparing'.todo = preparing.todo \ {f}
      /\ preparing' = [on |-> TRUE, of |-> preparing'.of, role |-> preparing'.role,
                       force |-> preparing'.force, todo |-> preparing'.todo]
  BY <1>1 DEF Restoring, Underway
<1>4. CycleWants' = CycleWants
  BY <1>3, RolesStay DEF CycleWants
<1>5. preparing.role \in Roles /\ preparing.todo \subseteq CycleWants
  BY <1>1 DEF Restoring, Underway
<1>6. \A g, h \in CycleWants : RestorePath(g) = RestorePath(h) => g = h
  BY <1>5, PlacesFacts DEF CycleWants
<1>7. /\ DOMAIN output'.files = DOMAIN output.files \cup {RestorePath(f)}
      /\ \A p \in DOMAIN output.files \cup {RestorePath(f)} :
           output'.files[p] = IF p = RestorePath(f) THEN preparing.of.data[f]
                              ELSE output.files[p]
  <2>1. PICK path, v, old : path = RestorePath(f) /\ v = preparing.of.data[f] /\ old = output.files
    OBVIOUS
  <2>2. output'.files = Overwritten(OneFile(path, v), old)
    BY <1>2, <2>1
  <2>3. /\ DOMAIN Overwritten(OneFile(path, v), old) = DOMAIN old \cup {path}
        /\ \A p \in DOMAIN old \cup {path} :
             Overwritten(OneFile(path, v), old)[p] = IF p = path THEN v ELSE old[p]
    BY OverFacts, Zenon
  <2> QED BY <2>1, <2>2, <2>3
<1>8. ASSUME NEW g \in CycleWants \ preparing'.todo
      PROVE  /\ RestorePath(g) \in DOMAIN output'.files
             /\ output'.files[RestorePath(g)] = preparing.of.data[g]
  <2>1. CASE g = f
    BY <2>1, <1>7
  <2>2. CASE g # f
    <3>1. /\ RestorePath(g) \in DOMAIN output.files
          /\ output.files[RestorePath(g)] = preparing.of.data[g]
      BY <1>1, <1>3, <1>8, <2>2 DEF Restoring, Underway
    <3>2. RestorePath(g) # RestorePath(f)
      BY <1>1, <1>5, <1>6, <1>8, <2>2
    <3> QED BY <3>1, <3>2, <1>7
  <2> QED BY <2>1, <2>2
<1>9. Underway'
  <2>1. ~preparing'.force => output'.record.stamp = 0
    BY <1>1, <1>2, <1>3 DEF Restoring, Underway
  <2> QED BY <1>3, <1>4, <1>5, <1>8, <2>1 DEF Underway
<1>10. PICK r : r = Restored(preparing.of, preparing.role)
  OBVIOUS
<1>11. RestorePath(f) \in DOMAIN r /\ r[RestorePath(f)] = preparing.of.data[f]
  <2>1. PICK b, role : b = preparing.of /\ role = preparing.role
    OBVIOUS
  <2>2. role \in Roles /\ f \in Required(role) \cap DOMAIN b.data /\ Purse
    BY <1>1, <1>5, <2>1 DEF CycleWants, Restoring
  <2>3. InPlace(Restored(b, role), Required(role) \cap DOMAIN b.data, b.data)
    BY <2>2, RestoredFacts
  <2> QED BY <1>10, <2>1, <2>2, <2>3 DEF InPlace
<1>12. ForcedIn' = ForcedIn /\ r \in ForcedIn'
  <2>1. Restored(preparing.of, preparing.role)' = Restored(preparing.of, preparing.role)
    BY <1>3, RestoredStays DEF Restored
  <2> QED BY <1>1, <1>3, <1>10, <2>1 DEF ForcedIn
<1>13. RestoreIsWhole'
  <2>1. SUFFICES ASSUME output.record.stamp # 0
                 PROVE  /\ \A path \in DOMAIN output.record.files :
                             /\ path \in DOMAIN output'.files
                             /\ \/ output'.files[path] = output.record.files[path]
                                \/ \E x \in ForcedIn' : /\ path \in DOMAIN x
                                                      /\ output'.files[path] = x[path]
                        /\ output.record.ready => {"config", "env"} \subseteq DOMAIN output'.files
    BY <1>2 DEF RestoreIsWhole
  <2>2. /\ \A path \in DOMAIN output.record.files :
             /\ path \in DOMAIN output.files
             /\ \/ output.files[path] = output.record.files[path]
                \/ \E x \in ForcedIn : path \in DOMAIN x /\ output.files[path] = x[path]
        /\ output.record.ready => {"config", "env"} \subseteq DOMAIN output.files
    BY <2>1 DEF RestoreIsWhole, Restoring
  <2>3. output.record.ready => {"config", "env"} \subseteq DOMAIN output'.files
    BY <1>7, <2>2
  <2>4. ASSUME NEW path \in DOMAIN output.record.files
        PROVE  /\ path \in DOMAIN output'.files
               /\ \/ output'.files[path] = output.record.files[path]
                  \/ \E x \in ForcedIn' : path \in DOMAIN x /\ output'.files[path] = x[path]
    <3>1. CASE path = RestorePath(f)
      BY <1>7, <1>11, <1>12, <3>1
    <3>2. CASE path # RestorePath(f)
      <4>1. path \in DOMAIN output'.files /\ output'.files[path] = output.files[path]
        BY <1>7, <2>2, <3>2
      <4> QED BY <1>12, <2>2, <4>1
    <3> QED BY <3>1, <3>2
  <2> QED BY <2>3, <2>4
<1> QED BY <1>2, <1>9, <1>13 DEF Restoring

\* It ends with the record of what it wrote.
LEMMA RestoringFinishes ==
  ASSUME Restoring, Purse', FinishPrepare
  PROVE  Restoring'
<1> DEFINE p == preparing
           listed == Restored(p.of, p.role)
<1>1. /\ p.on /\ p.todo = {}
      /\ output' = [output EXCEPT !.record = [stamp |-> p.of.stamp,
                       ready |-> NodeReady(p.role, DOMAIN p.of.data), files |-> listed]]
      /\ torn' = {} /\ preparing' = NotPreparing
  BY DEF FinishPrepare
<1>2. /\ output'.files = output.files
      /\ output'.record.ready = NodeReady(p.role, DOMAIN p.of.data)
      /\ output'.record.files = listed
      /\ output' = [files |-> output'.files, record |-> output'.record]
  BY <1>1 DEF Restoring
<1>3. /\ p.role \in Roles
      /\ \A f \in CycleWants : /\ RestorePath(f) \in DOMAIN output.files
                           /\ output.files[RestorePath(f)] = p.of.data[f]
  BY <1>1 DEF Restoring, Underway
<1>3a. PICK role \in Roles : role = p.role
  BY <1>3
<1>4. PICK b : b = p.of
  OBVIOUS
<1>5. ASSUME NEW path \in DOMAIN listed
      PROVE  path \in DOMAIN output.files /\ output.files[path] = listed[path]
  <2>1. Purse
    BY DEF Restoring
  <2>2. InPlace(Restored(b, role), Required(role) \cap DOMAIN b.data, b.data)
    BY <2>1, RestoredFacts
  <2>3. CycleWants = Required(role) \cap DOMAIN b.data /\ listed = Restored(b, role)
    BY <1>3a, <1>4 DEF CycleWants
  <2> HIDE DEF listed
  <2>4. PICK f \in CycleWants : RestorePath(f) = path
    BY <2>2, <2>3 DEF InPlace
  <2>5. listed[path] = b.data[f]
    BY <2>2, <2>3, <2>4 DEF InPlace
  <2> QED BY <1>3, <1>4, <2>4, <2>5
<1>6. ASSUME NodeReady(p.role, DOMAIN p.of.data)
      PROVE  {"config", "env"} \subseteq DOMAIN output.files
  <2>1. Required(p.role) \subseteq CycleWants
    BY <1>6 DEF NodeReady, CycleWants
  <2> QED BY <2>1, <1>3, PlacesFacts
<1>7. RestoreIsWhole'
  <2> HIDE DEF listed
  <2> QED BY <1>2, <1>5, <1>6 DEF RestoreIsWhole
<1>8. Underway'
  BY <1>1 DEF Underway, NotPreparing
<1> QED BY <1>2, <1>7, <1>8 DEF Restoring

\* It is stopped.
LEMMA RestoringStops ==
  ASSUME Restoring, Purse', SettingsStay, PrepareStops
  PROVE  Restoring'
<1>1. /\ preparing.on /\ output' = output /\ preparing' = NotPreparing
      /\ torn' = IF preparing.force THEN torn \cup {Restored(preparing.of, preparing.role)} ELSE torn
  BY DEF PrepareStops
<1>2. Underway'
  BY <1>1 DEF Underway, NotPreparing
<1>3. RestoreIsWhole'
  <2>1. CASE preparing.force
    <3>1. ForcedIn \subseteq ForcedIn'
      BY <1>1, <2>1 DEF ForcedIn, NotPreparing
    <3> QED BY <1>1, <3>1 DEF RestoreIsWhole, Restoring
  <2>2. CASE ~preparing.force
    BY <1>1, <2>2 DEF RestoreIsWhole, Restoring, Underway
  <2> QED BY <2>1, <2>2
<1> QED BY <1>1, <1>2, <1>3 DEF Restoring

\* Each file that the record of a replacement node's directory lists is there, as
\* it is in the record's bundle or in that of a preparation that was forced over
\* it and has not ended: over stopped and repeated preparations from any bundles
\* (node_recovery.py prepare).
THEOREM RestoreHolds == BackupSpec => []RestoreIsWhole
<1>1. BackupInit => Restoring
  <2> SUFFICES ASSUME BackupInit PROVE Restoring
    OBVIOUS
  <2>1. Purse
    BY BackupAssumption DEF BackupInit, Purse, Remote
  <2>2. Underway
    BY DEF BackupInit, Underway, NotPreparing
  <2>3. RestoreIsWhole /\ output = [files |-> output.files, record |-> output.record]
    BY DEF BackupInit, RestoreIsWhole
  <2> QED BY <2>1, <2>2, <2>3 DEF Restoring
<1>2. Restoring /\ [BackupNext]_backupVars => Restoring'
  <2> SUFFICES ASSUME Restoring, [BackupNext]_backupVars PROVE Restoring'
    OBVIOUS
  <2>1. Purse' /\ SettingsStay
    BY SettingsKept DEF Restoring
  <2>2. CASE UNCHANGED prepareVars
    BY <2>1, <2>2, RestoringRests
  <2>3. ASSUME NEW b \in bundles \cup bucket, NEW role \in Roles, NEW force \in BOOLEAN,
               NEW partial \in BOOLEAN, StartPrepare(b, role, force, partial)
        PROVE  Restoring'
    BY <2>1, <2>3, RestoringStarts
  <2>4. ASSUME NEW f \in Sources, WriteFile(f)
        PROVE  Restoring'
    BY <2>1, <2>4, RestoringWrites
  <2>5. CASE FinishPrepare
    BY <2>1, <2>5, RestoringFinishes
  <2>6. CASE PrepareStops
    BY <2>1, <2>6, RestoringStops
  <2>7. DayPasses \/ (\E f \in Sources : Rewrite(f) \/ Lose(f)) => UNCHANGED prepareVars
    BY DEF DayPasses, Rewrite, Lose
  <2>8. ASSUME NEW c \in Cyclers, BackupStep(c) \/ CycleStops(c)
        PROVE  UNCHANGED prepareVars
    BY <2>8 DEF BackupStep, CycleStops, Snapshot, PruneSnapshots, Collect, AddSource, Place,
       PruneBundles, DraftStatus, PublishStatus, ClearDraft, Upload, RecordUpload
  <2>9. UNCHANGED backupVars => UNCHANGED prepareVars
    BY DEF backupVars
  <2> QED BY <2>2, <2>3, <2>4, <2>5, <2>6, <2>7, <2>8, <2>9 DEF BackupNext
<1>3. Restoring => RestoreIsWhole
  BY DEF Restoring
<1> QED BY <1>1, <1>2, <1>3, PTL DEF BackupSpec

-----------------------------------------------------------------------------
(* The cycles and their bundles.                                            *)

Pcs == {"off", "tidy", "collect", "archive", "prune", "verify", "publish", "clear", "upload",
        "record"}
Turns == [pc : Pcs, stamp : Nat, nodes : SUBSET Roles, staged : Files, todo : SUBSET Names,
          data : Files, hash : Files, since : Files]

\* A cycle has read its files since it started, each one once.
Reading(r) ==
  /\ r.stamp \in 1 .. stamps /\ r.nodes \subseteq Remote
  /\ DOMAIN r.since = Sources /\ \A f \in Sources : r.since[f] <= live[f]
  /\ DOMAIN r.staged \subseteq Sources \ Local
  /\ \A f \in DOMAIN r.staged : r.staged[f] >= r.since[f]
  /\ r.todo \subseteq Local /\ DOMAIN r.data \subseteq Local \ r.todo
  /\ \A f \in DOMAIN r.data : r.data[f] >= r.since[f]
  /\ r.hash = r.data

\* Its snapshot is there, and as old as the cycle.
Snapped(r) ==
  /\ \E s \in snapshots : s.stamp = r.stamp /\ s.made = day
  /\ \A s \in snapshots : s.stamp = r.stamp => s.db = r.since[Database]

\* Its bundle is there from when it is placed, in the bucket when it is uploaded.
Bundled(r) ==
  /\ r.pc \in {"tidy", "collect", "archive"} => \A b \in bundles : b.stamp # r.stamp
  /\ r.pc \in {"prune", "verify", "publish", "clear", "upload", "record"} =>
       \E b \in bundles : b.stamp = r.stamp /\ b.made = day
  /\ r.pc = "upload" /\ backupLeft.gated =>
       \A b \in bundles : b.stamp = r.stamp => b.says.ready
  /\ r.pc = "record" => \E b \in bucket : b.stamp = r.stamp

Good(r) == r.pc # "off" => Reading(r) /\ Snapped(r) /\ Bundled(r)

\* A bundle's contents are those of its cycle, and what it says of them.
Whole(b) ==
  /\ b.data = b.hash /\ DOMAIN b.data \subseteq Sources
  /\ \A f \in DOMAIN b.data : b.data[f] >= b.since[f]
  /\ b.says.ready =>
       /\ Database \in DOMAIN b.data
       /\ \A role \in b.says.roles : Required(role) \subseteq DOMAIN b.data
       /\ Remote \subseteq b.says.roles

Dated(b) == b.stamp \in 1 .. stamps /\ b.made \in Nat /\ b.made <= day

\* A status, drafted or published, is that of a bundle, or a younger one is there.
Spoken(x) ==
  \/ \E b \in bundles : /\ b.stamp = x.stamp /\ b.made = x.made
                        /\ Valid(b) /\ b.says.ready = x.ready
  \/ \E b \in bundles : b.made > x.made

Dates == stamps \in Nat /\ day \in Nat /\ status.made \in Nat /\ draft.made \in Nat
Versions == live \in [Sources -> Nat]
Cycling == cycles \in [Cyclers -> Turns]
Apart ==
  \A c, d \in Cyclers :
    c # d /\ cycles[c].pc # "off" /\ cycles[d].pc # "off" => cycles[c].stamp # cycles[d].stamp
AllGood == \A c \in Cyclers : Good(cycles[c])
Snapshots == \A s \in snapshots : s.stamp \in 1 .. stamps
Bundles ==
  /\ \A b \in bundles : Dated(b)
  /\ \A b \in bundles \cup bucket : Whole(b)
  /\ \A b, d \in bundles : b.stamp = d.stamp => b = d
Records ==
  /\ status.stamp # 0 => Spoken(status)
  /\ draft.stamp # 0 => Spoken(draft)
  /\ placed => bundles # {}
  /\ uploaded # 0 => \E b \in bucket : b.stamp = uploaded
  /\ backupLeft.gated => \A b \in bucket : b.says.ready
Flags == gone \subseteq Sources /\ placed \in BOOLEAN

Backing ==
  /\ Purse /\ Dates /\ Versions /\ Cycling /\ Apart /\ AllGood /\ Snapshots
  /\ Bundles /\ Records

-----------------------------------------------------------------------------
(* What a step leaves.                                                      *)

\* Within a day versions and stamps grow, and what is of today stays.
Forward ==
  /\ Purse' /\ SettingsStay
  /\ Versions' /\ \A f \in Sources : live[f] <= live'[f]
  /\ stamps' \in Nat /\ stamps <= stamps' /\ day' = day
  /\ \A s \in snapshots : s.made = day => s \in snapshots'
  /\ \A b \in bundles : b.made = day => b \in bundles'
  /\ bucket \subseteq bucket'

\* What a cycle has read stays recent while the files grow newer.
LEMMA ReadingStays ==
  ASSUME NEW r \in Turns, Purse, Versions, stamps \in Nat, Reading(r), Forward
  PROVE  Reading(r)'
<1>1. Remote' = Remote /\ Local' = Local /\ Sources' = Sources
  BY RolesStay DEF Forward
<1>2. \A f \in Sources : r.since[f] \in Nat /\ live[f] \in Nat /\ live'[f] \in Nat
                         /\ r.since[f] <= live[f] /\ live[f] <= live'[f]
  BY <1>1, FilesFacts DEF Reading, Turns, Versions, Forward
<1>3. \A f \in Sources : r.since[f] <= live'[f]
  BY <1>2
<1>4. r.stamp \in 1 .. stamps'
  BY DEF Reading, Forward
<1> QED BY <1>1, <1>3, <1>4 DEF Reading

\* Its snapshot stays while none of its stamp is made.
LEMMA SnappedStays ==
  ASSUME NEW r \in Turns, Snapped(r), Forward,
         \A s \in snapshots' : s \notin snapshots => s.stamp # r.stamp
  PROVE  Snapped(r)'
  BY DEF Snapped, Forward

\* So does its bundle.
LEMMA BundledStays ==
  ASSUME NEW r \in Turns, Bundled(r), Forward,
         \A b \in bundles' : b \notin bundles => b.stamp # r.stamp
  PROVE  Bundled(r)'
  BY DEF Bundled, Forward, SettingsStay

\* So does all that is known of a turn.
LEMMA GoodStays ==
  ASSUME NEW r \in Turns, Purse, Versions, stamps \in Nat, Good(r), Forward,
         r.pc # "off" =>
           /\ \A s \in snapshots' : s \notin snapshots => s.stamp # r.stamp
           /\ \A b \in bundles' : b \notin bundles => b.stamp # r.stamp
  PROVE  Good(r)'
  BY ReadingStays, SnappedStays, BundledStays DEF Good

\* A bundle's contents do not depend on the state.
LEMMA WholeStays ==
  ASSUME NEW b, SettingsStay, Whole(b)
  PROVE  Whole(b)'
  BY RolesStay DEF Whole

\* A bundle is not of the future.
LEMMA DatedStays ==
  ASSUME NEW b, Dated(b), stamps \in Nat, day \in Nat, stamps' \in Nat, day' \in Nat,
         stamps <= stamps', day <= day'
  PROVE  Dated(b)'
  BY DEF Dated

-----------------------------------------------------------------------------
(* The turn of a cycle.                                                     *)

\* A cycle that is over has nothing.
LEMMA EndedTurn == Ended \in Turns /\ Ended.pc = "off"
  BY FilesFacts DEF Ended, Turns, Pcs

\* Only c's cycle changes.
Alone(c) == Cycling' /\ \A d \in Cyclers \ {c} : cycles'[d] = cycles[d]

\* One cycle takes a turn, the others do not.
LEMMA TurnTaken ==
  ASSUME Cycling, NEW c \in Cyclers, NEW n \in Turns, cycles' = [cycles EXCEPT ![c] = n]
  PROVE  Alone(c) /\ cycles'[c] = n
  BY DEF Cycling, Alone

\* The cycle goes on, with what it had.
SameBut(n, r) ==
  /\ n.stamp = r.stamp /\ n.nodes = r.nodes /\ n.staged = r.staged /\ n.todo = r.todo
  /\ n.data = r.data /\ n.hash = r.hash /\ n.since = r.since

\* As above, of a step that only goes on.
LEMMA TurnGoes ==
  ASSUME Cycling, NEW c \in Cyclers, NEW pc \in Pcs, Goes(c, pc)
  PROVE  /\ Alone(c) /\ cycles[c] \in Turns /\ cycles'[c] \in Turns
         /\ cycles'[c].pc = pc /\ SameBut(cycles'[c], cycles[c])
<1>1. PICK r \in Turns : r = cycles[c]
  BY DEF Cycling
<1>2. PICK n : n = [r EXCEPT !.pc = pc]
  OBVIOUS
<1>3. n \in Turns /\ n.pc = pc /\ SameBut(n, r)
  BY <1>1, <1>2 DEF Turns, SameBut
<1>4. cycles' = [cycles EXCEPT ![c] = n]
  BY <1>1, <1>2 DEF Goes
<1>5. Alone(c) /\ cycles'[c] = n
  BY <1>3, <1>4, TurnTaken
<1> QED BY <1>1, <1>3, <1>5

\* What a turn has read does not depend on where it goes on.
LEMMA ReadingSame ==
  ASSUME NEW r, NEW n, SameBut(n, r), Reading(r), Snapped(r)
  PROVE  Reading(n) /\ Snapped(n)
  BY DEF SameBut, Reading, Snapped

\* The others' turns, and c's, while c's stamp is what it was.
LEMMA TurnsKept ==
  ASSUME Purse, Dates, Versions, Cycling, Apart, AllGood, Forward, NEW c \in Cyclers, Alone(c),
         snapshots' \subseteq snapshots, cycles[c].pc # "off",
         \A b \in bundles' : b \notin bundles => b.stamp = cycles[c].stamp,
         cycles'[c].pc # "off" => cycles'[c].stamp = cycles[c].stamp,
         Good(cycles[c])'
  PROVE  Apart' /\ AllGood'
<1>1. \A d \in Cyclers \ {c} : cycles'[d] = cycles[d] /\ cycles[d] \in Turns
  BY DEF Alone, Cycling
<1>2. Apart'
  BY <1>1 DEF Apart
<1>3. ASSUME NEW d \in Cyclers \ {c}
      PROVE  Good(cycles[d])'
  <2>1. PICK r \in Turns : r = cycles[d] /\ r = cycles'[d]
    BY <1>1
  <2>2. Good(r) /\ (r.pc # "off" => r.stamp # cycles[c].stamp)
    BY <2>1 DEF AllGood, Apart
  <2>3. Good(r)'
    BY <2>2, GoodStays DEF Dates
  <2> QED BY <2>1, <2>3
<1> QED BY <1>2, <1>3 DEF AllGood

\* The bundles and what is written of them, when they are left alone.
LEMMA BooksRest ==
  ASSUME Dates, Bundles, Records, Snapshots, SettingsStay, UNCHANGED <<bundleVars, uploadVars>>,
         stamps' \in Nat, stamps <= stamps', day' \in Nat, day <= day', snapshots' \subseteq snapshots
  PROVE  Dates' /\ Bundles' /\ Records' /\ Snapshots'
<1> USE DEF bundleVars, statusVars, uploadVars
<1>1. Dates'
  BY DEF Dates
<1>2. \A b \in bundles : Dated(b)'
  BY DatedStays DEF Bundles, Dates
<1>3. \A b \in bundles \cup bucket : Whole(b)'
  BY WholeStays DEF Bundles
<1>4. Bundles'
  BY <1>2, <1>3 DEF Bundles
<1>5. Records'
  BY DEF Records, Spoken, SettingsStay, Valid
<1>6. Snapshots'
  BY DEF Snapshots, Dates
<1> QED BY <1>1, <1>4, <1>5, <1>6

\* The files are as they were.
LEMMA VersionsRest ==
  ASSUME Versions, SettingsStay, UNCHANGED live
  PROVE  Versions' /\ \A f \in Sources : live[f] <= live'[f]
<1>1. Sources' = Sources
  BY RolesStay
<1> QED BY <1>1 DEF Versions

-----------------------------------------------------------------------------
(* Step by step.                                                            *)

\* A step that leaves the backups alone.
LEMMA BackingRests ==
  ASSUME Backing, Purse', SettingsStay,
         UNCHANGED <<day, stamps, snapshots, cycles, bundleVars, uploadVars>>,
         Versions', \A f \in Sources : live[f] <= live'[f]
  PROVE  Backing'
<1> USE DEF Backing
<1>1. Forward
  BY DEF Forward, bundleVars, uploadVars, Dates
<1>2. Dates' /\ Bundles' /\ Records' /\ Snapshots'
  BY BooksRest DEF Dates
<1>3. Cycling' /\ Apart'
  BY DEF Cycling, Apart
<1>4. ASSUME NEW c \in Cyclers
      PROVE  Good(cycles[c])'
  <2>1. PICK r \in Turns : r = cycles[c] /\ r = cycles'[c]
    BY DEF Cycling
  <2>2. Good(r)'
    BY <1>1, <2>1, GoodStays DEF AllGood, Dates, bundleVars
  <2> QED BY <2>1, <2>2
<1>5. AllGood'
  BY <1>4 DEF AllGood
<1> QED BY <1>2, <1>3, <1>5

\* A day passes.
LEMMA BackingDay ==
  ASSUME Backing, Purse', SettingsStay, DayPasses
  PROVE  Backing'
<1> USE DEF Backing
<1>1. /\ \A c \in Cyclers : cycles[c].pc = "off"
      /\ day' = day + 1 /\ UNCHANGED <<live, stamps, snapshots, cycles, bundleVars, uploadVars>>
  BY DEF DayPasses
<1>2. Dates' /\ Bundles' /\ Records' /\ Snapshots'
  BY <1>1, BooksRest DEF Dates
<1>3. Cycling' /\ Apart' /\ AllGood'
  BY <1>1 DEF Cycling, Apart, AllGood, Good
<1>4. Versions'
  BY <1>1, VersionsRest
<1> QED BY <1>2, <1>3, <1>4

\* A file is rewritten or lost under a cycle.
LEMMA BackingRewrites ==
  ASSUME Backing, Purse', SettingsStay, NEW f \in Sources, Rewrite(f) \/ Lose(f)
  PROVE  Backing'
<1> USE DEF Backing
<1>1. /\ UNCHANGED <<day, stamps, snapshots, cycles, bundleVars, uploadVars>>
      /\ live' = [live EXCEPT ![f] = @ + 1] \/ live' = live
  BY DEF Rewrite, Lose
<1>2. Sources' = Sources
  BY RolesStay
<1>3. Versions' /\ \A g \in Sources : live[g] <= live'[g]
  BY <1>1, <1>2 DEF Versions
<1> QED BY <1>1, <1>3, BackingRests

\* A cycle that ends.
LEMMA BackingEnds ==
  ASSUME Backing, Purse', SettingsStay, NEW c \in Cyclers, cycles[c].pc # "off",
         cycles' = [cycles EXCEPT ![c] = Ended],
         UNCHANGED <<sourceVars, stamps, snapshots, bundles>>,
         bucket \subseteq bucket', Dates' /\ Bundles' /\ Records' /\ Snapshots'
  PROVE  Backing'
<1> USE DEF Backing
<1>1. Alone(c) /\ cycles'[c] = Ended
  BY EndedTurn, TurnTaken
<1>2. Versions' /\ \A f \in Sources : live[f] <= live'[f]
  BY VersionsRest DEF sourceVars
<1>3. Forward
  BY <1>2 DEF Forward, sourceVars, Dates
<1>4. Good(cycles[c])'
  BY <1>1, EndedTurn DEF Good
<1>5. Apart' /\ AllGood'
  BY <1>1, <1>3, <1>4, EndedTurn, TurnsKept
<1> QED BY <1>1, <1>2, <1>5 DEF Alone

\* A cycle that goes on, without anything read.
LEMMA BackingGoes ==
  ASSUME Backing, Purse', SettingsStay, NEW c \in Cyclers, NEW pc \in Pcs \ {"off"},
         cycles[c].pc # "off", Goes(c, pc),
         UNCHANGED <<sourceVars, stamps>>, snapshots' \subseteq snapshots,
         \A s \in snapshots : s.made = day => s \in snapshots',
         \A b \in bundles : b.made = day => b \in bundles',
         \A b \in bundles' : b \notin bundles => b.stamp = cycles[c].stamp,
         bucket \subseteq bucket', Dates' /\ Bundles' /\ Records' /\ Snapshots',
         Bundled(cycles[c])'
  PROVE  Backing'
<1> USE DEF Backing
<1>1. /\ Alone(c) /\ cycles[c] \in Turns /\ cycles'[c] \in Turns
      /\ cycles'[c].pc = pc /\ SameBut(cycles'[c], cycles[c])
  BY TurnGoes
<1>2. Versions' /\ \A f \in Sources : live[f] <= live'[f]
  BY VersionsRest DEF sourceVars
<1>3. Forward
  BY <1>2 DEF Forward, sourceVars, Dates
<1>4. PICK r \in Turns, n \in Turns : r = cycles[c] /\ n = cycles'[c]
  BY <1>1
<1>5. Reading(r)' /\ Snapped(r)'
  BY <1>3, <1>4, ReadingStays, SnappedStays DEF AllGood, Good, Dates
<1>6. Reading(n)' /\ Snapped(n)'
  BY <1>1, <1>4, <1>5 DEF SameBut, Reading, Snapped
<1>7. Good(cycles[c])'
  BY <1>4, <1>6 DEF Good
<1>8. cycles'[c].stamp = cycles[c].stamp
  BY <1>1 DEF SameBut
<1>9. Apart' /\ AllGood'
  BY <1>1, <1>3, <1>7, <1>8, TurnsKept
<1> QED BY <1>1, <1>2, <1>9 DEF Alone

\* What is of today is not pruned.
LEMMA TodayStays ==
  ASSUME Dates, NEW x, x.made = day
  PROVE  ~Expired(x)
  BY BackupAssumption DEF Dates, Expired

\* Old snapshots are removed.
LEMMA BackingPrunesSnapshots ==
  ASSUME Backing, Purse', SettingsStay, NEW c \in Cyclers, PruneSnapshots(c)
  PROVE  Backing'
<1>1. PICK pc \in {"archive", "collect"} : Goes(c, pc)
  BY DEF PruneSnapshots
<1>2. /\ cycles[c].pc = "tidy"
      /\ snapshots' \subseteq snapshots /\ \A s \in snapshots : s.made = day => s \in snapshots'
      /\ UNCHANGED <<sourceVars, stamps, bundleVars, uploadVars>>
  BY TodayStays DEF PruneSnapshots, Backing
<1>3. Dates' /\ Bundles' /\ Records' /\ Snapshots'
  BY <1>2, BooksRest DEF Backing, Dates, sourceVars
<1>4. /\ cycles'[c].pc = pc /\ cycles'[c].stamp = cycles[c].stamp
  BY <1>1, TurnGoes DEF Backing, SameBut, Pcs
<1>5. Bundled(cycles[c])
  BY <1>2 DEF Backing, AllGood, Good
<1>6. Bundled(cycles[c])'
  BY <1>1, <1>2, <1>4, <1>5 DEF Bundled, bundleVars, uploadVars
<1> QED BY <1>1, <1>2, <1>3, <1>6, BackingGoes DEF Pcs, bundleVars, uploadVars

\* A cycle that has read some of its files.
LEMMA BackingReads ==
  ASSUME Backing, Purse', SettingsStay, NEW c \in Cyclers, NEW n \in Turns,
         cycles' = [cycles EXCEPT ![c] = n],
         cycles[c].pc \in {"collect", "archive"}, n.pc \in {"collect", "archive"},
         n.stamp = cycles[c].stamp, n.since = cycles[c].since, Reading(n),
         UNCHANGED <<sourceVars, stamps, snapshots, bundleVars, uploadVars>>
  PROVE  Backing'
<1> USE DEF Backing
<1>1. Alone(c) /\ cycles'[c] = n
  BY TurnTaken
<1>2. Versions' /\ \A f \in Sources : live[f] <= live'[f]
  BY VersionsRest DEF sourceVars
<1>3. Forward
  BY <1>2 DEF Forward, sourceVars, bundleVars, uploadVars, Dates
<1>4. Snapped(cycles[c]) /\ Bundled(cycles[c])
  BY DEF AllGood, Good
<1>5. Snapped(n) /\ Bundled(n)
  BY <1>4 DEF Snapped, Bundled
<1>6. Good(n)'
  BY <1>3, <1>5, GoodStays DEF Dates, Good, bundleVars
<1>7. Good(cycles[c])'
  BY <1>1, <1>6
<1>8. Apart' /\ AllGood'
  BY <1>1, <1>3, <1>7, TurnsKept DEF bundleVars
<1>9. Dates' /\ Bundles' /\ Records' /\ Snapshots'
  BY BooksRest DEF Dates, sourceVars
<1> QED BY <1>1, <1>2, <1>8, <1>9 DEF Alone

\* The files of a role are collected.
LEMMA BackingCollects ==
  ASSUME Backing, Purse', SettingsStay, NEW c \in Cyclers, NEW role \in Roles, Collect(c, role)
  PROVE  Backing'
<1> USE DEF Backing
<1>1. PICK r \in Turns : r = cycles[c]
  BY DEF Cycling
<1>2. /\ r.pc = "collect" /\ role \in r.nodes
      /\ UNCHANGED <<sourceVars, stamps, snapshots, bundleVars, uploadVars>>
  BY <1>1 DEF Collect
<1>3. Reading(r)
  BY <1>1, <1>2 DEF AllGood, Good
<1>4. PICK a \in Answers(role) :
        cycles' = [cycles EXCEPT ![c] =
           IF backupLeft.strict /\ (a.files # Required(role) \/ "normal" \notin Remote)
           THEN Ended
           ELSE [cycles[c] EXCEPT
                   !.staged = Overwritten(Staged(a.files), @), !.nodes = @ \ {role},
                   !.pc = IF cycles[c].nodes = {role} THEN "archive" ELSE "collect"]]
  BY DEF Collect
<1>5. CASE cycles' = [cycles EXCEPT ![c] = Ended]
  <2>1. Dates' /\ Bundles' /\ Records' /\ Snapshots'
    BY <1>2, BooksRest DEF Dates, sourceVars
  <2> QED BY <1>1, <1>2, <1>5, <2>1, BackingEnds DEF bundleVars, uploadVars
<1>6. CASE cycles' # [cycles EXCEPT ![c] = Ended]
  <2> DEFINE next == IF r.nodes = {role} THEN "archive" ELSE "collect"
  <2>1. /\ next \in {"archive", "collect"}
        /\ cycles' = [cycles EXCEPT ![c] = [r EXCEPT !.staged = Overwritten(Staged(a.files), @),
                                                     !.nodes = @ \ {role}, !.pc = next]]
    <3>1. ~(backupLeft.strict /\ (a.files # Required(role) \/ "normal" \notin Remote))
      BY ONLY <1>4, <1>6
    <3> QED BY ONLY <1>1, <1>4, <3>1 DEF Cycling
  <2> PICK pc \in {"archive", "collect"} : pc = next
    BY <2>1
  <2> PICK fs : fs = Staged(a.files)
    OBVIOUS
  <2> HIDE DEF next
  <2>2. a.files \subseteq Required(role)
    BY DEF Answers, ReadOnNode
  <2>3. role \in Remote
    BY <1>2, <1>3 DEF Reading
  <2>4. /\ Required(role) \subseteq Sources \ Local /\ Sources \subseteq Names
    BY <2>3, SourcesFacts DEF Purse
  <2>5. /\ fs = Staged(a.files)
        /\ DOMAIN fs = a.files /\ fs \in [a.files -> Nat]
        /\ \A f \in a.files : fs[f] = live[f]
    BY <2>1, <2>2, <2>4 DEF Staged, Versions
  <2>6. fs \in Files
    BY <2>2, <2>4, <2>5, FilesFacts
  <2>7. PICK st : st = Overwritten(fs, r.staged)
    OBVIOUS
  <2>8. /\ st \in Files /\ DOMAIN st = DOMAIN fs \cup DOMAIN r.staged
        /\ \A g \in DOMAIN fs \cup DOMAIN r.staged :
             st[g] = IF g \in DOMAIN fs THEN fs[g] ELSE r.staged[g]
    <3>1. PICK old \in Files : old = r.staged
      BY DEF Turns
    <3>2. st = Overwritten(fs, old)
      BY ONLY <2>7, <3>1
    <3>3. /\ Overwritten(fs, old) \in Files /\ DOMAIN Overwritten(fs, old) = DOMAIN fs \cup DOMAIN old
          /\ \A g \in DOMAIN fs \cup DOMAIN old :
               Overwritten(fs, old)[g] = IF g \in DOMAIN fs THEN fs[g] ELSE old[g]
      BY ONLY <2>6, <3>1, FilesJoined, Zenon
    <3> QED BY ONLY <3>1, <3>2, <3>3
  <2>9. PICK n : n = [[[r EXCEPT !.staged = st] EXCEPT !.nodes = @ \ {role}] EXCEPT !.pc = pc]
    OBVIOUS
  <2>10. /\ n \in Turns /\ n.pc = pc /\ n.stamp = r.stamp /\ n.since = r.since
         /\ n.staged = st /\ n.nodes = r.nodes \ {role} /\ n.todo = r.todo
         /\ n.data = r.data /\ n.hash = r.hash
    BY <2>8, <2>9 DEF Turns, Pcs
  <2>11. n = [r EXCEPT !.staged = Overwritten(fs, @), !.nodes = @ \ {role}, !.pc = pc]
    BY <2>7, <2>9 DEF Turns
  <2>12. cycles' = [cycles EXCEPT ![c] = n]
    BY <2>1, <2>11
  <2>13. \A f \in DOMAIN st : st[f] >= r.since[f]
    BY <2>2, <2>4, <2>5, <2>8, <1>3 DEF Reading
  <2>14. DOMAIN st \subseteq Sources \ Local
    BY <2>2, <2>4, <2>5, <2>8, <1>3 DEF Reading
  <2>15. Reading(n)
    BY <1>3, <2>10, <2>13, <2>14 DEF Reading
  <2> QED BY <1>1, <1>2, <2>10, <2>12, <2>15, BackingReads
<1> QED BY <1>5, <1>6

\* A file is added to the archive.
LEMMA BackingAdds ==
  ASSUME Backing, Purse', SettingsStay, NEW c \in Cyclers, NEW f \in Local, AddSource(c, f)
  PROVE  Backing'
<1> USE DEF Backing
<1>1. PICK r \in Turns : r = cycles[c]
  BY DEF Cycling
<1>2. /\ r.pc = "archive" /\ f \in r.todo
      /\ UNCHANGED <<sourceVars, stamps, snapshots, bundleVars, uploadVars>>
  BY <1>1 DEF AddSource
<1>3. Reading(r)
  BY <1>1, <1>2 DEF AllGood, Good
<1>4. f \in Sources /\ f \in Names
  BY SourcesFacts DEF Purse
<1>5. PICK v \in Nat : v = live[f]
  BY <1>4 DEF Versions
<1>6. CASE cycles' = [cycles EXCEPT ![c].todo = @ \ {f},
                                    ![c].data = Overwritten(OneFile(f, live[f]), @),
                                    ![c].hash = Overwritten(OneFile(f, live[f]), @)]
  <2>1. PICK data : data = Overwritten(OneFile(f, v), r.data)
    OBVIOUS
  <2>2. /\ data \in Files /\ DOMAIN data = DOMAIN r.data \cup {f}
        /\ \A g \in DOMAIN r.data \cup {f} : data[g] = IF g = f THEN v ELSE r.data[g]
    <3>1. PICK old \in Files : old = r.data
      BY DEF Turns
    <3>2. data = Overwritten(OneFile(f, v), old)
      BY ONLY <2>1, <3>1
    <3>3. /\ Overwritten(OneFile(f, v), old) \in Files
          /\ DOMAIN Overwritten(OneFile(f, v), old) = DOMAIN old \cup {f}
          /\ \A g \in DOMAIN old \cup {f} :
               Overwritten(OneFile(f, v), old)[g] = IF g = f THEN v ELSE old[g]
      <4>1. f \in Names /\ v \in Nat /\ old \in Files
        BY ONLY <1>4, <1>5, <3>1
      <4> QED BY ONLY <4>1, FileAdded, Zenon
    <3> QED BY ONLY <3>1, <3>2, <3>3
  <2>3. PICK n : n = [[[r EXCEPT !.todo = @ \ {f}] EXCEPT !.data = data] EXCEPT !.hash = data]
    OBVIOUS
  <2>4. /\ n \in Turns /\ n.pc = r.pc /\ n.stamp = r.stamp /\ n.since = r.since
        /\ n.staged = r.staged /\ n.nodes = r.nodes /\ n.todo = r.todo \ {f}
        /\ n.data = data /\ n.hash = data
    BY <2>2, <2>3 DEF Turns
  <2>5. r.hash = r.data
    BY <1>3 DEF Reading
  <2>6. n = [r EXCEPT !.todo = @ \ {f}, !.data = Overwritten(OneFile(f, v), @),
                      !.hash = Overwritten(OneFile(f, v), @)]
    BY <2>1, <2>3, <2>5 DEF Turns
  <2>7. cycles' = [cycles EXCEPT ![c] = n]
    BY <1>1, <1>5, <1>6, <2>6 DEF Cycling
  <2>8. \A g \in DOMAIN data : data[g] >= r.since[g]
    BY <1>3, <1>4, <1>5, <2>2 DEF Reading
  <2>9. Reading(n)
    BY <1>2, <1>3, <2>2, <2>4, <2>8 DEF Reading
  <2> QED BY <1>1, <1>2, <2>4, <2>7, <2>9, BackingReads
<1>7. CASE cycles' = [cycles EXCEPT ![c].todo = @ \ {f}]
  <2>1. PICK n : n = [r EXCEPT !.todo = @ \ {f}]
    OBVIOUS
  <2>2. /\ n \in Turns /\ n.pc = r.pc /\ n.stamp = r.stamp /\ n.since = r.since
        /\ n.staged = r.staged /\ n.nodes = r.nodes /\ n.todo = r.todo \ {f}
        /\ n.data = r.data /\ n.hash = r.hash
    BY <2>1 DEF Turns
  <2>3. cycles' = [cycles EXCEPT ![c] = n]
    BY <1>1, <1>7, <2>1 DEF Cycling
  <2>4. Reading(n)
    BY <1>2, <1>3, <2>2 DEF Reading
  <2> QED BY <1>1, <1>2, <2>2, <2>3, <2>4, BackingReads
<1> QED BY <1>6, <1>7 DEF AddSource, Hashed

\* A restricted function.
LEMMA RestrictFacts ==
  ASSUME NEW fs, NEW S
  PROVE  /\ DOMAIN Restrict(fs, S) = S
         /\ \A f \in S : Restrict(fs, S)[f] = fs[f]
  BY DEF Restrict

\* The bundle of a cycle.
LEMMA PlacedWhole ==
  ASSUME Purse, NEW r \in Turns, Reading(r), NEW mine, NEW lost, NEW b,
         mine = Overwritten(OneFile(Database, r.since[Database]), r.staged),
         b.since = r.since,
         b.data = Overwritten(Restrict(mine, DOMAIN mine \ lost), r.data),
         b.hash = Overwritten(Restrict(mine, DOMAIN mine \ lost), r.hash),
         b.says = Manifest(DOMAIN Restrict(mine, DOMAIN mine \ lost) \cup DOMAIN r.data)
  PROVE  Whole(b)
<1>1. PICK added : added = Restrict(mine, DOMAIN mine \ lost)
  OBVIOUS
<1>2. /\ DOMAIN mine = DOMAIN r.staged \cup {Database}
      /\ \A f \in DOMAIN mine :
           mine[f] = IF f = Database THEN r.since[Database] ELSE r.staged[f]
  <2>1. PICK v, old : v = r.since[Database] /\ old = r.staged
    OBVIOUS
  <2>2. mine = Overwritten(OneFile(Database, v), old)
    BY <2>1
  <2>3. /\ DOMAIN Overwritten(OneFile(Database, v), old) = DOMAIN old \cup {Database}
        /\ \A p \in DOMAIN old \cup {Database} :
             Overwritten(OneFile(Database, v), old)[p] = IF p = Database THEN v ELSE old[p]
    BY ONLY OverFacts, Zenon
  <2> QED BY ONLY <2>1, <2>2, <2>3
<1>3. /\ DOMAIN added = DOMAIN mine \ lost
      /\ \A f \in DOMAIN added : added[f] = mine[f]
  BY ONLY <1>1, RestrictFacts
<1>4. PICK data : data = b.data /\ data = Overwritten(added, r.data)
  BY <1>1
<1>5. /\ DOMAIN data = DOMAIN added \cup DOMAIN r.data
      /\ \A f \in DOMAIN data : data[f] = IF f \in DOMAIN added THEN added[f] ELSE r.data[f]
  <2>1. PICK old : old = r.data
    OBVIOUS
  <2>2. data = Overwritten(added, old)
    BY ONLY <1>4, <2>1
  <2>3. /\ DOMAIN Overwritten(added, old) = DOMAIN added \cup DOMAIN old
        /\ \A f \in DOMAIN added \cup DOMAIN old :
             Overwritten(added, old)[f] = IF f \in DOMAIN added THEN added[f] ELSE old[f]
    BY DEF Overwritten
  <2> QED BY ONLY <1>4, <2>1, <2>2, <2>3
<1>6. /\ Sources \subseteq Names /\ Database \in Sources \ Local /\ Local \subseteq Sources
      /\ \A role \in Roles : Required(role) \subseteq Sources
  BY SourcesFacts DEF Purse
<1>7. \A f \in Sources : r.since[f] \in Nat
  BY FilesFacts DEF Reading, Turns
<1>8. /\ DOMAIN r.staged \subseteq Sources /\ \A f \in DOMAIN r.staged : r.staged[f] >= r.since[f]
      /\ DOMAIN r.data \subseteq Sources /\ \A f \in DOMAIN r.data : r.data[f] >= r.since[f]
      /\ r.hash = r.data
  BY <1>6 DEF Reading
<1>9. DOMAIN mine \subseteq Sources /\ \A f \in DOMAIN mine : mine[f] >= r.since[f]
  BY <1>2, <1>6, <1>7, <1>8
<1>10. DOMAIN data \subseteq Sources /\ \A f \in DOMAIN data : data[f] >= r.since[f]
  BY <1>3, <1>5, <1>8, <1>9
<1>11. b.hash = data
  BY <1>1, <1>4, <1>8
<1>12. b.says = Manifest(DOMAIN data)
  BY <1>1, <1>5
<1>13. ASSUME b.says.ready
       PROVE  /\ Database \in DOMAIN data
              /\ \A role \in b.says.roles : Required(role) \subseteq DOMAIN data
              /\ Remote \subseteq b.says.roles
  <2>1. /\ Manifest(DOMAIN data).roles = {role \in Roles : Configured(role, DOMAIN data)}
        /\ Manifest(DOMAIN data).ready =>
             /\ Database \in DOMAIN data
             /\ \A role \in Roles : Configured(role, DOMAIN data) =>
                                     NodeReady(role, DOMAIN data)
    BY DEF Manifest
  <2>2. \A role \in Remote : role \in Roles /\ Configured(role, DOMAIN data)
    BY DEF Configured, Purse
  <2> QED BY <1>12, <1>13, <2>1, <2>2 DEF NodeReady
<1>14. b.data = b.hash /\ DOMAIN b.data \subseteq Sources
  BY ONLY <1>4, <1>10, <1>11
<1>15. \A f \in DOMAIN b.data : b.data[f] >= b.since[f]
  <2>1. PICK since : since = r.since
    OBVIOUS
  <2>2. b.since = since /\ \A f \in DOMAIN data : data[f] >= since[f]
    BY <1>10, <2>1
  <2> QED BY ONLY <1>4, <2>2
<1>16. b.says.ready => /\ Database \in DOMAIN b.data
                       /\ \A role \in b.says.roles : Required(role) \subseteq DOMAIN b.data
                       /\ Remote \subseteq b.says.roles
  BY ONLY <1>4, <1>13
<1> QED BY ONLY <1>14, <1>15, <1>16 DEF Whole

\* The bundle is placed under its name.
LEMMA BackingPlaces ==
  ASSUME Backing, Purse', SettingsStay, NEW c \in Cyclers, Place(c)
  PROVE  Backing'
<1> USE DEF Backing
<1>1. PICK r \in Turns : r = cycles[c]
  BY DEF Cycling
<1>2. /\ r.pc = "archive" /\ Goes(c, "prune") /\ placed' = TRUE
      /\ UNCHANGED <<sourceVars, stamps, snapshots, statusVars, uploadVars>>
  BY <1>1 DEF Place
<1>3. Reading(r) /\ Snapped(r) /\ Bundled(r)
  BY <1>1, <1>2 DEF AllGood, Good
<1> DEFINE db == (CHOOSE s \in snapshots : s.stamp = cycles[c].stamp).db
           all == Overwritten(OneFile(Database, db), cycles[c].staged)
           one(lost) == [stamp |-> cycles[c].stamp, made |-> day, since |-> cycles[c].since,
                data |-> Overwritten(Restrict(all, DOMAIN all \ lost), cycles[c].data),
                hash |-> Overwritten(Restrict(all, DOMAIN all \ lost), cycles[c].hash),
                says |-> Manifest(DOMAIN Restrict(all, DOMAIN all \ lost) \cup DOMAIN cycles[c].data)]
<1>3a. PICK lost : bundles' = bundles \cup {one(lost)}
  BY DEF Place
<1>3b. PICK mine : mine = all
  OBVIOUS
<1>3c. PICK b : b = [stamp |-> r.stamp, made |-> day, since |-> r.since,
                data |-> Overwritten(Restrict(mine, DOMAIN mine \ lost), r.data),
                hash |-> Overwritten(Restrict(mine, DOMAIN mine \ lost), r.hash),
                says |-> Manifest(DOMAIN Restrict(mine, DOMAIN mine \ lost) \cup DOMAIN r.data)]
  OBVIOUS
<1>4. /\ mine = Overwritten(OneFile(Database, (CHOOSE s \in snapshots : s.stamp = r.stamp).db), r.staged)
      /\ bundles' = bundles \cup {b}
  BY ONLY <1>1, <1>3a, <1>3b, <1>3c
<1> HIDE DEF db, all, one
<1>5. (CHOOSE s \in snapshots : s.stamp = r.stamp).db = r.since[Database]
  BY <1>3 DEF Snapped
<1>6. Whole(b)
  BY <1>3, <1>3c, <1>4, <1>5, PlacedWhole
<1>7. b.stamp = r.stamp /\ b.made = day
  BY <1>3c
<1>8. Dated(b)
  BY <1>3, <1>7 DEF Dated, Reading, Dates
<1>9. \A d \in bundles : d.stamp # b.stamp
  BY <1>2, <1>3, <1>7 DEF Bundled
<1>10. Dates' /\ Snapshots'
  BY <1>2 DEF Dates, Snapshots, sourceVars, statusVars
<1>11. Bundles'
  <2>1. \A d \in bundles' : Dated(d)'
    <3>1. \A d \in bundles' : Dated(d)
      BY <1>4, <1>8 DEF Bundles
    <3>2. stamps' = stamps /\ day' = day /\ stamps \in Nat /\ day \in Nat
      BY <1>2 DEF Dates, sourceVars
    <3> QED BY <3>1, <3>2 DEF Dated
  <2>2. \A d \in bundles' \cup bucket' : Whole(d)'
    BY <1>2, <1>4, <1>6, WholeStays DEF Bundles, uploadVars
  <2>3. \A d, e \in bundles' : d.stamp = e.stamp => d = e
    BY <1>4, <1>9 DEF Bundles
  <2> QED BY <2>1, <2>2, <2>3 DEF Bundles
<1>12. Records'
  <2>1. status' = status /\ draft' = draft /\ \A x : Spoken(x) => Spoken(x)'
    BY <1>2, <1>4 DEF Spoken, Valid, statusVars
  <2>2. bundles' # {}
    BY <1>4
  <2> QED BY <1>2, <2>1, <2>2 DEF Records, uploadVars, SettingsStay
<1>13. cycles'[c].pc = "prune" /\ cycles'[c].stamp = r.stamp
  BY <1>1, <1>2, TurnGoes DEF Pcs, SameBut
<1>14. Bundled(cycles[c])'
  BY <1>2, <1>4, <1>7, <1>13 DEF Bundled, sourceVars
<1>15. bundles \subseteq bundles' /\ \A d \in bundles' : d \notin bundles => d.stamp = cycles[c].stamp
  BY <1>1, <1>4, <1>7
<1>16. bucket' = bucket /\ snapshots' = snapshots
  BY <1>2 DEF uploadVars
<1> QED BY <1>1, <1>2, <1>10, <1>11, <1>12, <1>14, <1>15, <1>16, BackingGoes DEF Pcs

\* Old bundles are removed.
LEMMA BackingPrunesBundles ==
  ASSUME Backing, Purse', SettingsStay, NEW c \in Cyclers, PruneBundles(c)
  PROVE  Backing'
<1>1. /\ cycles[c].pc = "prune" /\ Goes(c, "verify")
      /\ bundles' = {b \in bundles : ~Expired(b)}
      /\ UNCHANGED <<sourceVars, stamps, snapshots, placed, statusVars, uploadVars>>
  BY DEF PruneBundles
<1>2. PICK own \in bundles : own.stamp = cycles[c].stamp /\ own.made = day
  BY <1>1 DEF Backing, AllGood, Good, Bundled
<1>3. \A b \in bundles : b.made = day => b \in bundles'
  BY <1>1, TodayStays DEF Backing
<1>4. own \in bundles'
  BY <1>2, <1>3
<1>5. Dates' /\ Snapshots'
  BY <1>1 DEF Backing, Dates, Snapshots, sourceVars, statusVars
<1>6. Bundles'
  <2>1. \A b \in bundles' : Dated(b)'
    BY <1>1 DEF Backing, Bundles, Dated, sourceVars
  <2>2. \A b \in bundles' \cup bucket' : Whole(b)'
    BY <1>1, WholeStays DEF Backing, Bundles, uploadVars
  <2> QED BY <1>1, <2>1, <2>2 DEF Backing, Bundles
<1>7. Records'
  <2>1. ASSUME NEW b \in bundles, b \notin bundles'
        PROVE  own.made > b.made
    <3>1. Expired(b)
      BY <1>1, <2>1
    <3>2. PICK today \in Nat, then \in Nat : today = day /\ then = b.made
      BY DEF Backing, Dates, Bundles, Dated
    <3>3. today - then > KeepDays
      BY <3>1, <3>2 DEF Expired
    <3> QED BY <1>2, <3>2, <3>3, BackupAssumption
  <2>2. ASSUME NEW x, x.made \in Nat, Spoken(x)
        PROVE  Spoken(x)'
    <3>1. ASSUME NEW b \in bundles, b.made > x.made
          PROVE  Spoken(x)'
      <4>1. CASE b \in bundles'
        BY <3>1, <4>1 DEF Spoken
      <4>2. CASE b \notin bundles'
        <5>1. PICK m \in Nat, n \in Nat, o \in Nat :
                m = x.made /\ n = b.made /\ o = own.made
          BY <1>2, <2>2 DEF Backing, Dates, Bundles, Dated
        <5>2. o > n /\ n > m
          BY <2>1, <3>1, <4>2, <5>1
        <5> QED BY <1>4, <5>1, <5>2 DEF Spoken
      <4> QED BY <4>1, <4>2
    <3>2. ASSUME NEW b \in bundles, b.stamp = x.stamp, b.made = x.made, Valid(b),
                 b.says.ready = x.ready
          PROVE  Spoken(x)'
      <4>1. CASE b \in bundles'
        BY <3>2, <4>1 DEF Spoken, Valid
      <4>2. CASE b \notin bundles'
        BY <1>4, <2>1, <3>2, <4>2 DEF Spoken
      <4> QED BY <4>1, <4>2
    <3> QED BY <2>2, <3>1, <3>2 DEF Spoken
  <2>3. status' = status /\ draft' = draft /\ status.made \in Nat /\ draft.made \in Nat
    BY <1>1 DEF statusVars, Backing, Dates
  <2> QED BY <1>1, <1>4, <2>2, <2>3 DEF Backing, Records, uploadVars, SettingsStay
<1>8. cycles'[c].pc = "verify" /\ cycles'[c].stamp = cycles[c].stamp
  BY <1>1, TurnGoes DEF Backing, Pcs, SameBut
<1>9. Bundled(cycles[c])'
  BY <1>1, <1>2, <1>4, <1>8 DEF Bundled, sourceVars
<1>10. bucket' = bucket /\ bundles' \subseteq bundles
  BY <1>1 DEF uploadVars
<1> QED BY <1>1, <1>3, <1>5, <1>6, <1>7, <1>9, <1>10, BackingGoes DEF Pcs

\* The bundle of a cycle that has one.
LEMMA BundleFound ==
  ASSUME Backing, NEW c \in Cyclers, cycles[c].pc \in {"verify", "publish", "clear"}
  PROVE  /\ BundleOf(c) \in bundles /\ BundleOf(c).stamp = cycles[c].stamp
         /\ BundleOf(c).made \in Nat
         /\ \A x \in bundles : x.stamp = cycles[c].stamp => x = BundleOf(c)
<1>1. \E x \in bundles : x.stamp = cycles[c].stamp
  BY DEF Backing, AllGood, Good, Bundled
<1>2. BundleOf(c) \in bundles /\ BundleOf(c).stamp = cycles[c].stamp
  BY <1>1 DEF BundleOf
<1> QED BY <1>2 DEF Backing, Bundles, Dated

\* A step of the status file: the bundles are as they were.
LEMMA BackingStatus ==
  ASSUME Backing, Purse', SettingsStay, status'.made \in Nat, draft'.made \in Nat,
         status'.stamp # 0 => Spoken(status'), draft'.stamp # 0 => Spoken(draft'),
         UNCHANGED <<sourceVars, stamps, snapshots, bundles, placed, uploadVars>>
  PROVE  Dates' /\ Bundles' /\ Records' /\ Snapshots'
<1>1. Dates' /\ Snapshots'
  BY DEF Backing, Dates, Snapshots, sourceVars
<1>2. Bundles'
  <2>1. \A x \in bundles' : Dated(x)'
    BY DEF Backing, Bundles, Dated, sourceVars
  <2>2. \A x \in bundles' \cup bucket' : Whole(x)'
    BY WholeStays DEF Backing, Bundles, uploadVars
  <2> QED BY <2>1, <2>2 DEF Backing, Bundles
<1>3. Records'
  <2>1. (status'.stamp # 0 => Spoken(status)') /\ (draft'.stamp # 0 => Spoken(draft)')
    BY DEF Spoken, Valid
  <2> QED BY <2>1 DEF Backing, Records, uploadVars, SettingsStay
<1> QED BY <1>1, <1>2, <1>3

\* The bundle is found valid, and the status drafted.
LEMMA BackingDrafts ==
  ASSUME Backing, Purse', SettingsStay, NEW c \in Cyclers, DraftStatus(c)
  PROVE  Backing'
<1>1. PICK b : b = BundleOf(c)
  OBVIOUS
<1>2. /\ cycles[c].pc = "verify" /\ Valid(b)
      /\ draft' = [stamp |-> b.stamp, ready |-> b.says.ready, made |-> b.made]
      /\ Goes(c, "publish") /\ status' = status
      /\ UNCHANGED <<sourceVars, stamps, snapshots, bundles, placed, uploadVars>>
  BY <1>1 DEF DraftStatus
<1>3. b \in bundles /\ b.made \in Nat
  BY <1>1, <1>2, BundleFound
<1>4. draft'.made \in Nat /\ Spoken(draft')
  BY <1>2, <1>3 DEF Spoken
<1>5. status'.made \in Nat /\ (status'.stamp # 0 => Spoken(status'))
  BY <1>2 DEF Backing, Dates, Records
<1>6. Dates' /\ Bundles' /\ Records' /\ Snapshots'
  BY <1>2, <1>4, <1>5, BackingStatus
<1>7. cycles'[c].pc = "publish" /\ cycles'[c].stamp = cycles[c].stamp
  BY <1>2, TurnGoes DEF Backing, Pcs, SameBut
<1>8. \E x \in bundles : x.stamp = cycles[c].stamp /\ x.made = day
  BY <1>2 DEF Backing, AllGood, Good, Bundled
<1>9. Bundled(cycles[c])'
  BY <1>2, <1>7, <1>8 DEF Bundled, sourceVars
<1> QED BY <1>2, <1>6, <1>9, BackingGoes DEF Pcs, uploadVars

\* It is published, or the other cycle has taken it.
LEMMA BackingPublishes ==
  ASSUME Backing, Purse', SettingsStay, NEW c \in Cyclers, PublishStatus(c)
  PROVE  Backing'
<1>1. /\ cycles[c].pc = "publish"
      /\ \/ draft # NoStatus /\ status' = draft /\ draft' = NoStatus /\ Goes(c, "clear")
         \/ UNCHANGED statusVars /\ cycles' = [cycles EXCEPT ![c] = Ended]
      /\ UNCHANGED <<sourceVars, stamps, snapshots, bundles, placed, uploadVars>>
  BY DEF PublishStatus
<1>2. /\ status.made \in Nat /\ draft.made \in Nat
      /\ status.stamp # 0 => Spoken(status)
      /\ draft.stamp # 0 => Spoken(draft)
  BY DEF Backing, Dates, Records
<1>3. NoStatus.made \in Nat /\ NoStatus.stamp = 0
  BY DEF NoStatus
<1>4. Dates' /\ Bundles' /\ Records' /\ Snapshots'
  BY <1>1, <1>2, <1>3, BackingStatus DEF statusVars
<1>5. CASE Goes(c, "clear")
  <2>1. cycles'[c].pc = "clear" /\ cycles'[c].stamp = cycles[c].stamp
    BY <1>5, TurnGoes DEF Backing, Pcs, SameBut
  <2>2. \E x \in bundles : x.stamp = cycles[c].stamp /\ x.made = day
    BY <1>1 DEF Backing, AllGood, Good, Bundled
  <2>3. Bundled(cycles[c])'
    BY <1>1, <2>1, <2>2 DEF Bundled, sourceVars
  <2> QED BY <1>1, <1>4, <1>5, <2>3, BackingGoes DEF Pcs, uploadVars
<1>6. CASE cycles' = [cycles EXCEPT ![c] = Ended]
  BY <1>1, <1>4, <1>6, BackingEnds DEF uploadVars
<1> QED BY <1>1, <1>5, <1>6

\* What is left of the draft is removed, and the readiness may be required.
LEMMA BackingClears ==
  ASSUME Backing, Purse', SettingsStay, NEW c \in Cyclers, ClearDraft(c)
  PROVE  Backing'
<1>1. PICK b : b = BundleOf(c)
  OBVIOUS
<1>2. /\ cycles[c].pc = "clear" /\ draft' = NoStatus /\ status' = status
      /\ IF backupLeft.gated /\ ~b.says.ready
         THEN cycles' = [cycles EXCEPT ![c] = Ended]
         ELSE Goes(c, "upload")
      /\ UNCHANGED <<sourceVars, stamps, snapshots, bundles, placed, uploadVars>>
  BY <1>1 DEF ClearDraft
<1>3. \A x \in bundles : x.stamp = cycles[c].stamp => x = b
  BY <1>1, <1>2, BundleFound
<1>4. draft'.made \in Nat /\ draft'.stamp = 0
  BY <1>2 DEF NoStatus
<1>5. status'.made \in Nat /\ (status'.stamp # 0 => Spoken(status'))
  BY <1>2 DEF Backing, Dates, Records
<1>6. Dates' /\ Bundles' /\ Records' /\ Snapshots'
  BY <1>2, <1>4, <1>5, BackingStatus
<1>7. bucket' = bucket
  BY <1>2 DEF uploadVars
<1>8. CASE backupLeft.gated /\ ~b.says.ready
  BY <1>2, <1>6, <1>7, <1>8, BackingEnds
<1>9. CASE ~(backupLeft.gated /\ ~b.says.ready)
  <2>1. Goes(c, "upload")
    BY <1>2, <1>9
  <2>2. cycles'[c].pc = "upload" /\ cycles'[c].stamp = cycles[c].stamp
    BY <2>1, TurnGoes DEF Backing, Pcs, SameBut
  <2>3. \E x \in bundles : x.stamp = cycles[c].stamp /\ x.made = day
    BY <1>2 DEF Backing, AllGood, Good, Bundled
  <2>4. Bundled(cycles[c])'
    BY <1>2, <1>3, <1>9, <2>2, <2>3 DEF Bundled, sourceVars, SettingsStay
  <2> QED BY <1>2, <1>6, <1>7, <2>1, <2>4, BackingGoes DEF Pcs
<1> QED BY <1>8, <1>9

\* The bundle is uploaded.
LEMMA BackingUploads ==
  ASSUME Backing, Purse', SettingsStay, NEW c \in Cyclers, Upload(c)
  PROVE  Backing'
<1>1. /\ cycles[c].pc = "upload" /\ Goes(c, "record")
      /\ bucket' = bucket \cup {b \in bundles : b.stamp = cycles[c].stamp}
      /\ UNCHANGED <<sourceVars, stamps, snapshots, bundleVars, uploaded>>
  BY DEF Upload
<1>2. Bundled(cycles[c])
  BY <1>1 DEF Backing, AllGood, Good
<1>3. Dates' /\ Snapshots'
  BY <1>1 DEF Backing, Dates, Snapshots, sourceVars, bundleVars, statusVars
<1>4. Bundles'
  <2>1. \A b \in bundles' : Dated(b)'
    BY <1>1 DEF Backing, Bundles, Dated, sourceVars, bundleVars
  <2>2. \A b \in bundles' \cup bucket' : Whole(b)'
    BY <1>1, WholeStays DEF Backing, Bundles, bundleVars
  <2> QED BY <1>1, <2>1, <2>2 DEF Backing, Bundles, bundleVars
<1>5. Records'
  <2>1. status' = status /\ draft' = draft /\ \A x : Spoken(x) => Spoken(x)'
    BY <1>1 DEF Spoken, bundleVars, statusVars, Valid
  <2>2. backupLeft.gated => \A b \in bucket' : b.says.ready
    BY <1>1, <1>2 DEF Bundled, Backing, Records
  <2> QED BY <1>1, <2>1, <2>2 DEF Backing, Records, bundleVars, SettingsStay
<1>6. cycles'[c].pc = "record" /\ cycles'[c].stamp = cycles[c].stamp
  BY <1>1, TurnGoes DEF Backing, Pcs, SameBut
<1>7. bundles' = bundles /\ bucket \subseteq bucket' /\ snapshots' = snapshots
  BY <1>1 DEF bundleVars
<1>8. Bundled(cycles[c])'
  BY <1>1, <1>2, <1>6, <1>7 DEF Bundled, sourceVars
<1> QED BY <1>1, <1>3, <1>4, <1>5, <1>7, <1>8, BackingGoes DEF Pcs

\* The upload is recorded, which ends the cycle.
LEMMA BackingRecords ==
  ASSUME Backing, Purse', SettingsStay, NEW c \in Cyclers, RecordUpload(c)
  PROVE  Backing'
<1>1. /\ cycles[c].pc = "record" /\ cycles' = [cycles EXCEPT ![c] = Ended]
      /\ uploaded' = cycles[c].stamp
      /\ UNCHANGED <<sourceVars, stamps, snapshots, bundleVars, bucket>>
  BY DEF RecordUpload
<1>2. \E b \in bucket : b.stamp = cycles[c].stamp
  BY <1>1 DEF Backing, AllGood, Good, Bundled
<1>3. Dates' /\ Snapshots'
  BY <1>1 DEF Backing, Dates, Snapshots, sourceVars, bundleVars, statusVars
<1>4. Bundles'
  <2>1. \A b \in bundles' : Dated(b)'
    BY <1>1 DEF Backing, Bundles, Dated, sourceVars, bundleVars
  <2>2. \A b \in bundles' \cup bucket' : Whole(b)'
    BY <1>1, WholeStays DEF Backing, Bundles, bundleVars
  <2> QED BY <1>1, <2>1, <2>2 DEF Backing, Bundles, bundleVars
<1>5. Records'
  BY <1>1, <1>2 DEF Backing, Records, bundleVars, statusVars, SettingsStay, Spoken, Valid
<1>6. bundles' = bundles
  BY <1>1 DEF bundleVars
<1> QED BY <1>1, <1>3, <1>4, <1>5, <1>6, BackingEnds

\* A cycle stops at a step that fails.
LEMMA BackingStops ==
  ASSUME Backing, Purse', SettingsStay, NEW c \in Cyclers, CycleStops(c)
  PROVE  Backing'
<1>1. /\ cycles[c].pc # "off" /\ cycles' = [cycles EXCEPT ![c] = Ended]
      /\ draft' = draft \/ draft' = NoStatus
      /\ UNCHANGED <<sourceVars, stamps, snapshots, bundles, placed, status, uploadVars>>
  BY DEF CycleStops
<1>2. /\ status.made \in Nat /\ draft.made \in Nat
      /\ status.stamp # 0 => Spoken(status)
      /\ draft.stamp # 0 => Spoken(draft)
      /\ NoStatus.made \in Nat /\ NoStatus.stamp = 0
  BY DEF Backing, Dates, Records, NoStatus
<1>3. Dates' /\ Bundles' /\ Records' /\ Snapshots'
  BY <1>1, <1>2, BackingStatus
<1> QED BY <1>1, <1>3, BackingEnds DEF uploadVars

\* A cycle begins with a snapshot of the database.
LEMMA BackingSnapshots ==
  ASSUME Backing, Purse', SettingsStay, NEW c \in Cyclers, Snapshot(c)
  PROVE  Backing'
<1> USE DEF Backing
<1>1. PICK n : n = [Ended EXCEPT !.pc = "tidy", !.stamp = stamps', !.nodes = Remote,
                                 !.todo = Local, !.since = live]
  OBVIOUS
<1>2. PICK s : s = [stamp |-> stamps', made |-> day, db |-> live[Database]]
  OBVIOUS
<1>3. /\ cycles[c].pc = "off" /\ stamps' = stamps + 1 /\ snapshots' = snapshots \cup {s}
      /\ cycles' = [cycles EXCEPT ![c] = n]
      /\ UNCHANGED <<sourceVars, bundleVars, uploadVars>>
  BY <1>1, <1>2 DEF Snapshot
<1>4. /\ Remote' = Remote /\ Local' = Local /\ Sources' = Sources
  BY RolesStay
<1>5. Sources \subseteq Names /\ Database \in Sources /\ Local \subseteq Sources /\ Remote \subseteq Roles
  BY SourcesFacts DEF Purse
<1>6. live \in Files /\ DOMAIN live = Sources /\ \A f \in Sources : live[f] \in Nat
  BY <1>5, FilesFacts DEF Versions
<1>7. /\ n = [pc |-> "tidy", stamp |-> stamps + 1, nodes |-> Remote, staged |-> NoFiles,
              todo |-> Local, data |-> NoFiles, hash |-> NoFiles, since |-> live]
  BY <1>1, <1>3 DEF Ended
<1>8. stamps + 1 \in Nat /\ stamps <= stamps + 1 /\ stamps + 1 \in 1 .. stamps + 1
      /\ stamps + 1 \notin 1 .. stamps /\ day \in Nat
  BY DEF Dates
<1>9. n \in Turns
  BY <1>5, <1>6, <1>7, <1>8, FilesFacts DEF Turns, Pcs
<1>10. Alone(c) /\ cycles'[c] = n
  BY <1>3, <1>9, TurnTaken
<1>11. Versions' /\ \A f \in Sources : live[f] <= live'[f]
  BY <1>3, VersionsRest DEF sourceVars
<1>12. Forward
  BY <1>3, <1>8, <1>11 DEF Forward, sourceVars, bundleVars, uploadVars
<1>13. Dates' /\ Bundles' /\ Records' /\ Snapshots'
  <2>1. \A b \in bundles : Dated(b)'
    BY <1>3, <1>8, DatedStays DEF Bundles, Dates, sourceVars
  <2>2. Bundles'
    BY <1>3, <2>1, WholeStays DEF Bundles, bundleVars, uploadVars
  <2>3. Records'
    BY <1>3 DEF Records, Spoken, SettingsStay, Valid, bundleVars, statusVars, uploadVars
  <2>4. Snapshots'
    BY <1>2, <1>3, <1>8 DEF Snapshots, Dates
  <2> QED BY <1>3, <1>8, <2>2, <2>3, <2>4 DEF Dates, sourceVars, bundleVars, statusVars
<1>14. Reading(n)'
  BY <1>3, <1>4, <1>5, <1>6, <1>7, <1>8, FilesFacts DEF Reading, sourceVars
<1>15. Snapped(n)'
  BY <1>2, <1>3, <1>7, <1>8 DEF Snapped, Snapshots, sourceVars
<1>16. Bundled(n)'
  BY <1>3, <1>7, <1>8 DEF Bundled, Bundles, Dated, bundleVars
<1>17. Good(cycles[c])'
  BY <1>10, <1>14, <1>15, <1>16 DEF Good
<1>18. ASSUME NEW d \in Cyclers \ {c}
       PROVE  /\ Good(cycles[d])'
              /\ cycles'[d].pc # "off" => cycles'[d].stamp # stamps + 1
  <2>1. PICK r \in Turns : r = cycles[d] /\ r = cycles'[d]
    BY <1>10 DEF Alone, Cycling
  <2>2. Good(r)
    BY <2>1 DEF AllGood
  <2>3. r.pc # "off" => r.stamp # stamps + 1
    BY <1>8, <2>2 DEF Good, Reading
  <2>4. s.stamp = stamps + 1 /\ bundles' = bundles
    BY <1>2, <1>3 DEF bundleVars
  <2>5. Good(r)'
    BY <1>3, <1>12, <2>2, <2>3, <2>4, GoodStays DEF Dates
  <2> QED BY <2>1, <2>3, <2>5
<1>19. AllGood'
  BY <1>17, <1>18 DEF AllGood
<1>20. Apart'
  <2>1. \A d \in Cyclers \ {c} :
          /\ cycles'[d].pc # "off" => cycles'[d].stamp # cycles'[c].stamp
          /\ cycles'[d] = cycles[d]
    BY <1>7, <1>10, <1>18 DEF Alone
  <2> QED BY <2>1 DEF Apart
<1> QED BY <1>10, <1>11, <1>13, <1>19, <1>20 DEF Alone

\* Whatever is rewritten, lost, unreadable or stopped while two cycles overlap: a
\* cycle's reads, its snapshot and its bundle agree, and a bundle's contents are
\* no older than its cycle (run_db_backup_cycle.py).
THEOREM BackingHolds == BackupSpec => []Backing
<1>1. BackupInit => Backing
  <2> SUFFICES ASSUME BackupInit PROVE Backing
    OBVIOUS
  <2>1. Purse
    BY BackupAssumption DEF BackupInit, Purse, Remote
  <2>2. Dates /\ Versions /\ Snapshots /\ Bundles
    BY DEF BackupInit, Dates, Versions, Snapshots, Bundles, NoStatus
  <2>3. \A c \in Cyclers : cycles[c] = Ended
    BY DEF BackupInit
  <2>4. Cycling /\ Apart /\ AllGood
    BY <2>3, EndedTurn DEF BackupInit, Cycling, Apart, AllGood, Good
  <2>5. Records
    BY DEF BackupInit, Records, NoStatus
  <2> QED BY <2>1, <2>2, <2>4, <2>5 DEF Backing
<1>2. Backing /\ [BackupNext]_backupVars => Backing'
  <2> SUFFICES ASSUME Backing, [BackupNext]_backupVars PROVE Backing'
    OBVIOUS
  <2>1. Purse' /\ SettingsStay
    BY SettingsKept DEF Backing
  <2>2. CASE UNCHANGED <<sourceVars, stamps, snapshots, cycles, bundleVars, uploadVars>>
    <3>1. Versions' /\ \A f \in Sources : live[f] <= live'[f]
      BY <2>1, <2>2, VersionsRest DEF Backing, sourceVars
    <3> QED BY <2>1, <2>2, <3>1, BackingRests DEF sourceVars
  <2>3. CASE DayPasses
    BY <2>1, <2>3, BackingDay
  <2>4. ASSUME NEW f \in Sources, Rewrite(f) \/ Lose(f)
        PROVE  Backing'
    BY <2>1, <2>4, BackingRewrites
  <2>5. ASSUME NEW c \in Cyclers, BackupStep(c) \/ CycleStops(c)
        PROVE  Backing'
    BY <2>1, <2>5, BackingSnapshots, BackingPrunesSnapshots, BackingCollects, BackingAdds,
       BackingPlaces, BackingPrunesBundles, BackingDrafts, BackingPublishes, BackingClears,
       BackingUploads, BackingRecords, BackingStops DEF BackupStep
  <2>6. ASSUME NEW b \in bundles \cup bucket, NEW role \in Roles, NEW force \in BOOLEAN,
               NEW partial \in BOOLEAN, StartPrepare(b, role, force, partial)
        PROVE  Backing'
    BY <2>2, <2>6 DEF StartPrepare
  <2>7. ASSUME NEW f \in Sources, WriteFile(f)
        PROVE  Backing'
    BY <2>2, <2>7 DEF WriteFile
  <2>8. CASE FinishPrepare \/ PrepareStops
    BY <2>2, <2>8 DEF FinishPrepare, PrepareStops
  <2>9. CASE UNCHANGED backupVars
    BY <2>2, <2>9 DEF backupVars
  <2> QED BY <2>3, <2>4, <2>5, <2>6, <2>7, <2>8, <2>9 DEF BackupNext
<1> QED BY <1>1, <1>2, PTL DEF BackupSpec

\* A bundle that says it is ready restores what it says, and the status file and
\* the upload's record name what is there.
THEOREM BundlesRestore == BackupSpec => []BackupsRestore
<1>1. Backing => BackupsRestore
  <2> SUFFICES ASSUME Backing PROVE BackupsRestore
    OBVIOUS
  <2>1. ReadyBundlesRestore
    BY DEF Backing, Bundles, Whole, ReadyBundlesRestore, Valid
  <2>2. RecordsHold
    BY DEF Backing, Records, Spoken, RecordsHold
  <2> QED BY <2>1, <2>2 DEF BackupsRestore
<1> QED BY <1>1, BackingHolds, PTL

\* A cycle that does not run has nothing.
Resting == Flags /\ \A c \in Cyclers : cycles[c].pc = "off" => cycles[c] = Ended

\* A cycle that takes a turn has something, unless it ends with it.
LEMMA RestingTurns ==
  ASSUME Cycling, Resting, SettingsStay, Flags', NEW c \in Cyclers, NEW n,
         cycles' = [cycles EXCEPT ![c] = n], n = Ended \/ n.pc # "off"
  PROVE  Resting'
  BY DEF Resting, Cycling

\* Every action keeps Resting.
LEMMA RestingKept ==
  ASSUME Backing, Resting, [BackupNext]_backupVars
  PROVE  Resting'
<1>1. SettingsStay
  BY SettingsKept DEF Backing
<1>2. Sources' = Sources
  BY <1>1, RolesStay
<1>3. Cycling
  BY DEF Backing
<1>4. CASE UNCHANGED <<gone, cycles, placed>>
  BY <1>2, <1>4 DEF Resting, Flags
<1>5. CASE DayPasses \/ UNCHANGED backupVars
  BY <1>4, <1>5 DEF DayPasses, backupVars, sourceVars, bundleVars, prepareVars, Resting, Flags
<1>6. ASSUME NEW f \in Sources, Rewrite(f) \/ Lose(f)
      PROVE  Resting'
  BY <1>2, <1>6 DEF Rewrite, Lose, Resting, Flags, bundleVars, prepareVars
<1>7. ASSUME NEW b \in bundles \cup bucket, NEW role \in Roles, NEW force \in BOOLEAN,
             NEW partial \in BOOLEAN, StartPrepare(b, role, force, partial)
      PROVE  Resting'
  BY <1>4, <1>7 DEF StartPrepare, sourceVars, bundleVars, Resting, Flags
<1>8. ASSUME NEW f \in Sources, WriteFile(f)
      PROVE  Resting'
  BY <1>4, <1>8 DEF WriteFile, sourceVars, bundleVars, Resting, Flags
<1>9. CASE FinishPrepare
  BY <1>4, <1>9 DEF FinishPrepare, sourceVars, bundleVars
<1>10. CASE PrepareStops
  BY <1>4, <1>10 DEF PrepareStops, sourceVars, bundleVars
<1>11. ASSUME NEW c \in Cyclers, BackupStep(c) \/ CycleStops(c)
       PROVE  Resting'
  <2>1. PICK r \in Turns : r = cycles[c]
    BY <1>3 DEF Cycling
  <2>2. UNCHANGED gone /\ (placed' = TRUE \/ placed' = placed)
    BY <1>11 DEF BackupStep, CycleStops, Snapshot, PruneSnapshots, Collect, AddSource, Place,
       PruneBundles, DraftStatus, PublishStatus, ClearDraft, Upload, RecordUpload,
       sourceVars, bundleVars, prepareVars
  <2>3. Flags'
    BY <1>2, <2>2 DEF Resting, Flags
  <2>4. ASSUME NEW pc \in Pcs \ {"off"}, Goes(c, pc)
        PROVE  Resting'
    <3>1. PICK n : n = [r EXCEPT !.pc = pc]
      OBVIOUS
    <3>2. n.pc = pc
      BY <3>1 DEF Turns
    <3>3. cycles' = [cycles EXCEPT ![c] = n]
      BY <2>1, <2>4, <3>1 DEF Goes
    <3> QED BY <1>1, <1>3, <2>3, <2>4, <3>2, <3>3, RestingTurns
  <2>5. CASE cycles' = [cycles EXCEPT ![c] = Ended]
    BY <1>1, <1>3, <2>3, <2>5, RestingTurns
  <2>6. CASE Snapshot(c)
    <3>1. PICK n : n = [Ended EXCEPT !.pc = "tidy", !.stamp = stamps', !.nodes = Remote,
                                     !.todo = Local, !.since = live]
      OBVIOUS
    <3>2. n.pc = "tidy"
      BY <3>1 DEF Ended
    <3>3. cycles' = [cycles EXCEPT ![c] = n]
      BY <2>6, <3>1 DEF Snapshot
    <3> QED BY <1>1, <1>3, <2>3, <3>2, <3>3, RestingTurns
  <2>7. ASSUME NEW role \in Roles, Collect(c, role)
        PROVE  Resting'
    <3>1. PICK a \in Answers(role) :
            cycles' = [cycles EXCEPT ![c] =
               IF backupLeft.strict /\ (a.files # Required(role) \/ "normal" \notin Remote)
               THEN Ended
               ELSE [cycles[c] EXCEPT
                       !.staged = Overwritten(Staged(a.files), @), !.nodes = @ \ {role},
                       !.pc = IF cycles[c].nodes = {role} THEN "archive" ELSE "collect"]]
      BY <2>7 DEF Collect
    <3>2. PICK n : n = [cycles[c] EXCEPT
                          !.staged = Overwritten(Staged(a.files), @), !.nodes = @ \ {role},
                          !.pc = IF cycles[c].nodes = {role} THEN "archive" ELSE "collect"]
      OBVIOUS
    <3>3. n.pc # "off"
      BY <2>1, <3>2 DEF Turns
    <3>4. cycles' = [cycles EXCEPT ![c] = Ended] \/ cycles' = [cycles EXCEPT ![c] = n]
      BY ONLY <3>1, <3>2
    <3> QED BY <1>1, <1>3, <2>3, <3>3, <3>4, RestingTurns
  <2>8. ASSUME NEW f \in Local, AddSource(c, f)
        PROVE  Resting'
    <3>1. /\ cycles[c].pc = "archive"
          /\ \/ \E hash \in Hashed(live[f]) :
                  cycles' = [cycles EXCEPT ![c].todo = @ \ {f},
                                           ![c].data = Overwritten(OneFile(f, live[f]), @),
                                           ![c].hash = Overwritten(OneFile(f, hash), @)]
             \/ cycles' = [cycles EXCEPT ![c].todo = @ \ {f}]
      BY <2>8 DEF AddSource
    <3>2. /\ cycles'[c].pc = "archive"
          /\ \A d \in Cyclers \ {c} : cycles'[d] = cycles[d]
      BY <1>3, <2>1, <3>1 DEF Cycling, Turns
    <3> QED BY <2>3, <3>2 DEF Resting
  <2>9. \E pc \in Pcs \ {"off"} :
          PruneSnapshots(c) \/ Place(c) \/ PruneBundles(c) \/ DraftStatus(c) \/ Upload(c)
            => Goes(c, pc)
    BY DEF PruneSnapshots, Place, PruneBundles, DraftStatus, Upload, Pcs
  <2>10. PublishStatus(c) \/ ClearDraft(c)
           => Goes(c, "clear") \/ Goes(c, "upload") \/ cycles' = [cycles EXCEPT ![c] = Ended]
    BY DEF PublishStatus, ClearDraft
  <2>11. RecordUpload(c) \/ CycleStops(c) => cycles' = [cycles EXCEPT ![c] = Ended]
    BY DEF RecordUpload, CycleStops
  <2> QED BY <1>11, <2>4, <2>5, <2>6, <2>7, <2>8, <2>9, <2>10, <2>11 DEF BackupStep, Pcs
<1> QED BY <1>5, <1>6, <1>7, <1>8, <1>9, <1>10, <1>11 DEF BackupNext

\* The types of the backups' state: an idle cycle has nothing, one that runs has
\* its snapshot and, once placed, its bundle.
THEOREM BackupTyped == BackupSpec => []BackupTypeOK
<1>1. BackupInit => Resting
  BY DEF BackupInit, Resting, Flags
<1>2. Backing /\ Resting /\ [BackupNext]_backupVars => Resting'
  BY RestingKept
<1>3. Backing /\ Resting => BackupTypeOK
  <2> SUFFICES ASSUME Backing, Resting PROVE BackupTypeOK
    OBVIOUS
  <2>1. ASSUME NEW c \in Cyclers
        PROVE  LET r == cycles[c] IN
               /\ r.todo \cap DOMAIN r.data = {} /\ DOMAIN r.data = DOMAIN r.hash
               /\ DOMAIN r.staged \subseteq Sources \ Local
               /\ r.pc # "off" => \E s \in snapshots : s.stamp = r.stamp
               /\ r.pc \in {"prune", "verify", "publish", "clear", "upload", "record"} =>
                     \E b \in bundles : b.stamp = r.stamp
    <3>1. PICK r \in Turns : r = cycles[c]
      BY DEF Backing, Cycling
    <3>2. CASE r.pc = "off"
      <4>1. r = Ended
        BY <3>1, <3>2 DEF Resting
      <4>2. r.todo = {} /\ r.data = NoFiles /\ r.hash = NoFiles /\ r.staged = NoFiles
        BY <4>1 DEF Ended
      <4> QED BY <3>1, <3>2, <4>2, FilesFacts
    <3>3. CASE r.pc # "off"
      <4>1. Reading(r) /\ Snapped(r) /\ Bundled(r)
        BY <3>1, <3>3 DEF Backing, AllGood, Good
      <4> QED BY <3>1, <4>1 DEF Reading, Snapped, Bundled
    <3> QED BY <3>2, <3>3
  <2>2. \A b \in bundles : b.stamp \in 1 .. stamps /\ b.made <= day
    BY DEF Backing, Bundles, Dated
  <2>3. day \in Nat /\ gone \subseteq Sources /\ placed \in BOOLEAN
    BY DEF Backing, Dates, Resting, Flags
  <2> QED BY <2>1, <2>2, <2>3 DEF BackupTypeOK
<1> QED BY <1>1, <1>2, <1>3, BackingHolds, PTL DEF BackupSpec

-----------------------------------------------------------------------------
(* The jobs side by side. *)

\* What the jobs do together is what each of them does: in every behaviour of
\* the panel each job behaves as its own specification says, so all that is
\* proved of one job holds beside the others.
THEOREM PanelIsItsJobs == Spec => AiSpec /\ BackupSpec /\ TrafficSpec
<1>1. Init => AiInit /\ BackupInit /\ TrafficInit
  BY DEF Init
<1>2. [Next]_vars => [AiNext]_aiVars /\ [BackupNext]_backupVars /\ [TrafficNext]_trafficVars
  <2> USE DEF vars
  <2>1. CASE AiNext /\ UNCHANGED <<part, backupVars, trafficVars>>
    BY <2>1
  <2>2. CASE BackupNext /\ UNCHANGED <<part, aiVars, trafficVars>>
    BY <2>2
  <2>3. CASE TrafficNext /\ UNCHANGED <<part, aiVars, backupVars>>
    BY <2>3
  <2>4. CASE UNCHANGED vars
    BY <2>4
  <2> QED
    BY <2>1, <2>2, <2>3, <2>4 DEF Next
<1> QED
  BY <1>1, <1>2, PTL DEF Spec, AiSpec, BackupSpec, TrafficSpec

\* The state of each job is what its declarations say it is, and in it the locks
\* and the requests agree on who runs, a cycle's bundle is there, and a count's
\* lines are its port's.
THEOREM PanelTyped == Spec => []PanelTypeOK
BY PanelIsItsJobs, RunsTyped, BackupTyped, TrafficTyped, PTL DEF PanelTypeOK
=============================================================================
