------------------------ MODULE LogCollector_proofs ------------------------
(***************************************************************************)
(* Proofs about LogCollector, for any streams, collectors and limits: the  *)
(* rollups count every event once, and no cursor passes a line that the    *)
(* database never had.                                                     *)
(*                                                                         *)
(* The first half is about values: the files of a stream, the places in    *)
(* them that a cursor may name, and what a rotation and a read make of     *)
(* them.  The second half is the invariant Collecting, action by action.   *)
(***************************************************************************)
EXTENDS LogCollector, SequenceTheorems, FiniteSetTheorems, TLAPS

Bit == BOOLEAN
LogFile == [id : Nat, base : Nat, size : Nat]
Cursor == [id : Nat, off : Nat, n : Nat, after : Nat]
Reading == [st : {"none", "asked", "read", "failed"}, cur : Cursor, got : Cursor, first : Nat]
Collection == [pc : {"idle", "collect", "committed"}, of : [Streams -> Reading]]
Backfill == [pc : {"idle", "read", "cursor"}, s : Streams \cup {NoFill.s}, files : Seq(LogFile),
         i : Nat, off : Nat, cut : Nat]

\* What the state is made of.
LogShapes ==
  /\ text \in [Streams -> Seq(Nat)]
  /\ logs \in [Streams -> Seq(LogFile)]
  /\ cursor \in [Streams -> Cursor]
  /\ stored \in [Streams -> SUBSET Nat]
  /\ counted \in [Streams -> Nat]
  /\ pruned \in [Streams -> SUBSET Nat]
  /\ proc \in [Collectors -> Collection]
  /\ fill \in Backfill
  /\ beyond \in [Streams -> Bit] /\ moved \in [Streams -> Bit]

\* The events of the lines ts from one line to another, and the time of the last.
KeysIn(ts, first, last) == {ts[n] : n \in first + 1 .. last}
LastOf(ts) == IF ts = <<>> THEN 0 ELSE ts[Len(ts)]

\* The lines of a stream have the numbers of the lines they repeat, in order.
Lines(ts) ==
  /\ \A n \in 1..Len(ts) : ts[n] \in 1..n
  /\ \A m, n \in 1..Len(ts) : m <= n => ts[m] <= ts[n]

\* The fields of the i-th of some files, and the line at an offset of it.
Id(fs, i) == fs[i].id
Base(fs, i) == fs[i].base
Size(fs, i) == fs[i].size
LineAt(fs, i, off) == fs[i].base + off \div 2

\* A file of z half lines from line b on ends at line e; half a line may follow.
Closes(z, b, e) == z > 1 /\ 2 * (e - b) <= z /\ z <= 2 * (e - b) + 1

\* A stream's files follow one another and hold all its lines; only the open
\* one may be empty.
Chain(fs, lines) ==
  /\ Len(fs) >= 1
  /\ \A i \in 1..Len(fs) : Id(fs, i) \in 1 .. Base(fs, Len(fs)) + 10
  /\ \A i, j \in 1..Len(fs) : Id(fs, i) = Id(fs, j) => i = j
  /\ \A i \in 1..Len(fs) - 1 : Closes(Size(fs, i), Base(fs, i), Base(fs, i + 1))
  /\ \A i, j \in 1..Len(fs) : i < j => 2 * Base(fs, i) + Size(fs, i) <= 2 * Base(fs, j) + 1
  /\ 2 * lines <= 2 * Base(fs, Len(fs)) + Size(fs, Len(fs))
  /\ 2 * Base(fs, Len(fs)) + Size(fs, Len(fs)) <= 2 * lines + 1

\* A place that a cursor may name, with n lines before it: a file of its
\* identity, and the newest one that is long enough, never lead before the line.
Points(fs, id, off, n) ==
  /\ id \in 1 .. Base(fs, Len(fs)) + 10
  /\ \A i \in 1..Len(fs) : Id(fs, i) = id => LineAt(fs, i, off) >= n
  /\ n > Base(fs, Len(fs)) => Id(fs, Len(fs)) = id /\ off <= Size(fs, Len(fs))
  /\ \A i \in 1..Len(fs) : off <= Size(fs, i) =>
        \E j \in i..Len(fs) : off <= Size(fs, j) /\ LineAt(fs, j, off) >= n

\* A cursor names such a place, or none yet; and its n lines are written.
Aims(ts, fs, cur) ==
  /\ cur.n <= Len(ts)
  /\ cur.id = 0 => cur.n = 0
  /\ cur.id # 0 => Points(fs, cur.id, cur.off, cur.n)

\* None of the lines after the n-th is among the events pr.
Ahead(ts, pr, n) == KeysIn(ts, n, Len(ts)) \cap pr = {}

\* A stream of the lines ts in the files fs may become one of us in gs.
Later(ts, fs, us, gs) ==
  /\ Lines(us) /\ Chain(gs, Len(us))
  /\ Len(ts) <= Len(us) /\ \A n \in 1..Len(ts) : us[n] = ts[n]
  /\ Base(gs, Len(gs)) >= Base(fs, Len(fs))
  /\ \A j \in 1..Len(gs) :
        \/ Base(gs, j) >= Base(fs, Len(fs))
        \/ \E i \in 1..Len(fs) : Base(gs, j) = Base(fs, i) /\ Size(gs, j) = Size(fs, i)
  /\ \A id, off, n \in Nat : n <= Len(ts) /\ Points(fs, id, off, n) => Points(gs, id, off, n)

\* The events were counted once; or more often, when over.
Tallied(count, seen, over) == count >= seen /\ (count = seen \/ over)

\* One stream: what its text and its files are, what the database has of it, and
\* the number of events it has counted.
StreamGood(ts, fs, cur, st, pr, count, over) ==
  /\ Lines(ts) /\ Chain(fs, Len(ts))
  /\ st \cup pr \subseteq 1..Len(ts)
  /\ \A k \in pr : k <= LastOf(ts) - RawSpan
  /\ Tallied(count, Cardinality(st \cup pr), over)
  /\ Aims(ts, fs, cur) /\ Ahead(ts, pr, cur.n)

\* What a run has read of a stream, in a batch that is not committed yet; and
\* that nothing is missing before it, and nothing after the commit.
ReadGood(ts, fs, pr, r) ==
  /\ Aims(ts, fs, r.cur) /\ Ahead(ts, pr, r.cur.n)
  /\ r.st = "read" => Aims(ts, fs, r.got) /\ r.cur.n <= r.first /\ r.cur.n <= r.got.n
ReadWhole(ts, had, r) ==
  /\ KeysIn(ts, r.cur.after, r.cur.n) \subseteq had
  /\ r.st = "read" => KeysIn(ts, r.got.after, r.got.n)
                        \subseteq had \cup KeysIn(ts, r.first, r.got.n)

\* The files that the backfill has listed: a file now found at the place of one
\* of them is that one, and a cursor may name any place in the last.
ListGood(ts, fs, vs) ==
  /\ Len(vs) >= 1
  /\ \A i \in 1..Len(vs) : Id(vs, i) # 0
  /\ \A i \in 1..Len(vs) - 1 :
       /\ Closes(Size(vs, i), Base(vs, i), Base(vs, i + 1))
       /\ Base(vs, i) < Base(fs, Len(fs))
       /\ \A j \in 1..Len(fs) : Base(fs, j) = Base(vs, i) => Size(fs, j) = Size(vs, i)
  /\ 2 * Base(vs, Len(vs)) + Size(vs, Len(vs)) <= 2 * Len(ts) + 1
  /\ \A off \in 0 .. Size(vs, Len(vs)) :
       Points(fs, Id(vs, Len(vs)), off, LineAt(vs, Len(vs), off))

\* All lines of the listed files vs as far as the n-th are in the database, but
\* for those that are too old for the backfill.
Filled(ts, had, vs, n, cut) ==
  n <= Len(ts) /\ \A k \in Base(vs, 1) + 1 .. n : ts[k] > cut => ts[k] \in had

\* More is written to the last of k files, which has the size z and the place b.
Written(fs, gs, k, b, z, w) ==
  /\ Len(fs) = k /\ Len(gs) = k
  /\ Base(fs, k) = b /\ Size(fs, k) = z /\ Size(gs, k) = z + w
  /\ \A i \in 1..k : Id(gs, i) = Id(fs, i) /\ Base(gs, i) = Base(fs, i)
  /\ \A i \in 1..k : i = k \/ Size(gs, i) = Size(fs, i)

\* The last of k files is rotated, in either way: its place and size stay, and
\* an empty file follows it at line m.  One of the two has its identity.
Rotated(fs, gs, k, b, z, m) ==
  /\ Len(fs) = k /\ Len(gs) = k + 1
  /\ Base(fs, k) = b /\ Size(fs, k) = z /\ Base(gs, k + 1) = m /\ Size(gs, k + 1) = 0
  /\ \A i \in 1..k : Base(gs, i) = Base(fs, i) /\ Size(gs, i) = Size(fs, i)
  /\ \A i \in 1..k : i = k \/ Id(gs, i) = Id(fs, i)
  /\ \/ Id(gs, k) = Id(fs, k) /\ Id(gs, k + 1) = m + 10
     \/ Id(gs, k) = m + 10 /\ Id(gs, k + 1) = Id(fs, k)

\* What a chunk takes of a file of z half lines, from off on: it ends at end,
\* consumes so many half lines, and the next one starts at off2.
Chunk(z, off, end, consumed, off2) ==
  /\ end = Least(z, off + Limit)
  /\ consumed = 2 * (end \div 2) - off
  /\ off2 = Greatest(off, off + consumed)

\* A chunk of the file f that is found at the place of the i-th listed one: the
\* lines after line as far as upto.
ChunkAt(fs, vs, i, off, f, end, consumed, off2, line, upto) ==
  /\ f = IF Len(vs) - i < Len(fs) THEN fs[Len(fs) - (Len(vs) - i)] ELSE File(0, 0, 0)
  /\ Chunk(f.size, off, end, consumed, off2)
  /\ line = f.base + off \div 2
  /\ upto = f.base + end \div 2

\* The same without the division, for a chunk of h lines.
Takes(z, off, end, consumed, off2, h) ==
  /\ end \in Nat /\ end <= z /\ h = end \div 2 /\ 2 * h <= z
  /\ consumed = 2 * h - off /\ off2 \in Nat
  /\ (off2 = off /\ 2 * h <= off) \/ (off2 = 2 * h /\ off < 2 * h)
  /\ consumed <= 0 \/ (end = z /\ end % 2 = 0) => z <= 2 * h + 1

\* The events of some lines that are not too old for the backfill.
SelectedKeys(ts, line, upto, cut) == {k \in KeysIn(ts, line, upto) : k > cut}

\* vs are all of fs but the d oldest.
Suffix(vs, fs, d) ==
  /\ Len(vs) >= 1 /\ Len(fs) = Len(vs) + d
  /\ \A i \in 1..Len(vs) : vs[i] = fs[i + d]

-----------------------------------------------------------------------------
(* Half lines, lines and files.                                             *)

\* Half of a number, rounded down: an offset is a number of half lines.
LEMMA Halves ==
  ASSUME NEW x \in Nat
  PROVE  /\ x \div 2 \in Nat
         /\ 2 * (x \div 2) <= x
         /\ x <= 2 * (x \div 2) + 1
         /\ x % 2 = x - 2 * (x \div 2)
OBVIOUS

\* A file's fields are numbers, and there is one line at an offset of it.
LEMMA FileFields ==
  ASSUME NEW fs \in Seq(LogFile)
  PROVE  /\ Len(fs) \in Nat
         /\ \A i \in 1..Len(fs) : Id(fs, i) \in Nat /\ Base(fs, i) \in Nat /\ Size(fs, i) \in Nat
<1>1. Len(fs) \in Nat /\ \A i \in 1..Len(fs) : fs[i] \in LogFile
  BY LenProperties, ElementOfSeq
<1> QED BY <1>1 DEF LogFile, Id, Base, Size

\* The line at an offset, without the division.
LEMMA LineBounds ==
  ASSUME NEW fs \in Seq(LogFile), NEW i \in 1..Len(fs), NEW off \in Nat
  PROVE  /\ LineAt(fs, i, off) \in Nat
         /\ 2 * LineAt(fs, i, off) <= 2 * Base(fs, i) + off
         /\ 2 * Base(fs, i) + off <= 2 * LineAt(fs, i, off) + 1
<1>1. PICK b \in Nat : b = Base(fs, i)
  BY FileFields
<1>2. LineAt(fs, i, off) = b + off \div 2
  BY <1>1 DEF LineAt, Base
<1>3. PICK h \in Nat : h = off \div 2 /\ 2 * h <= off /\ off <= 2 * h + 1
  BY Halves
<1> QED BY <1>1, <1>2, <1>3

\* The same, by name.
LEMMA LineNamed ==
  ASSUME NEW fs \in Seq(LogFile), NEW i \in 1..Len(fs), NEW off \in Nat,
         NEW b \in Nat, b = Base(fs, i)
  PROVE  \E l \in Nat : l = LineAt(fs, i, off) /\ 2 * l <= 2 * b + off /\ 2 * b + off <= 2 * l + 1
<1>1. LineAt(fs, i, off) = b + off \div 2
  BY DEF LineAt, Base
<1>2. PICK h \in Nat : h = off \div 2 /\ 2 * h <= off /\ off <= 2 * h + 1
  BY Halves
<1> QED BY <1>1, <1>2

\* A chain of k files, in the numbers of its last one.
LEMMA ChainFields ==
  ASSUME NEW fs \in Seq(LogFile), NEW lines \in Nat, Chain(fs, lines),
         NEW k \in Nat, k = Len(fs)
  PROVE  /\ k \in 1..k /\ 1..Len(fs) = 1..k
         /\ \A i \in 1..k : Id(fs, i) \in Nat /\ Base(fs, i) \in Nat /\ Size(fs, i) \in Nat
         /\ \A i \in 1..k : Id(fs, i) \in 1 .. Base(fs, k) + 10
         /\ \A i, j \in 1..k : Id(fs, i) = Id(fs, j) => i = j
         /\ \A i \in 1..k - 1 : Closes(Size(fs, i), Base(fs, i), Base(fs, i + 1))
         /\ \A i, j \in 1..k : i < j => 2 * Base(fs, i) + Size(fs, i) <= 2 * Base(fs, j) + 1
         /\ 2 * lines <= 2 * Base(fs, k) + Size(fs, k)
         /\ 2 * Base(fs, k) + Size(fs, k) <= 2 * lines + 1
BY FileFields DEF Chain

\* The newest k of a stream's files: all but the d oldest ones.
LEMMA NewestFiles ==
  ASSUME NEW fs \in Seq(LogFile), Len(fs) >= 1, NEW k \in Nat, k >= 1
  PROVE  /\ Newest(fs, k) \in Seq(LogFile)
         /\ Len(Newest(fs, k)) <= k
         /\ \E d \in Nat : Suffix(Newest(fs, k), fs, d)
<1> DEFINE m == Greatest(1, Len(fs) - k + 1)
           vs == SubSeq(fs, m, Len(fs))
<1>1. /\ Len(fs) \in Nat /\ m \in 1 .. Len(fs) /\ m >= Len(fs) - k + 1
      /\ m - 1 \in Nat
  BY LenProperties DEF Greatest
<1> HIDE DEF m
<1>2. /\ SubSeq(fs, m, Len(fs)) \in Seq(LogFile)
      /\ Len(SubSeq(fs, m, Len(fs))) = Len(fs) - m + 1
      /\ \A i \in 1 .. Len(fs) - m + 1 : SubSeq(fs, m, Len(fs))[i] = fs[m + i - 1]
  <2>1. m \in 1 .. Len(fs) + 1 /\ Len(fs) \in m - 1 .. Len(fs)
    BY <1>1
  <2>2. /\ SubSeq(fs, m, Len(fs)) \in Seq(LogFile)
        /\ Len(SubSeq(fs, m, Len(fs))) = IF m <= Len(fs) THEN Len(fs) - m + 1 ELSE 0
        /\ \A i \in 1 .. Len(fs) - m + 1 : SubSeq(fs, m, Len(fs))[i] = fs[m + i - 1]
    BY <2>1, SubSeqProperties
  <2> QED BY <2>2, <1>1
<1>3. Newest(fs, k) = vs
  BY DEF Newest, m
<1> HIDE DEF vs
<1>4. vs \in Seq(LogFile) /\ Len(vs) = Len(fs) - m + 1 /\ \A i \in 1 .. Len(vs) : vs[i] = fs[m + i - 1]
  BY <1>2 DEF vs
<1>5. Suffix(vs, fs, m - 1)
  <2>1. Len(vs) >= 1 /\ Len(fs) = Len(vs) + (m - 1)
    BY <1>1, <1>4
  <2>2. \A i \in 1..Len(vs) : m + i - 1 = i + (m - 1)
    BY <1>1, <1>4
  <2>3. \A i \in 1..Len(vs) : vs[i] = fs[i + (m - 1)]
    BY <1>4, <2>2
  <2> QED BY <2>1, <2>3 DEF Suffix
<1>6. Len(vs) <= k
  BY <1>1, <1>4
<1> QED BY <1>1, <1>3, <1>4, <1>5, <1>6

-----------------------------------------------------------------------------
(* The places that a cursor may name.                                       *)

\* What the newest files and all of them have in common.
LEMMA SuffixFields ==
  ASSUME NEW fs \in Seq(LogFile), NEW vs \in Seq(LogFile), NEW d \in Nat, Suffix(vs, fs, d)
  PROVE  /\ Len(fs) = Len(vs) + d
         /\ \A i \in 1..Len(vs) : /\ i + d \in 1..Len(fs)
                                  /\ Id(vs, i) = Id(fs, i + d)
                                  /\ Base(vs, i) = Base(fs, i + d)
                                  /\ Size(vs, i) = Size(fs, i + d)
         /\ \A i \in 1..Len(vs), off \in Nat : LineAt(vs, i, off) = LineAt(fs, i + d, off)
         /\ Id(vs, Len(vs)) = Id(fs, Len(fs))
         /\ Base(vs, Len(vs)) = Base(fs, Len(fs))
         /\ Size(vs, Len(vs)) = Size(fs, Len(fs))
<1>1. Len(vs) \in Nat /\ Len(fs) \in Nat
  BY FileFields
<1>2. Len(vs) >= 1 /\ Len(fs) = Len(vs) + d /\ \A i \in 1..Len(vs) : vs[i] = fs[i + d]
  BY DEF Suffix
<1>3. \A i \in 1..Len(vs) : i + d \in 1..Len(fs)
  BY <1>1, <1>2
<1>4. vs[Len(vs)] = fs[Len(fs)]
  BY <1>1, <1>2
<1> QED BY <1>2, <1>3, <1>4 DEF Id, Base, Size, LineAt

\* The newest of a chain of files are a chain.
LEMMA ChainOfNewest ==
  ASSUME NEW fs \in Seq(LogFile), NEW vs \in Seq(LogFile), NEW d \in Nat, NEW lines \in Nat,
         Suffix(vs, fs, d), Chain(fs, lines)
  PROVE  Chain(vs, lines)
<1>1. Len(vs) \in Nat /\ Len(fs) \in Nat /\ Len(vs) >= 1
  BY FileFields DEF Suffix
<1>2. /\ Len(fs) = Len(vs) + d
      /\ \A i \in 1..Len(vs) : /\ i + d \in 1..Len(fs)
                               /\ Id(vs, i) = Id(fs, i + d)
                               /\ Base(vs, i) = Base(fs, i + d)
                               /\ Size(vs, i) = Size(fs, i + d)
      /\ Base(vs, Len(vs)) = Base(fs, Len(fs))
      /\ Size(vs, Len(vs)) = Size(fs, Len(fs))
  BY SuffixFields
<1>4. \A i \in 1..Len(vs) : Id(vs, i) \in 1 .. Base(vs, Len(vs)) + 10
  <2>1. \A i \in 1..Len(fs) : Id(fs, i) \in 1 .. Base(fs, Len(fs)) + 10
    BY DEF Chain
  <2> QED BY <1>2, <2>1
<1>5. \A i, j \in 1..Len(vs) : Id(vs, i) = Id(vs, j) => i = j
  <2> TAKE i, j \in 1..Len(vs)
  <2> HAVE Id(vs, i) = Id(vs, j)
  <2>1. i + d \in 1..Len(fs) /\ j + d \in 1..Len(fs) /\ Id(fs, i + d) = Id(fs, j + d)
    BY <1>2
  <2>2. i + d = j + d
    BY <2>1 DEF Chain
  <2> QED BY <2>2
<1>6. \A i \in 1..Len(vs) - 1 : Closes(Size(vs, i), Base(vs, i), Base(vs, i + 1))
  <2> TAKE i \in 1..Len(vs) - 1
  <2>1. i + d \in 1..Len(fs) - 1 /\ (i + 1) + d = (i + d) + 1 /\ i \in 1..Len(vs) /\ i + 1 \in 1..Len(vs)
    BY <1>1, <1>2
  <2>2. Size(vs, i) = Size(fs, i + d) /\ Base(vs, i) = Base(fs, i + d) /\ Base(vs, i + 1) = Base(fs, (i + d) + 1)
    BY <1>2, <2>1
  <2>3. Closes(Size(fs, i + d), Base(fs, i + d), Base(fs, (i + d) + 1))
    BY <2>1 DEF Chain
  <2> QED BY <2>2, <2>3
<1>7. \A i, j \in 1..Len(vs) : i < j => 2 * Base(vs, i) + Size(vs, i) <= 2 * Base(vs, j) + 1
  <2> TAKE i, j \in 1..Len(vs)
  <2> HAVE i < j
  <2>1. i + d \in 1..Len(fs) /\ j + d \in 1..Len(fs) /\ i + d < j + d
    BY <1>1, <1>2
  <2>2. 2 * Base(fs, i + d) + Size(fs, i + d) <= 2 * Base(fs, j + d) + 1
    BY <2>1 DEF Chain
  <2> QED BY <1>2, <2>2
<1>8. /\ 2 * lines <= 2 * Base(vs, Len(vs)) + Size(vs, Len(vs))
      /\ 2 * Base(vs, Len(vs)) + Size(vs, Len(vs)) <= 2 * lines + 1
  BY <1>2 DEF Chain
<1> QED BY <1>1, <1>4, <1>5, <1>6, <1>7, <1>8 DEF Chain

\* A place of a stream is one among its newest files.
LEMMA PointsInNewest ==
  ASSUME NEW fs \in Seq(LogFile), NEW vs \in Seq(LogFile), NEW d \in Nat, Suffix(vs, fs, d),
         NEW id \in Nat, NEW off \in Nat, NEW n \in Nat, Points(fs, id, off, n)
  PROVE  Points(vs, id, off, n)
<1>1. Len(vs) \in Nat /\ Len(fs) \in Nat /\ Len(vs) >= 1
  BY FileFields DEF Suffix
<1>2. /\ Len(fs) = Len(vs) + d
      /\ \A i \in 1..Len(vs) : /\ i + d \in 1..Len(fs)
                               /\ Id(vs, i) = Id(fs, i + d)
                               /\ Size(vs, i) = Size(fs, i + d)
                               /\ LineAt(vs, i, off) = LineAt(fs, i + d, off)
      /\ Id(vs, Len(vs)) = Id(fs, Len(fs))
      /\ Base(vs, Len(vs)) = Base(fs, Len(fs))
      /\ Size(vs, Len(vs)) = Size(fs, Len(fs))
  BY SuffixFields
<1>4. \A i \in 1..Len(vs) : Id(vs, i) = id => LineAt(vs, i, off) >= n
  BY <1>2 DEF Points
<1>5. \A i \in 1..Len(vs) : off <= Size(vs, i) =>
        \E j \in i..Len(vs) : off <= Size(vs, j) /\ LineAt(vs, j, off) >= n
  <2> TAKE i \in 1..Len(vs)
  <2> HAVE off <= Size(vs, i)
  <2>1. PICK j \in i + d .. Len(fs) : off <= Size(fs, j) /\ LineAt(fs, j, off) >= n
    BY <1>2 DEF Points
  <2>2. j - d \in i..Len(vs) /\ j - d \in 1..Len(vs) /\ (j - d) + d = j
    BY <1>1, <1>2, <2>1
  <2>3. Size(vs, j - d) = Size(fs, j) /\ LineAt(vs, j - d, off) = LineAt(fs, j, off)
    BY <1>2, <2>2
  <2> QED BY <2>1, <2>2, <2>3
<1>6. id \in 1 .. Base(vs, Len(vs)) + 10
  BY <1>2 DEF Points
<1>7. n > Base(vs, Len(vs)) => Id(vs, Len(vs)) = id /\ off <= Size(vs, Len(vs))
  BY <1>2 DEF Points
<1> QED BY <1>4, <1>5, <1>6, <1>7 DEF Points

\* A place inside a file of a chain is one that a cursor may name.
LEMMA PointsInFile ==
  ASSUME NEW fs \in Seq(LogFile), NEW lines \in Nat, Chain(fs, lines),
         NEW e \in 1..Len(fs), NEW off \in Nat, off <= Size(fs, e)
  PROVE  Points(fs, Id(fs, e), off, LineAt(fs, e, off)) /\ LineAt(fs, e, off) <= lines
<1>0. /\ Len(fs) \in Nat /\ Len(fs) \in 1..Len(fs)
      /\ \A i, j \in 1..Len(fs) : i < j => 2 * Base(fs, i) + Size(fs, i) <= 2 * Base(fs, j) + 1
      /\ 2 * Base(fs, Len(fs)) + Size(fs, Len(fs)) <= 2 * lines + 1
  BY FileFields DEF Chain
<1>1. \A i \in 1..Len(fs) : Id(fs, i) \in Nat /\ Base(fs, i) \in Nat /\ Size(fs, i) \in Nat
  BY FileFields
<1>2. \A i \in 1..Len(fs) : /\ LineAt(fs, i, off) \in Nat
                            /\ 2 * LineAt(fs, i, off) <= 2 * Base(fs, i) + off
                            /\ 2 * Base(fs, i) + off <= 2 * LineAt(fs, i, off) + 1
  BY LineBounds
<1> DEFINE n == LineAt(fs, e, off)
<1>3. n \in Nat /\ Base(fs, e) \in Nat /\ Size(fs, e) \in Nat /\ 2 * n <= 2 * Base(fs, e) + Size(fs, e)
  BY <1>1, <1>2
<1>4. Id(fs, e) \in 1 .. Base(fs, Len(fs)) + 10
  BY DEF Chain
<1>5. \A i \in 1..Len(fs) : Id(fs, i) = Id(fs, e) => LineAt(fs, i, off) >= n
  <2> TAKE i \in 1..Len(fs)
  <2> HAVE Id(fs, i) = Id(fs, e)
  <2>1. i = e
    BY DEF Chain
  <2> QED BY <2>1, <1>3
<1> HIDE DEF n
<1>a. PICK end \in Nat : end = 2 * Base(fs, e) + Size(fs, e)
  BY <1>3
<1>b. PICK open \in Nat : open = Base(fs, Len(fs))
  BY <1>0, <1>1
<1>c. 2 * n <= end /\ (e < Len(fs) => end <= 2 * open + 1) /\ (e = Len(fs) => end <= 2 * lines + 1)
  BY <1>0, <1>3, <1>a, <1>b
<1>d. open <= lines
  <2>1. PICK size \in Nat : size = Size(fs, Len(fs))
    BY <1>0, <1>1
  <2>2. 2 * open + size <= 2 * lines + 1
    BY <1>0, <1>b, <2>1
  <2> QED BY <2>2
<1>6. e < Len(fs) => n <= open
  BY <1>3, <1>c
<1>7. n > Base(fs, Len(fs)) => Id(fs, Len(fs)) = Id(fs, e) /\ off <= Size(fs, Len(fs))
  <2>1. CASE e < Len(fs)
    <3>1. ~ n > open
      BY <1>3, <1>6, <2>1
    <3> QED BY <1>b, <3>1
  <2>2. CASE e = Len(fs)
    BY <2>2
  <2> QED BY <1>0, <2>1, <2>2
<1>8. \A i \in 1..Len(fs) : off <= Size(fs, i) =>
        \E j \in i..Len(fs) : off <= Size(fs, j) /\ LineAt(fs, j, off) >= n
  <2> TAKE i \in 1..Len(fs)
  <2> HAVE off <= Size(fs, i)
  <2>1. CASE i <= e
    <3>1. e \in i..Len(fs) /\ LineAt(fs, e, off) >= n
      BY <1>1, <1>3, <2>1 DEF n
    <3> QED BY <3>1
  <2>2. CASE i > e
    <3>1. 2 * Base(fs, e) + Size(fs, e) <= 2 * Base(fs, i) + 1
      BY <1>0, <2>2
    <3>2. LineAt(fs, i, off) >= n
      <4>1. PICK l \in Nat : l = LineAt(fs, i, off)
        BY <1>2
      <4>2. PICK b \in Nat : b = Base(fs, i)
        BY <1>1
      <4>3. end <= 2 * b + 1 /\ 2 * b + off <= 2 * l + 1
        BY <1>2, <1>a, <3>1, <4>1, <4>2
      <4>4. n <= l
        BY <1>3, <1>c, <4>3
      <4> QED BY <1>3, <4>1, <4>4
    <3>3. i \in i..Len(fs)
      BY <1>0
    <3> QED BY <3>2, <3>3
  <2> QED BY <1>0, <2>1, <2>2
<1>9. n <= lines
  <2>1. CASE e < Len(fs)
    BY <1>3, <1>6, <1>d, <2>1
  <2>2. CASE e = Len(fs)
    BY <1>3, <1>c, <2>2
  <2> QED BY <1>0, <2>1, <2>2
<1> QED BY <1>4, <1>5, <1>7, <1>8, <1>9 DEF Points, n

-----------------------------------------------------------------------------
(* What the node makes of a stream.                                         *)

\* Rotated files fall off the end.
LEMMA LaterNewest ==
  ASSUME NEW ts \in Seq(Nat), NEW fs \in Seq(LogFile), NEW us \in Seq(Nat), NEW gs \in Seq(LogFile),
         NEW hs \in Seq(LogFile), NEW d \in Nat, Suffix(hs, gs, d), Later(ts, fs, us, gs)
  PROVE  Later(ts, fs, us, hs)
<1>1. Chain(hs, Len(us))
  BY ChainOfNewest, LenProperties DEF Later
<1>2. /\ \A i \in 1..Len(hs) : /\ i + d \in 1..Len(gs)
                               /\ Base(hs, i) = Base(gs, i + d) /\ Size(hs, i) = Size(gs, i + d)
      /\ Base(hs, Len(hs)) = Base(gs, Len(gs))
  BY SuffixFields
<1>3. \A j \in 1..Len(hs) :
        \/ Base(hs, j) >= Base(fs, Len(fs))
        \/ \E i \in 1..Len(fs) : Base(hs, j) = Base(fs, i) /\ Size(hs, j) = Size(fs, i)
  <2> TAKE j \in 1..Len(hs)
  <2>1. /\ j + d \in 1..Len(gs)
        /\ Base(hs, j) = Base(gs, j + d) /\ Size(hs, j) = Size(gs, j + d)
    BY <1>2
  <2>2. \/ Base(gs, j + d) >= Base(fs, Len(fs))
        \/ \E i \in 1..Len(fs) : Base(gs, j + d) = Base(fs, i) /\ Size(gs, j + d) = Size(fs, i)
    BY <2>1 DEF Later
  <2> QED BY <2>1, <2>2
<1>4. \A id, off, n \in Nat : n <= Len(ts) /\ Points(fs, id, off, n) => Points(hs, id, off, n)
  BY PointsInNewest DEF Later
<1> QED BY <1>1, <1>2, <1>3, <1>4 DEF Later

\* More is written to the open file.
LEMMA LaterWrite ==
  ASSUME NEW ts \in Seq(Nat), NEW fs \in Seq(LogFile), NEW us \in Seq(Nat), NEW gs \in Seq(LogFile),
         NEW k \in Nat, NEW b \in Nat, NEW z \in Nat, NEW w \in Nat, NEW m \in Nat,
         Chain(fs, Len(ts)), Written(fs, gs, k, b, z, w), Lines(us), m = Len(us),
         Len(ts) <= Len(us), \A n \in 1..Len(ts) : us[n] = ts[n],
         2 * m <= 2 * b + z + w, 2 * b + z + w <= 2 * m + 1
  PROVE  Later(ts, fs, us, gs)
<1>1. /\ Len(fs) = k /\ Len(gs) = k
      /\ Base(fs, k) = b /\ Size(fs, k) = z /\ Size(gs, k) = z + w
      /\ \A i \in 1..k : Id(gs, i) = Id(fs, i) /\ Base(gs, i) = Base(fs, i)
      /\ \A i \in 1..k : i = k \/ Size(gs, i) = Size(fs, i)
  BY DEF Written
<1>2. /\ k \in 1..k
      /\ \A i \in 1..k : Id(fs, i) \in Nat /\ Base(fs, i) \in Nat /\ Size(fs, i) \in Nat
      /\ \A i \in 1..k : Id(fs, i) \in 1 .. Base(fs, k) + 10
      /\ \A i, j \in 1..k : Id(fs, i) = Id(fs, j) => i = j
      /\ \A i \in 1..k - 1 : Closes(Size(fs, i), Base(fs, i), Base(fs, i + 1))
      /\ \A i, j \in 1..k : i < j => 2 * Base(fs, i) + Size(fs, i) <= 2 * Base(fs, j) + 1
  BY <1>1, ChainFields, LenProperties
<1>3. \A i \in 1..k, off \in Nat : LineAt(gs, i, off) = LineAt(fs, i, off)
  BY <1>1 DEF LineAt, Base
<1>4. Base(gs, k) = b /\ Len(ts) \in Nat
  BY <1>1, <1>2, LenProperties
<1>5. Chain(gs, m)
  <2>1. \A i \in 1..k : Id(gs, i) \in 1 .. Base(gs, k) + 10
    BY <1>1, <1>2
  <2>2. \A i, j \in 1..k : Id(gs, i) = Id(gs, j) => i = j
    BY <1>1, <1>2
  <2>3. \A i \in 1..k - 1 : Closes(Size(gs, i), Base(gs, i), Base(gs, i + 1))
    <3> TAKE i \in 1..k - 1
    <3>1. i \in 1..k /\ i + 1 \in 1..k /\ i # k
      BY <1>2
    <3>2. Size(gs, i) = Size(fs, i) /\ Base(gs, i) = Base(fs, i) /\ Base(gs, i + 1) = Base(fs, i + 1)
      BY <1>1, <3>1
    <3> QED BY <1>2, <3>2
  <2>4. \A i, j \in 1..k : i < j => 2 * Base(gs, i) + Size(gs, i) <= 2 * Base(gs, j) + 1
    <3> TAKE i, j \in 1..k
    <3> HAVE i < j
    <3>1. Size(gs, i) = Size(fs, i) /\ Base(gs, i) = Base(fs, i) /\ Base(gs, j) = Base(fs, j)
      BY <1>1
    <3> QED BY <1>2, <3>1
  <2>5. 2 * m <= 2 * b + (z + w) /\ 2 * b + (z + w) <= 2 * m + 1
    OBVIOUS
  <2>6. 2 * m <= 2 * Base(gs, k) + Size(gs, k) /\ 2 * Base(gs, k) + Size(gs, k) <= 2 * m + 1
    BY <1>1, <1>4, <2>5
  <2> QED BY <1>1, <1>2, <2>1, <2>2, <2>3, <2>4, <2>6 DEF Chain
<1>6. \A j \in 1..k :
        \/ Base(gs, j) >= Base(fs, k)
        \/ \E i \in 1..k : Base(gs, j) = Base(fs, i) /\ Size(gs, j) = Size(fs, i)
  BY <1>1, <1>2
<1>7. ASSUME NEW id \in Nat, NEW off \in Nat, NEW n \in Nat, Points(fs, id, off, n)
      PROVE  Points(gs, id, off, n)
  <2>0. /\ id \in 1 .. b + 10
        /\ \A i \in 1..k : Id(fs, i) = id => LineAt(fs, i, off) >= n
        /\ n > b => Id(fs, k) = id /\ off <= z
        /\ \A i \in 1..k : off <= Size(fs, i) =>
             \E j \in i..k : off <= Size(fs, j) /\ LineAt(fs, j, off) >= n
    BY <1>1, <1>7 DEF Points
  <2>1. id \in 1 .. Base(gs, k) + 10
    BY <1>4, <2>0
  <2>2. \A i \in 1..k : Id(gs, i) = id => LineAt(gs, i, off) >= n
    BY <1>1, <1>3, <2>0
  <2>3. n > b => Id(gs, k) = id /\ off <= z + w
    BY <1>1, <1>2, <2>0
  <2>4. ASSUME NEW i \in 1..k, off <= Size(gs, i)
        PROVE  \E j \in i..k : off <= Size(gs, j) /\ LineAt(gs, j, off) >= n
    <3>1. CASE off <= Size(fs, i)
      <4>1. PICK j \in i..k : off <= Size(fs, j) /\ LineAt(fs, j, off) >= n
        BY <2>0, <3>1
      <4>2. j \in 1..k
        OBVIOUS
      <4>3. off <= Size(gs, j)
        <5>1. CASE j = k
          <6>1. off <= z
            BY <1>1, <4>1, <5>1
          <6> QED BY <1>1, <5>1, <6>1
        <5>2. CASE Size(gs, j) = Size(fs, j)
          BY <4>1, <5>2
        <5> QED BY <1>1, <4>2, <5>1, <5>2
      <4> QED BY <1>3, <4>1, <4>2, <4>3
    <3>2. CASE ~ off <= Size(fs, i)
      <4>1. i = k
        BY <1>1, <2>4, <3>2
      <4>2. ~ n > b
        BY <1>1, <2>0, <3>2, <4>1
      <4>3. PICK l \in Nat : l = LineAt(fs, i, off) /\ 2 * l <= 2 * b + off /\ 2 * b + off <= 2 * l + 1
        <5>1. b = Base(fs, i) /\ i \in 1..Len(fs)
          BY <1>1, <4>1
        <5> QED BY <5>1, LineNamed
      <4>4. l >= n
        BY SMTT(20), <4>2, <4>3
      <4>5. i \in i..k /\ LineAt(gs, i, off) >= n
        BY <1>3, <4>3, <4>4
      <4> QED BY <2>4, <4>5
    <3> QED BY <3>1, <3>2
  <2> QED BY <1>1, <1>4, <2>1, <2>2, <2>3, <2>4 DEF Points
<1>8. \A id, off, n \in Nat : n <= Len(ts) /\ Points(fs, id, off, n) => Points(gs, id, off, n)
  BY <1>7
<1>9. Base(gs, k) >= Base(fs, k)
  BY <1>1, <1>4
<1> QED BY <1>1, <1>5, <1>6, <1>8, <1>9 DEF Later

\* The log is rotated, in both ways.
LEMMA LaterRotate ==
  ASSUME NEW ts \in Seq(Nat), NEW fs \in Seq(LogFile), NEW gs \in Seq(LogFile),
         NEW k \in Nat, NEW b \in Nat, NEW z \in Nat, NEW m \in Nat,
         Chain(fs, Len(ts)), Rotated(fs, gs, k, b, z, m), Lines(ts), m = Len(ts),
         z > 1, 2 * m <= 2 * b + z, 2 * b + z <= 2 * m + 1
  PROVE  Later(ts, fs, ts, gs)
<1>1. /\ Len(fs) = k /\ Len(gs) = k + 1
      /\ Base(fs, k) = b /\ Size(fs, k) = z /\ Base(gs, k + 1) = m /\ Size(gs, k + 1) = 0
      /\ \A i \in 1..k : Base(gs, i) = Base(fs, i) /\ Size(gs, i) = Size(fs, i)
      /\ \A i \in 1..k : i = k \/ Id(gs, i) = Id(fs, i)
      /\ \/ Id(gs, k) = Id(fs, k) /\ Id(gs, k + 1) = m + 10
         \/ Id(gs, k) = m + 10 /\ Id(gs, k + 1) = Id(fs, k)
  BY DEF Rotated
<1>2. /\ k \in 1..k
      /\ \A i \in 1..k : Id(fs, i) \in Nat /\ Base(fs, i) \in Nat /\ Size(fs, i) \in Nat
      /\ \A i \in 1..k : Id(fs, i) \in 1 .. Base(fs, k) + 10
      /\ \A i, j \in 1..k : Id(fs, i) = Id(fs, j) => i = j
      /\ \A i \in 1..k - 1 : Closes(Size(fs, i), Base(fs, i), Base(fs, i + 1))
      /\ \A i, j \in 1..k : i < j => 2 * Base(fs, i) + Size(fs, i) <= 2 * Base(fs, j) + 1
  <2>1. Len(ts) \in Nat /\ k = Len(fs)
    BY <1>1, LenProperties
  <2>2. /\ \A i \in 1..Len(fs) : Id(fs, i) \in Nat /\ Base(fs, i) \in Nat /\ Size(fs, i) \in Nat
        /\ k >= 1
    BY <2>1, FileFields DEF Chain
  <2> QED BY <2>1, <2>2 DEF Chain
<1>3. b < m /\ k + 1 \in 1..k + 1 /\ \A i \in 1..k + 1 : i \in 1..k \/ i = k + 1
  OBVIOUS
<1>4. \A i \in 1..k : Id(fs, i) \in 1..m + 10 /\ Id(fs, i) # m + 10
  <2> TAKE i \in 1..k
  <2>1. Id(fs, i) \in 1..b + 10
    BY <1>1, <1>2
  <2> QED BY <1>3, <2>1
<1>5. Chain(gs, m)
  <2>1. \A i \in 1..k + 1 : Id(gs, i) \in 1 .. m + 10
    <3> TAKE i \in 1..k + 1
    <3>1. CASE i \in 1..k /\ i # k
      BY <1>1, <1>4, <3>1
    <3>2. m + 10 \in 1..m + 10 /\ Id(fs, k) \in 1..m + 10
      BY <1>2, <1>4
    <3>3. CASE i = k \/ i = k + 1
      BY <1>1, <3>2, <3>3
    <3> QED BY <1>3, <3>1, <3>3
  <2>2. \A i, j \in 1..k + 1 : Id(gs, i) = Id(gs, j) => i = j
    <3>1. \A i \in 1..k : i # k => Id(gs, i) # Id(gs, k) /\ Id(gs, i) # Id(gs, k + 1)
      BY <1>1, <1>2, <1>4
    <3>2. Id(gs, k) # Id(gs, k + 1)
      BY <1>1, <1>2, <1>4
    <3>3. \A i, j \in 1..k : i # k /\ j # k /\ Id(gs, i) = Id(gs, j) => i = j
      BY <1>1, <1>2
    <3> QED BY <1>3, <3>1, <3>2, <3>3
  <2>3. \A i \in 1..k : Closes(Size(gs, i), Base(gs, i), Base(gs, i + 1))
    <3> TAKE i \in 1..k
    <3>1. CASE i # k
      <4>1. i \in 1..k - 1 /\ i + 1 \in 1..k
        BY <3>1
      <4>2. Size(gs, i) = Size(fs, i) /\ Base(gs, i) = Base(fs, i) /\ Base(gs, i + 1) = Base(fs, i + 1)
        BY <1>1, <4>1
      <4> QED BY <1>2, <4>1, <4>2
    <3>2. CASE i = k
      <4>1. Closes(z, b, m)
        BY DEF Closes
      <4>2. Size(gs, i) = z /\ Base(gs, i) = b /\ Base(gs, i + 1) = m
        BY <1>1, <1>2, <3>2
      <4> QED BY <4>1, <4>2
    <3> QED BY <3>1, <3>2
  <2>4. \A i, j \in 1..k + 1 : i < j => 2 * Base(gs, i) + Size(gs, i) <= 2 * Base(gs, j) + 1
    <3> TAKE i, j \in 1..k + 1
    <3> HAVE i < j
    <3>0. i \in 1..k
      OBVIOUS
    <3>1. Base(gs, i) = Base(fs, i) /\ Size(gs, i) = Size(fs, i)
      BY <1>1, <3>0
    <3>2. CASE j \in 1..k
      <4>1. 2 * Base(fs, i) + Size(fs, i) <= 2 * Base(fs, j) + 1
        BY <1>2, <3>0, <3>2
      <4>2. Base(gs, j) = Base(fs, j)
        BY <1>1, <3>2
      <4> QED BY <3>1, <4>1, <4>2
    <3>3. CASE j = k + 1
      <4>0. Base(gs, j) = m
        BY <1>1, <3>3
      <4>1. PICK bi \in Nat : bi = Base(fs, i)
        BY <1>2, <3>0
      <4>2. PICK zi \in Nat : zi = Size(fs, i)
        BY <1>2, <3>0
      <4>3. CASE i = k
        <5>1. bi = b /\ zi = z
          BY <1>1, <4>1, <4>2, <4>3
        <5> QED BY <3>1, <4>0, <4>1, <4>2, <5>1
      <4>4. CASE i < k
        <5>1. 2 * Base(fs, i) + Size(fs, i) <= 2 * Base(fs, k) + 1
          BY <1>2, <3>0, <4>4
        <5>2. 2 * bi + zi <= 2 * b + 1
          BY <1>1, <4>1, <4>2, <5>1
        <5>3. 2 * bi + zi <= 2 * m + 1
          BY <1>3, <5>2
        <5> QED BY <3>1, <4>0, <4>1, <4>2, <5>3
      <4> QED BY <3>0, <4>3, <4>4
    <3> QED BY <1>3, <3>2, <3>3
  <2>5. 2 * m <= 2 * Base(gs, k + 1) + Size(gs, k + 1) /\ 2 * Base(gs, k + 1) + Size(gs, k + 1) <= 2 * m + 1
    BY <1>1
  <2>6. Len(gs) >= 1 /\ Len(gs) - 1 = k
    BY <1>1
  <2> QED BY <1>1, <2>1, <2>2, <2>3, <2>4, <2>5, <2>6 DEF Chain
<1>6. \A j \in 1..k + 1 :
        \/ Base(gs, j) >= Base(fs, k)
        \/ \E i \in 1..k : Base(gs, j) = Base(fs, i) /\ Size(gs, j) = Size(fs, i)
  BY <1>1, <1>3
<1>7. ASSUME NEW id \in Nat, NEW off \in Nat, NEW n \in Nat, n <= m, Points(fs, id, off, n)
      PROVE  Points(gs, id, off, n)
  <2>0. /\ id \in 1 .. b + 10
        /\ \A i \in 1..k : Id(fs, i) = id => LineAt(fs, i, off) >= n
        /\ \A i \in 1..k : off <= Size(fs, i) =>
             \E j \in i..k : off <= Size(fs, j) /\ LineAt(fs, j, off) >= n
    BY <1>1, <1>7 DEF Points
  <2>a. \A i \in 1..k : LineAt(gs, i, off) = LineAt(fs, i, off)
    BY <1>1 DEF LineAt, Base
  <2>b. PICK l \in Nat : l = LineAt(gs, k + 1, off) /\ 2 * l <= 2 * m + off /\ 2 * m + off <= 2 * l + 1
    <3>1. k + 1 \in 1..Len(gs) /\ m = Base(gs, k + 1)
      BY <1>1, <1>3
    <3> QED BY <3>1, LineNamed
  <2>c. LineAt(gs, k + 1, off) >= n
    BY SMTT(20), <1>7, <2>b
  <2>1. id \in 1 .. m + 10 /\ id # m + 10
    BY <1>3, <2>0
  <2>2. \A i \in 1..k + 1 : Id(gs, i) = id => LineAt(gs, i, off) >= n
    <3> TAKE i \in 1..k + 1
    <3> HAVE Id(gs, i) = id
    <3>1. CASE i = k + 1
      BY <2>c, <3>1
    <3>2. CASE i \in 1..k
      <4>1. Id(fs, i) = id
        BY <1>1, <2>1, <3>2
      <4> QED BY <2>0, <2>a, <3>2, <4>1
    <3> QED BY <1>3, <3>1, <3>2
  <2>4. ASSUME NEW i \in 1..k + 1, off <= Size(gs, i)
        PROVE  \E j \in i..k + 1 : off <= Size(gs, j) /\ LineAt(gs, j, off) >= n
    <3>1. CASE i = k + 1
      <4>1. i \in i..k + 1
        BY <3>1
      <4> QED BY <2>4, <2>c, <3>1, <4>1
    <3>2. CASE i \in 1..k
      <4>1. PICK j \in i..k : off <= Size(fs, j) /\ LineAt(fs, j, off) >= n
        BY <1>1, <2>0, <2>4, <3>2
      <4>2. j \in 1..k /\ j \in i..k + 1
        BY <3>2
      <4> QED BY <1>1, <2>a, <4>1, <4>2
    <3> QED BY <1>3, <3>1, <3>2
  <2>5. ~ n > m
    BY <1>7
  <2> QED BY <1>1, <2>1, <2>2, <2>4, <2>5 DEF Points
<1>8. \A id, off, n \in Nat : n <= Len(ts) /\ Points(fs, id, off, n) => Points(gs, id, off, n)
  BY <1>7
<1>9. Base(gs, k + 1) >= Base(fs, k) /\ Len(ts) <= Len(ts)
  BY <1>1, <1>3
<1> QED BY <1>1, <1>5, <1>6, <1>8, <1>9 DEF Later

-----------------------------------------------------------------------------
(* What the node leaves of what was known of a stream.                      *)

\* The events of lines that were there stay what they are.
LEMMA KeysKept ==
  ASSUME NEW ts \in Seq(Nat), NEW us \in Seq(Nat), \A n \in 1..Len(ts) : us[n] = ts[n]
  PROVE  \A a, n \in Nat : n <= Len(ts) => KeysIn(us, a, n) = KeysIn(ts, a, n)
<1> TAKE a, n \in Nat
<1> HAVE n <= Len(ts)
<1>1. Len(ts) \in Nat
  BY LenProperties
<1>2. \A i \in a + 1..n : i \in 1..Len(ts)
  BY <1>1
<1>3. \A i \in a + 1..n : us[i] = ts[i]
  BY <1>2
<1> QED BY <1>3 DEF KeysIn

\* The facts of Later, by name.
LEMMA LaterFacts ==
  ASSUME NEW ts \in Seq(Nat), NEW fs \in Seq(LogFile), NEW us \in Seq(Nat), NEW gs \in Seq(LogFile),
         Later(ts, fs, us, gs)
  PROVE  /\ Lines(us) /\ Chain(gs, Len(us)) /\ Len(ts) \in Nat /\ Len(us) \in Nat
         /\ Len(ts) <= Len(us) /\ \A n \in 1..Len(ts) : us[n] = ts[n]
         /\ Base(gs, Len(gs)) >= Base(fs, Len(fs))
         /\ \A id, off, n \in Nat : n <= Len(ts) /\ Points(fs, id, off, n) => Points(gs, id, off, n)
BY LenProperties DEF Later

\* A cursor still names its place.
LEMMA AimsLater ==
  ASSUME NEW ts \in Seq(Nat), NEW fs \in Seq(LogFile), NEW us \in Seq(Nat), NEW gs \in Seq(LogFile),
         Later(ts, fs, us, gs), NEW cur \in Cursor, Aims(ts, fs, cur)
  PROVE  Aims(us, gs, cur)
<1>1. cur.id \in Nat /\ cur.off \in Nat /\ cur.n \in Nat
  BY DEF Cursor
<1>2. cur.n <= Len(ts) /\ (cur.id = 0 => cur.n = 0) /\ (cur.id # 0 => Points(fs, cur.id, cur.off, cur.n))
  BY DEF Aims
<1>3. cur.id # 0 => Points(gs, cur.id, cur.off, cur.n)
  BY <1>1, <1>2, LaterFacts
<1>4. cur.n <= Len(us)
  BY <1>1, <1>2, LaterFacts
<1> QED BY <1>2, <1>3, <1>4 DEF Aims

\* The last line there was is not later than the last line there is, nor than
\* any line that was written since.
LEMMA LastLater ==
  ASSUME NEW ts \in Seq(Nat), NEW us \in Seq(Nat), Lines(ts), Lines(us),
         Len(ts) <= Len(us), \A n \in 1..Len(ts) : us[n] = ts[n]
  PROVE  /\ LastOf(ts) \in Nat /\ LastOf(us) \in Nat /\ LastOf(ts) <= LastOf(us)
         /\ \A n \in Len(ts) + 1..Len(us) : us[n] \in Nat /\ LastOf(ts) <= us[n]
<1>1. Len(ts) \in Nat /\ Len(us) \in Nat /\ (ts = <<>> <=> Len(ts) = 0) /\ (us = <<>> <=> Len(us) = 0)
  BY EmptySeq, LenProperties
<1>2. /\ \A n \in 1..Len(ts) : ts[n] \in Nat
      /\ \A n \in 1..Len(us) : us[n] \in Nat
  BY ElementOfSeq
<1>3. CASE Len(ts) = 0
  <2>1. LastOf(ts) = 0
    BY <1>1, <1>3 DEF LastOf
  <2>2. LastOf(us) \in Nat
    BY <1>1, <1>2 DEF LastOf
  <2>3. \A n \in Len(ts) + 1..Len(us) : us[n] \in Nat
    BY <1>1, <1>2, <1>3
  <2> QED BY <2>1, <2>2, <2>3
<1>4. CASE Len(ts) # 0
  <2>1. Len(ts) \in 1..Len(ts) /\ Len(ts) \in 1..Len(us) /\ Len(us) \in 1..Len(us)
    BY <1>1, <1>4
  <2>2. LastOf(ts) = ts[Len(ts)] /\ LastOf(us) = us[Len(us)]
    BY <1>1, <1>4, <2>1 DEF LastOf
  <2>3. us[Len(ts)] = ts[Len(ts)] /\ ts[Len(ts)] \in Nat /\ us[Len(us)] \in Nat
    BY <1>2, <2>1
  <2>4. \A n \in Len(ts)..Len(us) : us[Len(ts)] <= us[n] /\ us[n] \in Nat
    <3> TAKE n \in Len(ts)..Len(us)
    <3>1. n \in 1..Len(us) /\ Len(ts) <= n
      BY <1>1, <1>4
    <3> QED BY <1>2, <2>1, <3>1 DEF Lines
  <2>5. Len(us) \in Len(ts)..Len(us)
    BY <1>1
  <2>6. LastOf(ts) <= LastOf(us)
    BY <2>2, <2>3, <2>4, <2>5
  <2>7. \A n \in Len(ts) + 1..Len(us) : n \in Len(ts)..Len(us)
    BY <1>1
  <2>8. \A n \in Len(ts) + 1..Len(us) : us[n] \in Nat /\ LastOf(ts) <= us[n]
    BY <2>2, <2>3, <2>4, <2>7
  <2> QED BY <2>2, <2>3, <2>6, <2>8
<1> QED BY <1>3, <1>4

\* No old line comes after a line that none of the old ones comes after.
LEMMA AheadLater ==
  ASSUME NEW ts \in Seq(Nat), NEW us \in Seq(Nat), Lines(ts), Lines(us),
         Len(ts) <= Len(us), \A n \in 1..Len(ts) : us[n] = ts[n],
         NEW pr \in SUBSET Nat, \A k \in pr : k <= LastOf(ts) - RawSpan,
         NEW n \in Nat, Ahead(ts, pr, n)
  PROVE  Ahead(us, pr, n)
<1>1. /\ Len(ts) \in Nat /\ Len(us) \in Nat /\ LastOf(ts) \in Nat /\ RawSpan \in Nat /\ RawSpan # 0
      /\ \A i \in Len(ts) + 1..Len(us) : us[i] \in Nat /\ LastOf(ts) <= us[i]
  BY LastLater, LenProperties, CollectAssumption
<1>2. SUFFICES ASSUME NEW i \in n + 1..Len(us) PROVE us[i] \notin pr
  BY DEF Ahead, KeysIn
<1>3. CASE i <= Len(ts)
  <2>1. i \in n + 1..Len(ts) /\ i \in 1..Len(ts)
    BY <1>1, <1>3
  <2>2. ts[i] \notin pr
    BY <2>1 DEF Ahead, KeysIn
  <2> QED BY <2>1, <2>2
<1>4. CASE i > Len(ts)
  <2>1. us[i] \in Nat /\ LastOf(ts) <= us[i]
    BY <1>1, <1>4
  <2> QED BY <1>1, <2>1
<1> QED BY <1>1, <1>3, <1>4

\* A stream stays good.
LEMMA StreamLater ==
  ASSUME NEW ts \in Seq(Nat), NEW fs \in Seq(LogFile), NEW us \in Seq(Nat), NEW gs \in Seq(LogFile),
         Later(ts, fs, us, gs), NEW cur \in Cursor, NEW st \in SUBSET Nat, NEW pr \in SUBSET Nat,
         NEW count, NEW over, StreamGood(ts, fs, cur, st, pr, count, over)
  PROVE  StreamGood(us, gs, cur, st, pr, count, over)
<1>1. /\ Lines(us) /\ Chain(gs, Len(us)) /\ Len(ts) \in Nat /\ Len(us) \in Nat
      /\ Len(ts) <= Len(us) /\ \A n \in 1..Len(ts) : us[n] = ts[n]
  BY LaterFacts
<1>2. /\ Lines(ts) /\ st \cup pr \subseteq 1..Len(ts) /\ \A k \in pr : k <= LastOf(ts) - RawSpan
      /\ Tallied(count, Cardinality(st \cup pr), over) /\ Aims(ts, fs, cur) /\ Ahead(ts, pr, cur.n)
  BY DEF StreamGood
<1>3. LastOf(ts) \in Nat /\ LastOf(us) \in Nat /\ LastOf(ts) <= LastOf(us)
  BY <1>1, <1>2, LastLater
<1>4. \A k \in pr : k <= LastOf(us) - RawSpan
  <2>1. RawSpan \in Nat
    BY CollectAssumption
  <2> QED BY <1>2, <1>3, <2>1
<1>5. st \cup pr \subseteq 1..Len(us)
  BY <1>1, <1>2
<1>6. Aims(us, gs, cur)
  BY <1>2, AimsLater
<1>7. Ahead(us, pr, cur.n)
  <2>1. cur.n \in Nat
    BY DEF Cursor
  <2> QED BY <1>1, <1>2, <2>1, AheadLater
<1> QED BY <1>1, <1>2, <1>4, <1>5, <1>6, <1>7 DEF StreamGood

\* And so does what a run has read of it.
LEMMA ReadLater ==
  ASSUME NEW ts \in Seq(Nat), NEW fs \in Seq(LogFile), NEW us \in Seq(Nat), NEW gs \in Seq(LogFile),
         Later(ts, fs, us, gs), Lines(ts),
         NEW pr \in SUBSET Nat, \A k \in pr : k <= LastOf(ts) - RawSpan,
         NEW r \in Reading, ReadGood(ts, fs, pr, r)
  PROVE  /\ ReadGood(us, gs, pr, r)
         /\ \A had \in SUBSET Nat : ReadWhole(ts, had, r) => ReadWhole(us, had, r)
<1>1. /\ Lines(us) /\ Chain(gs, Len(us)) /\ Len(ts) \in Nat /\ Len(us) \in Nat
      /\ Len(ts) <= Len(us) /\ \A n \in 1..Len(ts) : us[n] = ts[n]
  BY LaterFacts
<1>2. /\ r.cur \in Cursor /\ r.got \in Cursor /\ r.first \in Nat
      /\ r.cur.n \in Nat /\ r.cur.after \in Nat /\ r.got.n \in Nat /\ r.got.after \in Nat
  BY DEF Reading, Cursor
<1>3. Aims(us, gs, r.cur) /\ (r.st = "read" => Aims(us, gs, r.got))
  BY <1>2, AimsLater DEF ReadGood
<1>4. Ahead(us, pr, r.cur.n)
  <2>1. Ahead(ts, pr, r.cur.n)
    BY DEF ReadGood
  <2> QED BY <1>1, <1>2, <2>1, AheadLater
<1>5. r.cur.n <= Len(ts) /\ (r.st = "read" => r.got.n <= Len(ts))
  BY DEF ReadGood, Aims
<1>k. \A a, n \in Nat : n <= Len(ts) => KeysIn(us, a, n) = KeysIn(ts, a, n)
  BY <1>1, KeysKept
<1>6. KeysIn(us, r.cur.after, r.cur.n) = KeysIn(ts, r.cur.after, r.cur.n)
  BY <1>2, <1>5, <1>k
<1>7. r.st = "read" =>
        /\ KeysIn(us, r.got.after, r.got.n) = KeysIn(ts, r.got.after, r.got.n)
        /\ KeysIn(us, r.first, r.got.n) = KeysIn(ts, r.first, r.got.n)
  BY <1>2, <1>5, <1>k
<1>8. ReadGood(us, gs, pr, r)
  BY <1>3, <1>4 DEF ReadGood
<1>9. \A had \in SUBSET Nat : ReadWhole(ts, had, r) => ReadWhole(us, had, r)
  BY <1>6, <1>7 DEF ReadWhole
<1> QED BY <1>8, <1>9

\* And so do the files that the backfill has listed.
LEMMA ListLater ==
  ASSUME NEW ts \in Seq(Nat), NEW fs \in Seq(LogFile), NEW us \in Seq(Nat), NEW gs \in Seq(LogFile),
         Later(ts, fs, us, gs), Chain(fs, Len(ts)), NEW vs \in Seq(LogFile), ListGood(ts, fs, vs)
  PROVE  /\ ListGood(us, gs, vs)
         /\ \A had, n, cut : n \in Nat /\ Filled(ts, had, vs, n, cut) => Filled(us, had, vs, n, cut)
<1>1. /\ Len(ts) \in Nat /\ Len(us) \in Nat /\ Len(ts) <= Len(us)
      /\ \A n \in 1..Len(ts) : us[n] = ts[n]
      /\ \A id, off, n \in Nat : n <= Len(ts) /\ Points(fs, id, off, n) => Points(gs, id, off, n)
  BY LaterFacts
<1>2. PICK k \in Nat : k = Len(vs) /\ k \in 1..k
  BY FileFields DEF ListGood
<1>3. PICK b \in Nat : b = Base(vs, k)
  BY <1>2, FileFields
<1>4. PICK z \in Nat : z = Size(vs, k)
  BY <1>2, FileFields
<1>5. PICK open \in Nat : open = Base(fs, Len(fs))
  <2>1. Len(fs) \in Nat /\ Len(fs) >= 1
    BY FileFields DEF Chain
  <2>2. Len(fs) \in 1..Len(fs)
    BY <2>1
  <2> QED BY <2>2, FileFields
<1>6. /\ \A i \in 1..k : Id(vs, i) # 0
      /\ \A i \in 1..k - 1 :
           /\ Closes(Size(vs, i), Base(vs, i), Base(vs, i + 1))
           /\ Base(vs, i) < open
           /\ \A j \in 1..Len(fs) : Base(fs, j) = Base(vs, i) => Size(fs, j) = Size(vs, i)
      /\ 2 * b + z <= 2 * Len(ts) + 1
      /\ \A off \in 0 .. z : Points(fs, Id(vs, k), off, LineAt(vs, k, off))
  BY <1>2, <1>3, <1>4, <1>5 DEF ListGood
<1>7. PICK now \in Nat : now = Base(gs, Len(gs)) /\ now >= open
  <2>1. Len(gs) >= 1
    BY LaterFacts DEF Chain
  <2>2. Base(gs, Len(gs)) \in Nat
    BY <2>1, FileFields
  <2> QED BY <1>5, <2>2, LaterFacts
<1>8. \A i \in 1..k - 1 : Base(vs, i) < now
  <2> TAKE i \in 1..k - 1
  <2>1. i \in 1..k
    BY <1>2
  <2>2. Base(vs, i) \in Nat
    BY <1>2, <2>1, FileFields
  <2> QED BY <1>6, <1>7, <2>2
<1>9. \A i \in 1..k - 1, j \in 1..Len(gs) : Base(gs, j) = Base(vs, i) => Size(gs, j) = Size(vs, i)
  <2> TAKE i \in 1..k - 1, j \in 1..Len(gs)
  <2> HAVE Base(gs, j) = Base(vs, i)
  <2>1. i \in 1..k
    BY <1>2
  <2>2. Base(vs, i) \in Nat /\ Base(vs, i) < open
    BY <1>2, <1>6, <2>1, FileFields
  <2>3. PICK l \in 1..Len(fs) : Base(gs, j) = Base(fs, l) /\ Size(gs, j) = Size(fs, l)
    BY <1>5, <2>2 DEF Later
  <2> QED BY <1>6, <2>3
<1>10. \A off \in 0 .. z : Points(gs, Id(vs, k), off, LineAt(vs, k, off))
  <2> TAKE off \in 0 .. z
  <2>1. Points(fs, Id(vs, k), off, LineAt(vs, k, off)) /\ off \in Nat /\ Id(vs, k) \in Nat
    BY <1>2, <1>6, FileFields
  <2>2. PICK l \in Nat : l = LineAt(vs, k, off) /\ 2 * l <= 2 * b + off /\ 2 * b + off <= 2 * l + 1
    BY <1>2, <1>3, <2>1, LineNamed
  <2>3. l <= Len(ts)
    BY <1>1, <1>6, <2>2
  <2> QED BY <1>1, <2>1, <2>2, <2>3
<1>11. 2 * b + z <= 2 * Len(us) + 1
  BY <1>1, <1>6
<1>12. ListGood(us, gs, vs)
  <2>1. \A i \in 1..k - 1 :
           /\ Closes(Size(vs, i), Base(vs, i), Base(vs, i + 1))
           /\ Base(vs, i) < Base(gs, Len(gs))
           /\ \A j \in 1..Len(gs) : Base(gs, j) = Base(vs, i) => Size(gs, j) = Size(vs, i)
    BY <1>6, <1>7, <1>8, <1>9
  <2> QED BY <1>2, <1>3, <1>4, <1>6, <1>10, <1>11, <2>1 DEF ListGood
<1>13. ASSUME NEW had, NEW n \in Nat, NEW cut, Filled(ts, had, vs, n, cut)
       PROVE  Filled(us, had, vs, n, cut)
  <2>1. n <= Len(ts) /\ \A i \in Base(vs, 1) + 1 .. n : ts[i] > cut => ts[i] \in had
    BY <1>13 DEF Filled
  <2>2. Base(vs, 1) \in Nat
    BY <1>2, FileFields
  <2>3. \A i \in Base(vs, 1) + 1 .. n : us[i] = ts[i]
    <3> TAKE i \in Base(vs, 1) + 1 .. n
    <3>1. i \in 1..Len(ts)
      BY <1>1, <2>1, <2>2
    <3> QED BY <1>1, <3>1
  <2>4. n <= Len(us)
    BY <1>1, <2>1
  <2>5. \A i \in Base(vs, 1) + 1 .. n : us[i] > cut => us[i] \in had
    BY <2>1, <2>3
  <2> QED BY <2>4, <2>5 DEF Filled
<1> QED BY <1>12, <1>13

\* The files of a stream, when they are listed.
LEMMA ListNow ==
  ASSUME NEW ts \in Seq(Nat), NEW fs \in Seq(LogFile), NEW vs \in Seq(LogFile), NEW d \in Nat,
         Suffix(vs, fs, d), Chain(fs, Len(ts))
  PROVE  ListGood(ts, fs, vs) /\ Base(vs, 1) <= Len(ts)
<1>1. Len(ts) \in Nat /\ Chain(vs, Len(ts))
  BY ChainOfNewest, LenProperties
<1>2. PICK k \in Nat : k = Len(vs) /\ k \in 1..k
  BY <1>1, FileFields DEF Chain
<1>3. PICK m \in Nat : m = Len(fs) /\ m = k + d /\ m \in 1..m
  BY <1>2, FileFields, SuffixFields
<1>4. /\ \A i \in 1..k : i + d \in 1..m /\ Base(vs, i) = Base(fs, i + d) /\ Size(vs, i) = Size(fs, i + d)
      /\ \A i \in 1..k, off \in Nat : LineAt(vs, i, off) = LineAt(fs, i + d, off)
      /\ Id(vs, k) = Id(fs, m) /\ Base(vs, k) = Base(fs, m) /\ Size(vs, k) = Size(fs, m)
  BY <1>2, <1>3, SuffixFields
<1>5. /\ \A i \in 1..k : Base(vs, i) \in Nat /\ Size(vs, i) \in Nat /\ Id(vs, i) # 0
      /\ \A i \in 1..k - 1 : Closes(Size(vs, i), Base(vs, i), Base(vs, i + 1))
      /\ \A i, j \in 1..k : i < j => 2 * Base(vs, i) + Size(vs, i) <= 2 * Base(vs, j) + 1
      /\ 2 * Base(vs, k) + Size(vs, k) <= 2 * Len(ts) + 1
  BY <1>1, <1>2, FileFields DEF Chain
<1>6. /\ \A i \in 1..m : Base(fs, i) \in Nat /\ Size(fs, i) \in Nat
      /\ \A i \in 1..m - 1 : Closes(Size(fs, i), Base(fs, i), Base(fs, i + 1))
      /\ \A i, j \in 1..m : i < j => 2 * Base(fs, i) + Size(fs, i) <= 2 * Base(fs, j) + 1
  BY <1>3, FileFields DEF Chain
<1>7. \A i, j \in 1..m : i < j => Base(fs, i) < Base(fs, j)
  <2> TAKE i, j \in 1..m
  <2> HAVE i < j
  <2>1. PICK b \in Nat : b = Base(fs, i)
    BY <1>6
  <2>2. PICK z \in Nat : z = Size(fs, i)
    BY <1>6
  <2>3. PICK e \in Nat : e = Base(fs, j)
    BY <1>6
  <2>4. i \in 1..m - 1
    OBVIOUS
  <2>5. z > 1 /\ 2 * b + z <= 2 * e + 1
    BY <1>6, <2>1, <2>2, <2>3, <2>4 DEF Closes
  <2>6. b < e
    BY <2>5
  <2> QED BY <2>1, <2>3, <2>6
<1>8. \A i \in 1..k - 1 :
        /\ Base(vs, i) < Base(fs, m)
        /\ \A j \in 1..m : Base(fs, j) = Base(vs, i) => Size(fs, j) = Size(vs, i)
  <2> TAKE i \in 1..k - 1
  <2>1. i \in 1..k /\ i + d \in 1..m /\ i + d < m
    BY <1>3
  <2>2. Base(vs, i) < Base(fs, m)
    BY <1>3, <1>4, <1>7, <2>1
  <2>3. ASSUME NEW j \in 1..m, Base(fs, j) = Base(vs, i)
        PROVE  Size(fs, j) = Size(vs, i)
    <3>1. Base(fs, j) = Base(fs, i + d) /\ Base(fs, j) \in Nat
      BY <1>4, <1>6, <2>1, <2>3
    <3>2. ~ (j < i + d) /\ ~ (i + d < j)
      BY <1>7, <2>1, <3>1
    <3>3. j = i + d
      BY <2>1, <3>2
    <3> QED BY <1>4, <2>1, <3>3
  <2> QED BY <2>2, <2>3
<1>9. \A off \in 0 .. Size(vs, k) : Points(fs, Id(vs, k), off, LineAt(vs, k, off))
  <2> TAKE off \in 0 .. Size(vs, k)
  <2>1. off \in Nat /\ off <= Size(fs, m)
    BY <1>2, <1>4, <1>5
  <2>2. Points(fs, Id(fs, m), off, LineAt(fs, m, off))
    BY <1>1, <1>3, <2>1, PointsInFile
  <2>3. LineAt(vs, k, off) = LineAt(fs, m, off)
    BY <1>2, <1>3, <1>4, <2>1
  <2> QED BY <1>4, <2>2, <2>3
<1>10. ListGood(ts, fs, vs)
  BY <1>2, <1>3, <1>5, <1>8, <1>9 DEF ListGood
<1>11. Base(vs, 1) <= Len(ts)
  <2>1. 1 \in 1..k
    BY <1>2
  <2>2. 0 \in Nat /\ 0 <= Size(vs, 1)
    BY <1>5, <2>1
  <2>3. LineAt(vs, 1, 0) <= Len(ts)
    BY <1>1, <1>2, <2>1, <2>2, PointsInFile
  <2>4. Base(vs, 1) \in Nat
    BY <1>5, <2>1
  <2>5. LineAt(vs, 1, 0) = Base(vs, 1)
    BY <2>4 DEF LineAt, Base
  <2> QED BY <2>3, <2>5
<1> QED BY <1>10, <1>11

-----------------------------------------------------------------------------
(* What a read of a stream returns.                                         *)

\* Where the read starts: in a file that is long enough, not before the cursor.
LEMMA ResumeGood ==
  ASSUME NEW vs \in Seq(LogFile), NEW lines \in Nat, Chain(vs, lines), Len(vs) <= 3,
         NEW cur \in Cursor, cur.id = 0 => cur.n = 0, cur.id # 0 => Points(vs, cur.id, cur.off, cur.n),
         NEW r, r = ResumeAt(vs, cur)
  PROVE  /\ r.at \in 1..Len(vs) /\ r.off \in Nat /\ r.off <= Size(vs, r.at)
         /\ cur.n <= LineAt(vs, r.at, r.off)
         /\ r.gap \/ cur.id = 0 \/ r.off = cur.off
<1>1. PICK k \in Nat : k = Len(vs) /\ k \in 1..k
  BY FileFields DEF Chain
<1>2. cur.id \in Nat /\ cur.off \in Nat /\ cur.n \in Nat
  BY DEF Cursor
<1>3. \A i \in 1..k : Id(vs, i) \in Nat /\ Base(vs, i) \in Nat /\ Size(vs, i) \in Nat
  BY <1>1, FileFields
<1>4. LineAt(vs, k, 0) = Base(vs, k)
  <2>1. Base(vs, k) \in Nat
    BY <1>1, <1>3
  <2> QED BY <2>1 DEF LineAt, Base
<1> DEFINE exact == {i \in 1..k : Id(vs, i) = cur.id /\ Size(vs, i) >= cur.off}
           older == {i \in 1..k - 1 : Size(vs, i) >= cur.off}
<1>5. r = IF cur.id = 0 THEN [at |-> k, off |-> 0, gap |-> FALSE]
          ELSE IF exact # {} THEN [at |-> CHOOSE i \in exact : TRUE, off |-> cur.off, gap |-> FALSE]
          ELSE IF Id(vs, k) = cur.id /\ older # {}
               THEN [at |-> CHOOSE i \in older : \A j \in older : j <= i,
                     off |-> cur.off, gap |-> FALSE]
          ELSE [at |-> k, off |-> 0, gap |-> TRUE]
  BY <1>1 DEF ResumeAt, Id, Size
<1>6. CASE cur.id = 0
  <2>1. r = [at |-> k, off |-> 0, gap |-> FALSE]
    BY <1>5, <1>6
  <2>2. r.at = k /\ r.off = 0
    BY <2>1
  <2>3. cur.n = 0 /\ Base(vs, k) \in Nat /\ Size(vs, k) \in Nat
    BY <1>1, <1>3, <1>6
  <2>4. cur.n <= LineAt(vs, r.at, r.off) /\ r.off <= Size(vs, r.at)
    BY <1>4, <2>2, <2>3
  <2> QED BY <1>1, <1>6, <2>2, <2>4
<1>7. CASE cur.id # 0
  <2>0. /\ \A i \in 1..k : Id(vs, i) = cur.id => LineAt(vs, i, cur.off) >= cur.n
        /\ cur.n > Base(vs, k) => Id(vs, k) = cur.id /\ cur.off <= Size(vs, k)
        /\ \A i \in 1..k : cur.off <= Size(vs, i) =>
             \E j \in i..k : cur.off <= Size(vs, j) /\ LineAt(vs, j, cur.off) >= cur.n
    BY <1>1, <1>7 DEF Points
  <2>1. CASE exact # {}
    <3>1. PICK i \in exact : i = CHOOSE j \in exact : TRUE
      BY <2>1
    <3>2. r = [at |-> i, off |-> cur.off, gap |-> FALSE]
      BY <1>5, <1>7, <2>1, <3>1
    <3>3. r.at = i /\ r.off = cur.off
      BY <3>2
    <3>4. i \in 1..k /\ Id(vs, i) = cur.id /\ Size(vs, i) >= cur.off
      OBVIOUS
    <3>5. LineAt(vs, i, cur.off) >= cur.n /\ LineAt(vs, i, cur.off) \in Nat
      BY <1>1, <1>2, <2>0, <3>4, LineBounds
    <3> QED BY <1>1, <1>2, <1>3, <3>3, <3>4, <3>5
  <2>2. CASE exact = {} /\ Id(vs, k) = cur.id /\ older # {}
    <3>1. \E i \in older : \A j \in older : j <= i
      <4>1. (\A j \in older : j = 1 \/ j = 2) /\ older # {}
        <5>1. \A i \in 1..k - 1 : i = 1 \/ i = 2
          BY <1>1
        <5> QED BY <2>2, <5>1
      <4> HIDE DEF older
      <4>2. CASE 2 \in older
        BY <4>1, <4>2
      <4>3. CASE 2 \notin older
        BY <4>1, <4>3
      <4> QED BY <4>2, <4>3
    <3>2. PICK i \in older : i = (CHOOSE l \in older : \A j \in older : j <= l) /\ \A j \in older : j <= i
      BY <3>1
    <3>3. r = [at |-> i, off |-> cur.off, gap |-> FALSE]
      BY <1>5, <1>7, <2>2, <3>2
    <3>4. r.at = i /\ r.off = cur.off
      BY <3>3
    <3>5. i \in 1..k /\ i \in 1..k - 1 /\ Size(vs, i) >= cur.off
      BY <1>1
    <3>6. PICK j \in i..k : cur.off <= Size(vs, j) /\ LineAt(vs, j, cur.off) >= cur.n
      BY <1>2, <1>3, <2>0, <3>5
    <3>7. j # k
      BY <1>1, <1>2, <1>3, <2>2, <3>6
    <3>8. j \in older
      BY <1>2, <1>3, <3>5, <3>6, <3>7
    <3>9. j = i
      BY <3>2, <3>6, <3>8
    <3>10. LineAt(vs, i, cur.off) \in Nat
      BY <1>1, <1>2, <3>5, LineBounds
    <3> QED BY <1>1, <1>2, <1>3, <3>4, <3>5, <3>6, <3>9, <3>10
  <2>3. CASE exact = {} /\ ~ (Id(vs, k) = cur.id /\ older # {})
    <3>1. r = [at |-> k, off |-> 0, gap |-> TRUE]
      BY <1>5, <1>7, <2>3
    <3>2. r.at = k /\ r.off = 0 /\ r.gap
      BY <3>1
    <3>3. Base(vs, k) \in Nat /\ Size(vs, k) \in Nat
      BY <1>1, <1>3
    <3>4. ~ cur.n > Base(vs, k)
      BY <1>1, <1>2, <2>0, <2>3, <3>3
    <3>5. cur.n <= LineAt(vs, r.at, r.off) /\ r.off <= Size(vs, r.at)
      BY <1>2, <1>4, <3>2, <3>3, <3>4
    <3> QED BY <1>1, <3>2, <3>5
  <2> QED BY <2>1, <2>2, <2>3
<1> QED BY <1>6, <1>7

\* The file in which it stops: each file before it is read to its last line.
LEMMA StopGood ==
  ASSUME NEW vs \in Seq(LogFile), NEW k \in Nat, k = Len(vs), k <= 3,
         NEW at \in 1..k, NEW off, \A i \in at..k : Through(vs, at, off, i) \in Int,
         NEW e, e = StopFile(vs, at, off)
  PROVE  /\ e \in at..k
         /\ \A j \in at..e - 1 : Through(vs, at, off, j) < Limit /\ Size(vs, j) % 2 # 1
<1> DEFINE S(i) == Stops(vs, at, off, i)
           First(i) == S(i) /\ \A j \in at..i - 1 : ~S(j)
<1>1. S(k)
  BY DEF Stops
<1>2. e = CHOOSE i \in at..k : First(i)
  BY DEF StopFile
<1>3. \A i \in at..k : ~S(i) => Through(vs, at, off, i) < Limit /\ Size(vs, i) % 2 # 1
  <2>1. Limit \in Nat
    BY CollectAssumption
  <2>2. \A i \in at..k : ~S(i) => ~ Through(vs, at, off, i) >= Limit
    BY DEF Stops
  <2>3. \A i \in at..k : ~S(i) => Size(vs, i) % 2 # 1
    BY DEF Stops, Size
  <2> QED BY <2>1, <2>2, <2>3
<1> HIDE DEF S
<1>4. \E i \in at..k : First(i)
  <2>1. CASE S(at)
    <3>1. at \in at..k /\ First(at)
      BY <2>1
    <3> QED BY <3>1
  <2>2. CASE ~S(at) /\ S(at + 1)
    <3>1. \A j \in at..(at + 1) - 1 : j = at
      OBVIOUS
    <3>2. at + 1 \in at..k
      BY <1>1, <2>2
    <3>3. First(at + 1)
      BY <2>2, <3>1
    <3> QED BY <3>2, <3>3
  <2>3. CASE ~S(at) /\ ~S(at + 1)
    <3>1. at = 1 /\ k = 3
      <4>1. at # k /\ at + 1 # k
        BY <1>1, <2>3
      <4> QED BY <4>1
    <3>2. \A j \in at..3 - 1 : j = 1 \/ j = 2
      BY <3>1
    <3>3. 3 \in at..k /\ First(3)
      BY <1>1, <2>3, <3>1, <3>2
    <3> QED BY <3>3
  <2> QED BY <2>1, <2>2, <2>3
<1> HIDE DEF First
<1>5. e \in at..k /\ First(e)
  BY <1>2, <1>4
<1>6. \A j \in at..e - 1 : j \in at..k
  BY <1>5
<1> QED BY <1>3, <1>5, <1>6 DEF First

\* What a read returns: a place in one of the files, not before the line from
\* which it was read, and that line, which is not before the cursor; it is the
\* cursor's line, or the run collects from it, or the reader has been moved.
LEMMA DeltaGood ==
  ASSUME NEW vs \in Seq(LogFile), NEW lines \in Nat, Chain(vs, lines), Len(vs) <= 3,
         NEW cur \in Cursor, cur.id = 0 => cur.n = 0,
         cur.id # 0 => Points(vs, cur.id, cur.off, cur.n),
         NEW d, d = Delta(vs, cur)
  PROVE  /\ d.first \in Nat /\ d.got \in Cursor
         /\ cur.n <= d.first /\ d.first <= d.got.n
         /\ \E e \in 1..Len(vs), h \in Nat :
              /\ 2 * h <= Size(vs, e)
              /\ d.got.id = Id(vs, e) /\ d.got.off = 2 * h /\ d.got.n = Base(vs, e) + h
         /\ \/ d.got.after = d.first
            \/ d.got.after = cur.after /\ d.first = cur.n
            \/ d.skips
<1>1. PICK k \in Nat : k = Len(vs) /\ k \in 1..k /\ k <= 3
  BY FileFields DEF Chain
<1>2. cur.id \in Nat /\ cur.off \in Nat /\ cur.n \in Nat /\ cur.after \in Nat /\ Limit \in Nat /\ Limit >= 2
  BY CollectAssumption DEF Cursor
<1>3. /\ \A i \in 1..k : Id(vs, i) \in Nat /\ Base(vs, i) \in Nat /\ Size(vs, i) \in Nat
      /\ \A i \in 1..k - 1 : Closes(Size(vs, i), Base(vs, i), Base(vs, i + 1))
      /\ \A i, j \in 1..k : i < j => 2 * Base(vs, i) + Size(vs, i) <= 2 * Base(vs, j) + 1
  BY <1>1, FileFields DEF Chain
<1> DEFINE r == ResumeAt(vs, cur)
<1> HIDE DEF r
<1>4. /\ r.at \in 1..k /\ r.off \in Nat /\ r.off <= Size(vs, r.at)
      /\ cur.n <= LineAt(vs, r.at, r.off)
      /\ r.gap \/ cur.id = 0 \/ r.off = cur.off
  BY <1>1, ResumeGood DEF r
<1>5. PICK at \in 1..k : at = r.at
  BY <1>4
<1>6. PICK off \in Nat : off = r.off
  BY <1>4
<1>7. PICK ba \in Nat : ba = Base(vs, at)
  BY <1>3
<1>8. PICK za \in Nat : za = Size(vs, at) /\ off <= za
  BY <1>3, <1>4, <1>5, <1>6
<1>9. \A i \in at..k : i \in 1..k /\ Through(vs, at, off, i) = 2 * (Base(vs, i) - ba) + Size(vs, i) - off
  BY <1>7 DEF Through, Base, Size
<1>10. \A i \in at..k : Through(vs, at, off, i) \in Int
  <2> TAKE i \in at..k
  <2>1. PICK b \in Nat : b = Base(vs, i)
    BY <1>3
  <2>2. PICK z \in Nat : z = Size(vs, i)
    BY <1>3
  <2>3. Through(vs, at, off, i) = 2 * (b - ba) + z - off
    BY <1>9, <2>1, <2>2
  <2> QED BY <2>3
<1> DEFINE stop == StopFile(vs, at, off)
<1> HIDE DEF stop
<1>11. /\ stop \in at..k
       /\ \A j \in at..stop - 1 : Through(vs, at, off, j) < Limit /\ Size(vs, j) % 2 # 1
  BY <1>1, <1>10, StopGood DEF stop
<1>12. PICK e \in at..k : e = stop
  BY <1>11
<1>13. PICK be \in Nat : be = Base(vs, e)
  BY <1>3
<1>14. PICK ze \in Nat : ze = Size(vs, e)
  BY <1>3
<1>15. PICK th \in Int : th = Through(vs, at, off, e) /\ th = 2 * (be - ba) + ze - off
  BY <1>9, <1>10, <1>13, <1>14
<1> DEFINE end == off + Least(th, Limit) - 2 * (be - ba)
<1>16. PICK last \in Nat : /\ last = end /\ last <= ze
                           /\ \/ be = ba /\ off <= last
                              \/ 2 * ba + off <= 2 * be
  <2>1. CASE e = at
    <3>1. be = ba /\ ze = za
      BY <1>7, <1>8, <1>13, <1>14, <2>1
    <3>a. th = 2 * (be - ba) + ze - off
      BY <1>15
    <3>b. off <= ze
      BY <1>8, <3>1
    <3>c. th = ze - off
      BY <3>1, <3>a
    <3>d. \A x, y \in Nat : x <= y => y - x >= 0
      OBVIOUS
    <3>2. th = ze - off /\ th >= 0
      BY <3>b, <3>c, <3>d
    <3>3. PICK l \in Nat : l = Least(th, Limit) /\ l <= th
      <4>1. th \in Nat
        BY <3>2
      <4>2. \A x, y \in Nat : Least(x, y) \in Nat /\ Least(x, y) <= x
        BY DEF Least
      <4> QED BY <1>2, <4>1, <4>2
    <3>4. end = off + l
      BY <3>1, <3>3
    <3>5. end \in Nat /\ end <= ze /\ off <= end
      BY <3>2, <3>3, <3>4
    <3> QED BY <3>1, <3>5
  <2>2. CASE e # at
    <3>1. e - 1 \in at..e - 1 /\ e - 1 \in 1..k - 1 /\ e - 1 \in at..k /\ (e - 1) + 1 = e /\ at < e
      BY <2>2
    <3>2. PICK bp \in Nat : bp = Base(vs, e - 1)
      BY <1>3, <1>9, <3>1
    <3>3. PICK zp \in Nat : zp = Size(vs, e - 1) /\ 2 * (be - bp) <= zp
      BY <1>3, <1>13, <3>1, <3>2 DEF Closes
    <3>4. Through(vs, at, off, e - 1) = 2 * (bp - ba) + zp - off
      BY <1>9, <3>1, <3>2, <3>3
    <3>5. Through(vs, at, off, e - 1) < Limit
      BY <1>11, <1>12, <3>1
    <3>6. 2 * (be - ba) - off < Limit
      BY <1>2, <3>3, <3>4, <3>5
    <3>7. 2 * ba + za <= 2 * be
      <4>1. 2 * ba + za <= 2 * be + 1
        BY <1>3, <1>7, <1>8, <1>13, <3>1
      <4>2. za % 2 # 1
        BY <1>8, <1>11, <1>12, <3>1
      <4>3. za = 2 * (za \div 2) /\ za \div 2 \in Nat
        BY <4>2, Halves
      <4>4. PICK x \in Nat : za = 2 * x
        BY <4>3
      <4> QED BY <4>1, <4>4
    <3>8. 2 * ba + off <= 2 * be /\ th >= ze
      BY <1>8, <1>15, <3>7
    <3>9. PICK l \in Nat : l = Least(th, Limit) /\ l <= th /\ (l = th \/ l = Limit)
      BY <1>2, <3>8 DEF Least
    <3>10. end = off + l - 2 * (be - ba)
      BY <3>9
    <3>11. CASE l = th
      <4>1. end = ze
        BY <1>15, <3>10, <3>11
      <4> QED BY <3>8, <4>1
    <3>12. CASE l = Limit
      <4>1. end \in Nat /\ end <= ze
        BY <1>2, <1>15, <3>6, <3>9, <3>10, <3>12
      <4> QED BY <3>8, <4>1
    <3> QED BY <3>9, <3>11, <3>12
  <2> QED BY <2>1, <2>2
<1> HIDE DEF end
<1>17. PICK h \in Nat : h = last \div 2 /\ 2 * h <= last /\ last <= 2 * h + 1
  BY Halves
<1>18. PICK first \in Nat : first = LineAt(vs, at, off) /\ 2 * first <= 2 * ba + off /\ 2 * ba + off <= 2 * first + 1
  BY <1>1, <1>7, LineNamed
<1>19. cur.n <= first
  BY <1>4, <1>5, <1>6, <1>18
<1>20. first <= be + h
  <2>1. CASE be = ba /\ off <= last
    BY <1>17, <1>18, <2>1
  <2>2. CASE 2 * ba + off <= 2 * be
    BY <1>18, <2>2
  <2> QED BY <1>16, <2>1, <2>2
<1> DEFINE after == IF r.gap \/ cur.id = 0 THEN first ELSE cur.after
           skips == ~r.gap /\ cur.id # 0 /\ off = cur.off /\ first # cur.n
           got == [id |-> Id(vs, e), off |-> 2 * h, n |-> be + h, after |-> after]
<1>21. d = [first |-> first, skips |-> skips, got |-> got]
  BY <1>5, <1>6, <1>7, <1>12, <1>13, <1>15, <1>16, <1>17, <1>18
  DEF Delta, r, stop, end, LineAt, Id, Base
<1>22. after = first \/ (after = cur.after /\ first = cur.n) \/ skips
  BY <1>4, <1>6
<1>23. after \in Nat
  BY <1>2
<1> HIDE DEF after, skips
<1>24. /\ got.id = Id(vs, e) /\ got.off = 2 * h /\ got.n = be + h /\ got.after = after
       /\ got \in Cursor
  <2>1. Id(vs, e) \in Nat /\ 2 * h \in Nat /\ be + h \in Nat
    BY <1>3
  <2> QED BY <1>23, <2>1 DEF Cursor
<1> HIDE DEF got
<1>25. d.first = first /\ d.got = got /\ d.skips = skips
  BY <1>21
<1>26. e \in 1..Len(vs) /\ 2 * h <= Size(vs, e) /\ be = Base(vs, e)
  BY <1>1, <1>13, <1>14, <1>16, <1>17
<1> QED BY <1>19, <1>20, <1>22, <1>24, <1>25, <1>26
-----------------------------------------------------------------------------
(* The steps of the node.                                                   *)

\* A line is appended that is not before the last one.
LEMMA LinesAppend ==
  ASSUME NEW ts \in Seq(Nat), Lines(ts), NEW n \in 1..Len(ts) + 1, \A i \in 1..Len(ts) : ts[i] <= n,
         NEW us, us = Append(ts, n)
  PROVE  /\ us \in Seq(Nat) /\ Len(us) = Len(ts) + 1 /\ Lines(us)
         /\ \A i \in 1..Len(ts) : us[i] = ts[i]
<1>1. Len(ts) \in Nat /\ \A i \in 1..Len(ts) : ts[i] \in Nat
  BY LenProperties, ElementOfSeq
<1>2. /\ us \in Seq(Nat) /\ Len(us) = Len(ts) + 1
      /\ \A i \in 1..Len(ts) : us[i] = ts[i]
      /\ us[Len(ts) + 1] = n
  BY AppendProperties, <1>1
<1>3. \A i \in 1..Len(us) : i \in 1..Len(ts) \/ i = Len(ts) + 1
  BY <1>1, <1>2
<1>4. \A i \in 1..Len(us) : us[i] \in 1..i
  <2>1. \A i \in 1..Len(ts) : ts[i] \in 1..i
    BY DEF Lines
  <2> QED BY <1>1, <1>2, <1>3, <2>1
<1>5. \A i, j \in 1..Len(us) : i <= j => us[i] <= us[j]
  <2> TAKE i, j \in 1..Len(us)
  <2> HAVE i <= j
  <2>1. CASE j \in 1..Len(ts)
    <3>1. i \in 1..Len(ts)
      BY <1>1, <2>1
    <3> QED BY <1>2, <2>1, <3>1 DEF Lines
  <2>2. CASE j = Len(ts) + 1 /\ i \in 1..Len(ts)
    BY <1>2, <2>2
  <2>3. CASE j = Len(ts) + 1 /\ i = Len(ts) + 1
    BY <1>2, <2>3
  <2> QED BY <1>3, <2>1, <2>2, <2>3
<1> QED BY <1>2, <1>4, <1>5 DEF Lines

\* The open file grows.
LEMMA WriteFile ==
  ASSUME NEW fs \in Seq(LogFile), NEW k \in Nat, k = Len(fs), k >= 1, NEW w \in Nat,
         NEW gs, gs = [fs EXCEPT ![k] = [fs[k] EXCEPT !.size = fs[k].size + w]]
  PROVE  gs \in Seq(LogFile) /\ Written(fs, gs, k, Base(fs, k), Size(fs, k), w)
<1>1. \A i \in 1..k : fs[i] \in LogFile
  BY ElementOfSeq
<1> DEFINE f == [fs[k] EXCEPT !.size = fs[k].size + w]
<1>2. k \in 1..k /\ fs[k] \in LogFile
  BY <1>1
<1>3. /\ f \in LogFile /\ f.id = fs[k].id /\ f.base = fs[k].base /\ f.size = fs[k].size + w
  <2>1. PICK g \in LogFile : g = fs[k]
    BY <1>2
  <2>2. PICK z \in Nat : z = g.size + w
    BY DEF LogFile
  <2>3. f = [g EXCEPT !.size = z]
    BY <2>1, <2>2
  <2>4. [g EXCEPT !.size = z] \in LogFile
    BY DEF LogFile
  <2>5. f.id = g.id /\ f.base = g.base /\ f.size = z
    BY <2>3 DEF LogFile
  <2> QED BY <2>1, <2>2, <2>3, <2>4, <2>5
<1> HIDE DEF f
<1>4. gs = [fs EXCEPT ![k] = f]
  BY DEF f
<1>5. gs \in Seq(LogFile) /\ Len(gs) = k /\ \A i \in 1..k : gs[i] = IF i = k THEN f ELSE fs[i]
  BY <1>2, <1>3, <1>4, ExceptSeq
<1>6. \A i \in 1..k : i # k => gs[i] = fs[i]
  BY <1>5
<1>7. gs[k] = f
  BY <1>2, <1>5
<1> QED BY <1>2, <1>3, <1>5, <1>6, <1>7 DEF Written, Id, Base, Size

\* The open file in half lines: whether it ends inside a line, and where.
LEMMA OpenFile ==
  ASSUME NEW fs \in Seq(LogFile), NEW lines \in Nat, Chain(fs, lines)
  PROVE  \E k, b, z \in Nat :
           /\ k = Len(fs) /\ k >= 1 /\ k \in 1..k /\ b = Base(fs, k) /\ z = Size(fs, k)
           /\ 2 * lines <= 2 * b + z /\ 2 * b + z <= 2 * lines + 1
           /\ b + z \div 2 = lines /\ (z % 2 = 0 => 2 * lines = 2 * b + z)
           /\ z % 2 = 1 => 2 * lines + 1 = 2 * b + z
<1>1. PICK k \in Nat : k = Len(fs) /\ k >= 1 /\ k \in 1..k
  BY FileFields DEF Chain
<1>2. PICK b \in Nat : b = Base(fs, k)
  BY <1>1, FileFields
<1>3. PICK z \in Nat : z = Size(fs, k)
  BY <1>1, FileFields
<1>4. 2 * lines <= 2 * b + z /\ 2 * b + z <= 2 * lines + 1
  BY <1>1, <1>2, <1>3 DEF Chain
<1>5. PICK h \in Nat : h = z \div 2 /\ z % 2 = z - 2 * h /\ 2 * h <= z /\ z <= 2 * h + 1
  BY Halves
<1>6. b + z \div 2 = lines /\ (z % 2 = 0 => 2 * lines = 2 * b + z)
  BY <1>4, <1>5
<1>7. z % 2 = 1 => 2 * lines + 1 = 2 * b + z
  BY <1>4, <1>5
<1> QED BY <1>1, <1>2, <1>3, <1>4, <1>6, <1>7

\* A new file is opened behind the open one.
LEMMA RenameFile ==
  ASSUME NEW fs \in Seq(LogFile), NEW k \in Nat, k = Len(fs), k >= 1, NEW m \in Nat,
         NEW gs, gs = Append(fs, File(m + 10, m, 0))
  PROVE  gs \in Seq(LogFile) /\ Rotated(fs, gs, k, Base(fs, k), Size(fs, k), m)
<1> DEFINE g == File(m + 10, m, 0)
<1>1. g \in LogFile /\ g.id = m + 10 /\ g.base = m /\ g.size = 0
  BY DEF LogFile, File
<1> HIDE DEF g
<1>2. /\ gs \in Seq(LogFile) /\ Len(gs) = k + 1
      /\ \A i \in 1..k : gs[i] = fs[i]
      /\ gs[k + 1] = g
  BY <1>1, AppendProperties DEF g
<1>3. k \in 1..k
  OBVIOUS
<1> QED BY <1>1, <1>2, <1>3 DEF Rotated, Id, Base, Size

\* The open file is copied and emptied.
LEMMA TruncateFile ==
  ASSUME NEW fs \in Seq(LogFile), NEW k \in Nat, k = Len(fs), k >= 1, NEW m \in Nat,
         NEW gs, gs = SubSeq(fs, 1, k - 1) \o <<File(m + 10, fs[k].base, fs[k].size),
                                                 File(fs[k].id, m, 0)>>
  PROVE  gs \in Seq(LogFile) /\ Rotated(fs, gs, k, Base(fs, k), Size(fs, k), m)
<1> DEFINE c == File(m + 10, fs[k].base, fs[k].size)
           g == File(fs[k].id, m, 0)
           hs == SubSeq(fs, 1, k - 1)
<1>0. fs[k] \in LogFile
  BY ElementOfSeq
<1>1. /\ c \in LogFile /\ c.id = m + 10 /\ c.base = fs[k].base /\ c.size = fs[k].size
      /\ g \in LogFile /\ g.id = fs[k].id /\ g.base = m /\ g.size = 0
  BY SMTT(20), <1>0 DEF LogFile, File
<1> HIDE DEF c, g
<1>2. <<c, g>> \in Seq(LogFile) /\ Len(<<c, g>>) = 2 /\ <<c, g>>[1] = c /\ <<c, g>>[2] = g
  BY <1>1
<1>3. hs \in Seq(LogFile) /\ Len(hs) = k - 1 /\ \A i \in 1..k - 1 : hs[i] = fs[i]
  <2>1. 1 \in 1..Len(fs) + 1 /\ k - 1 \in 1 - 1 .. Len(fs)
    OBVIOUS
  <2>2. /\ hs \in Seq(LogFile)
        /\ Len(hs) = IF 1 <= k - 1 THEN (k - 1) - 1 + 1 ELSE 0
        /\ \A i \in 1 .. (k - 1) - 1 + 1 : hs[i] = fs[1 + i - 1]
    BY <2>1, SubSeqProperties
  <2>3. \A i \in 1..k - 1 : i \in 1 .. (k - 1) - 1 + 1 /\ 1 + i - 1 = i
    OBVIOUS
  <2> QED BY <2>2, <2>3
<1> HIDE DEF hs
<1> DEFINE t == <<c, g>>
<1>a. t \in Seq(LogFile) /\ Len(t) = 2 /\ t[1] = c /\ t[2] = g
  BY <1>2
<1>b. gs = hs \o t
  BY DEF hs, c, g
<1> HIDE DEF t
<1>4. /\ gs \in Seq(LogFile) /\ Len(gs) = (k - 1) + 2
      /\ \A i \in 1 .. (k - 1) + 2 : gs[i] = IF i <= k - 1 THEN hs[i] ELSE t[i - (k - 1)]
  <2>1. /\ hs \o t \in Seq(LogFile)
        /\ Len(hs \o t) = Len(hs) + Len(t)
        /\ \A i \in 1 .. Len(hs) + Len(t) :
             (hs \o t)[i] = IF i <= Len(hs) THEN hs[i] ELSE t[i - Len(hs)]
    BY <1>3, <1>a, ConcatProperties
  <2> QED BY <2>1, <1>3, <1>a, <1>b
<1>5. \A i \in 1..k : i # k => gs[i] = fs[i]
  <2> TAKE i \in 1..k
  <2> HAVE i # k
  <2>1. i \in 1..(k - 1) + 2 /\ i <= k - 1 /\ i \in 1..k - 1
    OBVIOUS
  <2> QED BY <1>3, <1>4, <2>1
<1>6. gs[k] = c /\ gs[k + 1] = g
  <2>1. k \in 1..(k - 1) + 2 /\ ~ k <= k - 1 /\ k - (k - 1) = 1
    OBVIOUS
  <2>2. k + 1 \in 1..(k - 1) + 2 /\ ~ k + 1 <= k - 1 /\ (k + 1) - (k - 1) = 2
    OBVIOUS
  <2> QED BY <1>4, <1>a, <2>1, <2>2
<1>7. Len(gs) = k + 1
  BY <1>4
<1>8. \A i \in 1..k : /\ i # k => Id(gs, i) = Id(fs, i)
                      /\ Base(gs, i) = Base(fs, i) /\ Size(gs, i) = Size(fs, i)
  BY <1>1, <1>5, <1>6 DEF Id, Base, Size
<1>9. Id(gs, k) = m + 10 /\ Id(gs, k + 1) = Id(fs, k) /\ Base(gs, k + 1) = m /\ Size(gs, k + 1) = 0
  BY <1>1, <1>6 DEF Id, Base, Size
<1> QED BY <1>4, <1>7, <1>8, <1>9 DEF Rotated

\* A stream is later than itself.
LEMMA LaterSelf ==
  ASSUME NEW ts \in Seq(Nat), NEW fs \in Seq(LogFile), Lines(ts), Chain(fs, Len(ts))
  PROVE  Later(ts, fs, ts, fs)
<1>1. Len(ts) \in Nat /\ Base(fs, Len(fs)) \in Nat
  <2>1. PICK k \in Nat : k = Len(fs) /\ k \in 1..k
    BY FileFields DEF Chain
  <2> QED BY <2>1, FileFields, LenProperties
<1> QED BY <1>1 DEF Later

\* Half a line more: whether or not it completes a line.
LEMMA LogWritten ==
  ASSUME NEW ts \in Seq(Nat), NEW fs \in Seq(LogFile), Lines(ts), Chain(fs, Len(ts)),
         NEW gs, gs = [fs EXCEPT ![Len(fs)] = [fs[Len(fs)] EXCEPT !.size = fs[Len(fs)].size + 1]],
         NEW us, us = IF fs[Len(fs)].size % 2 = 1 THEN Append(ts, Len(ts) + 1) ELSE ts
  PROVE  us \in Seq(Nat) /\ gs \in Seq(LogFile) /\ Later(ts, fs, us, gs)
<1>1. PICK m \in Nat : m = Len(ts)
  BY LenProperties
<1>2. PICK k, b, z \in Nat :
           /\ k = Len(fs) /\ k >= 1 /\ k \in 1..k /\ b = Base(fs, k) /\ z = Size(fs, k)
           /\ 2 * m <= 2 * b + z /\ 2 * b + z <= 2 * m + 1
           /\ b + z \div 2 = m /\ (z % 2 = 0 => 2 * m = 2 * b + z)
           /\ z % 2 = 1 => 2 * m + 1 = 2 * b + z
  BY ZenonT(30), <1>1, OpenFile
<1>3. gs = [fs EXCEPT ![k] = [fs[k] EXCEPT !.size = fs[k].size + 1]]
  BY <1>2
<1>4. gs \in Seq(LogFile) /\ Written(fs, gs, k, b, z, 1)
  <2>1. 1 \in Nat /\ k = Len(fs) /\ k >= 1
    BY <1>2
  <2>2. gs \in Seq(LogFile) /\ Written(fs, gs, k, Base(fs, k), Size(fs, k), 1)
    BY <1>3, <2>1, WriteFile
  <2> QED BY <1>2, <2>2
<1>5. PICK h \in Nat : h = z \div 2 /\ z % 2 = z - 2 * h /\ 2 * h <= z /\ z <= 2 * h + 1
  BY Halves
<1>6. us = IF z % 2 = 1 THEN Append(ts, m + 1) ELSE ts
  BY <1>1, <1>2 DEF Size
<1>7. CASE z % 2 = 1
  <2>1. m + 1 \in 1..Len(ts) + 1
    BY <1>1
  <2>2. \A i \in 1..Len(ts) : ts[i] <= m + 1
    <3> TAKE i \in 1..Len(ts)
    <3>1. ts[i] \in 1..i
      BY DEF Lines
    <3> QED BY <1>1, <3>1
  <2>3. us = Append(ts, m + 1)
    BY <1>6, <1>7
  <2>4. /\ us \in Seq(Nat) /\ Len(us) = Len(ts) + 1 /\ Lines(us)
        /\ \A i \in 1..Len(ts) : us[i] = ts[i]
    BY <2>1, <2>2, <2>3, LinesAppend
  <2>5. PICK n \in Nat : n = m + 1 /\ n = Len(us)
    BY <1>1, <2>4
  <2>6. 2 * n <= 2 * b + z + 1 /\ 2 * b + z + 1 <= 2 * n + 1 /\ Len(ts) <= Len(us)
    BY <1>1, <1>2, <1>7, <2>5
  <2>7. 1 \in Nat
    OBVIOUS
  <2>8. Later(ts, fs, us, gs)
    BY <1>4, <2>4, <2>5, <2>6, <2>7, LaterWrite
  <2> QED BY <1>4, <2>4, <2>8
<1>8. CASE z % 2 # 1
  <2>1. us = ts
    BY <1>6, <1>8
  <2>2. z % 2 = 0
    BY SMTT(20), <1>5, <1>8
  <2>3. 2 * m <= 2 * b + z + 1 /\ 2 * b + z + 1 <= 2 * m + 1 /\ Len(ts) <= Len(us) /\ m = Len(us)
    BY <1>1, <1>2, <2>1, <2>2
  <2>4. us \in Seq(Nat) /\ Lines(us) /\ \A i \in 1..Len(ts) : us[i] = ts[i]
    BY <2>1
  <2>5. 1 \in Nat
    OBVIOUS
  <2>6. Later(ts, fs, us, gs)
    BY <1>4, <2>3, <2>4, <2>5, LaterWrite
  <2> QED BY <1>4, <2>4, <2>6
<1> QED BY <1>7, <1>8

\* The last line once more.
LEMMA LogRepeated ==
  ASSUME NEW ts \in Seq(Nat), NEW fs \in Seq(LogFile), Lines(ts), Chain(fs, Len(ts)),
         NEW gs, gs = [fs EXCEPT ![Len(fs)] = [fs[Len(fs)] EXCEPT !.size = fs[Len(fs)].size + 2]],
         NEW us, us = Append(ts, ts[Len(ts)]), ts # <<>>, fs[Len(fs)].size % 2 = 0
  PROVE  us \in Seq(Nat) /\ gs \in Seq(LogFile) /\ Later(ts, fs, us, gs)
<1>1. PICK m \in Nat : m = Len(ts) /\ m \in 1..m
  <2>1. Len(ts) \in Nat /\ Len(ts) # 0
    BY LenProperties, EmptySeq
  <2> QED BY SMTT(20), <2>1
<1>2. PICK k, b, z \in Nat :
           /\ k = Len(fs) /\ k >= 1 /\ k \in 1..k /\ b = Base(fs, k) /\ z = Size(fs, k)
           /\ 2 * m <= 2 * b + z /\ 2 * b + z <= 2 * m + 1
           /\ b + z \div 2 = m /\ (z % 2 = 0 => 2 * m = 2 * b + z)
           /\ z % 2 = 1 => 2 * m + 1 = 2 * b + z
  BY ZenonT(30), <1>1, OpenFile
<1>3. gs = [fs EXCEPT ![k] = [fs[k] EXCEPT !.size = fs[k].size + 2]]
  BY <1>2
<1>4. gs \in Seq(LogFile) /\ Written(fs, gs, k, b, z, 2)
  <2>1. 2 \in Nat /\ k = Len(fs) /\ k >= 1
    BY <1>2
  <2>2. gs \in Seq(LogFile) /\ Written(fs, gs, k, Base(fs, k), Size(fs, k), 2)
    BY <1>3, <2>1, WriteFile
  <2> QED BY <1>2, <2>2
<1>5. 2 * m = 2 * b + z
  BY <1>2 DEF Size
<1>6. /\ \A i \in 1..m : ts[i] \in 1..i
      /\ \A i, j \in 1..m : i <= j => ts[i] <= ts[j]
  BY <1>1 DEF Lines
<1>7. PICK t \in 1..m : t = ts[m]
  BY <1>1, <1>6
<1>8. t \in 1..Len(ts) + 1 /\ \A i \in 1..Len(ts) : ts[i] <= t
  BY <1>1, <1>6, <1>7
<1>9. us = Append(ts, t)
  BY <1>1, <1>7
<1>10. /\ us \in Seq(Nat) /\ Len(us) = Len(ts) + 1 /\ Lines(us)
       /\ \A i \in 1..Len(ts) : us[i] = ts[i]
  BY <1>8, <1>9, LinesAppend
<1>11. PICK n \in Nat : n = m + 1 /\ n = Len(us)
  BY <1>1, <1>10
<1>12. 2 * n <= 2 * b + z + 2 /\ 2 * b + z + 2 <= 2 * n + 1 /\ Len(ts) <= Len(us)
  BY SMTT(20), <1>1, <1>5, <1>11
<1>13. 2 \in Nat
  OBVIOUS
<1>14. Later(ts, fs, us, gs)
  BY <1>4, <1>10, <1>11, <1>12, <1>13, LaterWrite
<1> QED BY <1>4, <1>10, <1>14

\* A rotated log, of which four files are kept.
LEMMA LogRotated ==
  ASSUME NEW ts \in Seq(Nat), NEW fs \in Seq(LogFile), Lines(ts), Chain(fs, Len(ts)),
         NEW gs \in Seq(LogFile), NEW hs, hs = Newest(gs, 4),
         LinesOf(fs[Len(fs)]) > 0,
         Rotated(fs, gs, Len(fs), Base(fs, Len(fs)), Size(fs, Len(fs)), Len(ts))
  PROVE  hs \in Seq(LogFile) /\ Later(ts, fs, ts, hs)
<1>1. PICK m \in Nat : m = Len(ts)
  BY LenProperties
<1>2. PICK k, b, z \in Nat :
           /\ k = Len(fs) /\ k >= 1 /\ k \in 1..k /\ b = Base(fs, k) /\ z = Size(fs, k)
           /\ 2 * m <= 2 * b + z /\ 2 * b + z <= 2 * m + 1
           /\ b + z \div 2 = m /\ (z % 2 = 0 => 2 * m = 2 * b + z)
           /\ z % 2 = 1 => 2 * m + 1 = 2 * b + z
  BY ZenonT(30), <1>1, OpenFile
<1>3. z > 1
  <2>1. z \div 2 > 0
    BY <1>2 DEF Size, LinesOf
  <2>2. PICK h \in Nat : h = z \div 2 /\ 2 * h <= z
    BY Halves
  <2> QED BY <2>1, <2>2
<1>4. Rotated(fs, gs, k, b, z, m)
  BY <1>1, <1>2
<1>5. Later(ts, fs, ts, gs)
  BY <1>1, <1>2, <1>3, <1>4, LaterRotate
<1>6. Len(gs) >= 1
  BY <1>2, <1>4 DEF Rotated
<1>7. hs \in Seq(LogFile) /\ \E d \in Nat : Suffix(hs, gs, d)
  <2>1. 4 \in Nat /\ 4 >= 1
    OBVIOUS
  <2>2. Newest(gs, 4) \in Seq(LogFile) /\ \E d \in Nat : Suffix(Newest(gs, 4), gs, d)
    BY <1>6, <2>1, NewestFiles
  <2> QED BY <2>2
<1>8. Later(ts, fs, ts, hs)
  BY <1>5, <1>7, LaterNewest
<1> QED BY <1>7, <1>8

\* The line at which a rotation starts the new file.
LEMMA RotationLine ==
  ASSUME NEW ts \in Seq(Nat), NEW fs \in Seq(LogFile), Chain(fs, Len(ts))
  PROVE  /\ fs[Len(fs)].base + LinesOf(fs[Len(fs)]) = Len(ts)
         /\ Len(fs) \in Nat /\ Len(fs) >= 1 /\ Len(ts) \in Nat
<1>1. PICK m \in Nat : m = Len(ts)
  BY LenProperties
<1>2. PICK k, b, z \in Nat :
           /\ k = Len(fs) /\ k >= 1 /\ k \in 1..k /\ b = Base(fs, k) /\ z = Size(fs, k)
           /\ 2 * m <= 2 * b + z /\ 2 * b + z <= 2 * m + 1
           /\ b + z \div 2 = m /\ (z % 2 = 0 => 2 * m = 2 * b + z)
           /\ z % 2 = 1 => 2 * m + 1 = 2 * b + z
  BY ZenonT(30), <1>1, OpenFile
<1>3. b + z \div 2 = m
  BY <1>2
<1>4. fs[Len(fs)].base = b /\ fs[Len(fs)].size = z
  BY <1>2 DEF Base, Size
<1> QED BY <1>1, <1>2, <1>3, <1>4 DEF LinesOf

-----------------------------------------------------------------------------
(* The invariant.                                                           *)

\* What the database has of a stream, or had until the retention.
Had(s) == stored[s] \cup pruned[s]

\* A stream, what a run has read of one, what the backfill has done with one.
StreamKept(s) ==
  /\ StreamGood(text[s], logs[s], cursor[s], stored[s], pruned[s], counted[s], beyond[s])
  /\ ~moved[s] => KeysIn(text[s], cursor[s].after, cursor[s].n) \subseteq Had(s)

ReadKept(c, s) ==
  proc[c].of[s].st # "none" =>
    /\ proc[c].pc = "collect"
    /\ ReadGood(text[s], logs[s], pruned[s], proc[c].of[s])
    /\ ~moved[s] => ReadWhole(text[s], Had(s), proc[c].of[s])

FillGood(s, f) ==
  /\ f.i \in 1..Len(f.files)
  /\ f.pc = "cursor" => f.i = Len(f.files)
  /\ ListGood(text[s], logs[s], f.files)
  /\ ~moved[s] => Filled(text[s], Had(s), f.files, LineAt(f.files, f.i, f.off), f.cut)

FillKept == fill.pc # "idle" => fill.s \in Streams /\ FillGood(fill.s, fill)

Collecting ==
  /\ LogShapes
  /\ \A s \in Streams : StreamKept(s)
  /\ \A c \in Collectors, s \in Streams : ReadKept(c, s)
  /\ FillKept

\* The parts of a state, with their types.
LEMMA Parts ==
  ASSUME LogShapes
  PROVE  /\ \A s \in Streams :
              /\ text[s] \in Seq(Nat) /\ logs[s] \in Seq(LogFile) /\ cursor[s] \in Cursor
              /\ stored[s] \in SUBSET Nat /\ pruned[s] \in SUBSET Nat /\ counted[s] \in Nat
              /\ beyond[s] \in Bit
              /\ Had(s) \in SUBSET Nat
         /\ \A c \in Collectors : proc[c] \in Collection
         /\ \A c \in Collectors, s \in Streams : proc[c].of[s] \in Reading
         /\ fill.files \in Seq(LogFile) /\ fill.i \in Nat /\ fill.off \in Nat /\ fill.cut \in Nat
<1>1. \A s \in Streams :
        /\ text[s] \in Seq(Nat) /\ logs[s] \in Seq(LogFile) /\ cursor[s] \in Cursor
        /\ stored[s] \in SUBSET Nat /\ pruned[s] \in SUBSET Nat /\ counted[s] \in Nat
        /\ beyond[s] \in Bit
  BY DEF LogShapes
<1>2. \A s \in Streams : Had(s) \in SUBSET Nat
  BY <1>1 DEF Had
<1>3. \A c \in Collectors : proc[c] \in Collection
  BY DEF LogShapes
<1>4. \A c \in Collectors, s \in Streams : proc[c].of[s] \in Reading
  BY <1>3 DEF Collection
<1>5. fill.files \in Seq(LogFile) /\ fill.i \in Nat /\ fill.off \in Nat /\ fill.cut \in Nat
  BY DEF LogShapes, Backfill
<1> QED BY <1>1, <1>2, <1>3, <1>4, <1>5

\* Everything that is known of a stream is known of it later.
LEMMA FillLater ==
  ASSUME NEW ts \in Seq(Nat), NEW fs \in Seq(LogFile), NEW us \in Seq(Nat), NEW gs \in Seq(LogFile),
         Later(ts, fs, us, gs), Chain(fs, Len(ts)), NEW vs \in Seq(LogFile), ListGood(ts, fs, vs),
         NEW had, NEW i \in 1..Len(vs), NEW off \in Nat, NEW cut
  PROVE  /\ ListGood(us, gs, vs)
         /\ Filled(ts, had, vs, LineAt(vs, i, off), cut) => Filled(us, had, vs, LineAt(vs, i, off), cut)
<1>1. LineAt(vs, i, off) \in Nat
  BY LineBounds
<1> QED BY <1>1, ListLater

\* A step of the node preserves the invariant.
LEMMA NodeStep ==
  ASSUME Collecting, text' \in [Streams -> Seq(Nat)], logs' \in [Streams -> Seq(LogFile)],
         \A s \in Streams : Later(text[s], logs[s], text'[s], logs'[s]),
         UNCHANGED <<storeVars, proc, fill, moved>>
  PROVE  Collecting'
<1>1. /\ LogShapes /\ \A s \in Streams : StreamKept(s)
      /\ \A c \in Collectors, s \in Streams : ReadKept(c, s)
      /\ FillKept
  BY DEF Collecting
<1>2. LogShapes'
  BY <1>1 DEF LogShapes, storeVars
<1>3. /\ cursor' = cursor /\ stored' = stored /\ counted' = counted /\ pruned' = pruned
      /\ beyond' = beyond /\ proc' = proc /\ fill' = fill /\ moved' = moved
      /\ \A s \in Streams : Had(s)' = Had(s)
  BY DEF storeVars, Had
<1>4. \A s \in Streams :
        /\ text[s] \in Seq(Nat) /\ logs[s] \in Seq(LogFile) /\ cursor[s] \in Cursor
        /\ stored[s] \in SUBSET Nat /\ pruned[s] \in SUBSET Nat /\ counted[s] \in Nat
        /\ Had(s) \in SUBSET Nat
        /\ text'[s] \in Seq(Nat) /\ logs'[s] \in Seq(LogFile)
  BY <1>1, Parts
<1>5. \A s \in Streams :
        /\ Lines(text[s]) /\ Chain(logs[s], Len(text[s])) /\ Aims(text[s], logs[s], cursor[s])
        /\ \A k \in pruned[s] : k <= LastOf(text[s]) - RawSpan
  BY <1>1 DEF StreamKept, StreamGood
<1>6. \A s \in Streams : StreamKept(s)'
  <2> TAKE s \in Streams
  <2>1. StreamGood(text'[s], logs'[s], cursor[s], stored[s], pruned[s], counted[s], beyond[s])
    BY <1>1, <1>4, StreamLater DEF StreamKept
  <2>2. KeysIn(text'[s], cursor[s].after, cursor[s].n) = KeysIn(text[s], cursor[s].after, cursor[s].n)
    <3>1. \A n \in 1..Len(text[s]) : text'[s][n] = text[s][n]
      BY <1>4, LaterFacts
    <3>2. cursor[s].after \in Nat /\ cursor[s].n \in Nat /\ cursor[s].n <= Len(text[s])
      BY <1>4, <1>5 DEF Cursor, Aims
    <3> QED BY <1>4, <3>1, <3>2, KeysKept
  <2> QED BY <1>1, <1>3, <2>1, <2>2 DEF StreamKept
<1>7. \A c \in Collectors, s \in Streams : ReadKept(c, s)'
  <2> TAKE c \in Collectors, s \in Streams
  <2>1. SUFFICES ASSUME proc[c].of[s].st # "none"
                 PROVE  /\ proc[c].pc = "collect"
                        /\ ReadGood(text'[s], logs'[s], pruned[s], proc[c].of[s])
                        /\ ~moved[s] => ReadWhole(text'[s], Had(s), proc[c].of[s])
    BY <1>3 DEF ReadKept
  <2>2. /\ proc[c].pc = "collect"
        /\ ReadGood(text[s], logs[s], pruned[s], proc[c].of[s])
        /\ ~moved[s] => ReadWhole(text[s], Had(s), proc[c].of[s])
    BY <1>1, <2>1 DEF ReadKept
  <2>3. proc[c].of[s] \in Reading
    BY <1>1, Parts
  <2>4. /\ ReadGood(text'[s], logs'[s], pruned[s], proc[c].of[s])
        /\ \A had \in SUBSET Nat : ReadWhole(text[s], had, proc[c].of[s])
                                     => ReadWhole(text'[s], had, proc[c].of[s])
    BY <1>4, <1>5, <2>2, <2>3, ReadLater
  <2> QED BY <1>4, <2>2, <2>4
<1>8. FillKept'
  <2>1. SUFFICES ASSUME fill.pc # "idle"
                 PROVE  fill.s \in Streams /\ FillGood(fill.s, fill)'
    BY <1>3 DEF FillKept
  <2>2. fill.s \in Streams /\ FillGood(fill.s, fill)
    BY <1>1, <2>1 DEF FillKept
  <2>3. PICK s \in Streams : s = fill.s
    BY <2>2
  <2>4. /\ fill.i \in 1..Len(fill.files)
        /\ fill.pc = "cursor" => fill.i = Len(fill.files)
        /\ ListGood(text[s], logs[s], fill.files)
        /\ ~moved[s] => Filled(text[s], Had(s), fill.files, LineAt(fill.files, fill.i, fill.off), fill.cut)
    BY <2>2, <2>3 DEF FillGood
  <2>5. fill.files \in Seq(LogFile) /\ fill.off \in Nat
    BY <1>1, Parts
  <2>6. /\ ListGood(text'[s], logs'[s], fill.files)
        /\ Filled(text[s], Had(s), fill.files, LineAt(fill.files, fill.i, fill.off), fill.cut)
             => Filled(text'[s], Had(s), fill.files, LineAt(fill.files, fill.i, fill.off), fill.cut)
    BY <1>4, <1>5, <2>3, <2>4, <2>5, FillLater
  <2>7. /\ fill.i \in 1..Len(fill.files)
        /\ fill.pc = "cursor" => fill.i = Len(fill.files)
        /\ ListGood(text'[s], logs'[s], fill.files)
        /\ ~moved[s] => Filled(text'[s], Had(s), fill.files, LineAt(fill.files, fill.i, fill.off), fill.cut)
    BY <2>4, <2>6
  <2>8. FillGood(s, fill)'
    BY <1>3, <2>7 DEF FillGood
  <2>9. fill'.s = s
    BY <1>3, <2>3
  <2> QED BY <2>3, <2>8, <2>9 DEF FillGood
<1> QED BY <1>2, <1>6, <1>7, <1>8 DEF Collecting

\* The same for a step that changes one stream.
LEMMA NodeStepAt ==
  ASSUME Collecting, NEW s \in Streams, NEW us \in Seq(Nat), NEW gs \in Seq(LogFile),
         Later(text[s], logs[s], us, gs),
         text' = [text EXCEPT ![s] = us], logs' = [logs EXCEPT ![s] = gs],
         UNCHANGED <<storeVars, proc, fill, moved>>
  PROVE  Collecting'
<1>1. LogShapes /\ \A t \in Streams : StreamKept(t)
  BY DEF Collecting
<1>2. text \in [Streams -> Seq(Nat)] /\ logs \in [Streams -> Seq(LogFile)]
  BY <1>1 DEF LogShapes
<1>3. text' \in [Streams -> Seq(Nat)] /\ logs' \in [Streams -> Seq(LogFile)]
  BY <1>2
<1>4. \A t \in Streams : Later(text[t], logs[t], text'[t], logs'[t])
  <2> TAKE t \in Streams
  <2>1. CASE t = s
    BY <1>2, <2>1
  <2>2. CASE t # s
    <3>1. text'[t] = text[t] /\ logs'[t] = logs[t]
      BY <1>2, <2>2
    <3>2. Lines(text[t]) /\ Chain(logs[t], Len(text[t]))
      BY <1>1 DEF StreamKept, StreamGood
    <3>3. text[t] \in Seq(Nat) /\ logs[t] \in Seq(LogFile)
      BY <1>2
    <3>4. Later(text[t], logs[t], text[t], logs[t])
      BY <3>2, <3>3, LaterSelf
    <3> QED BY <3>1, <3>4
  <2> QED BY <2>1, <2>2
<1> QED BY <1>3, <1>4, NodeStep

\* A stream of a state that is kept, by name.
LEMMA StreamFacts ==
  ASSUME Collecting, NEW s \in Streams
  PROVE  /\ text[s] \in Seq(Nat) /\ logs[s] \in Seq(LogFile) /\ cursor[s] \in Cursor
         /\ stored[s] \in SUBSET Nat /\ pruned[s] \in SUBSET Nat /\ counted[s] \in Nat
         /\ beyond[s] \in Bit
         /\ Lines(text[s]) /\ Chain(logs[s], Len(text[s]))
         /\ Len(text[s]) \in Nat
         /\ \A k \in pruned[s] : k <= LastOf(text[s]) - RawSpan
         /\ Had(s) \subseteq 1..Len(text[s])
         /\ Tallied(counted[s], Cardinality(Had(s)), beyond[s])
         /\ Aims(text[s], logs[s], cursor[s]) /\ Ahead(text[s], pruned[s], cursor[s].n)
         /\ ~moved[s] => KeysIn(text[s], cursor[s].after, cursor[s].n) \subseteq Had(s)
<1>1. LogShapes /\ StreamKept(s)
  BY DEF Collecting
<1>2. /\ text[s] \in Seq(Nat) /\ logs[s] \in Seq(LogFile) /\ cursor[s] \in Cursor
      /\ stored[s] \in SUBSET Nat /\ pruned[s] \in SUBSET Nat /\ counted[s] \in Nat
      /\ beyond[s] \in Bit
  BY <1>1, Parts
<1>3. Len(text[s]) \in Nat
  BY <1>2, LenProperties
<1> QED BY <1>1, <1>2, <1>3 DEF StreamKept, StreamGood, Had

\* What the node does to a log: lines, rotations, copies.
LEMMA NodeActions ==
  ASSUME Collecting, NEW s \in Streams,
         WriteLog(s) \/ RepeatLine(s) \/ RenameLog(s) \/ TruncateLog(s)
  PROVE  Collecting'
<1>1. text[s] \in Seq(Nat) /\ logs[s] \in Seq(LogFile) /\ Lines(text[s]) /\ Chain(logs[s], Len(text[s]))
  BY StreamFacts
<1>2. PICK ts \in Seq(Nat) : ts = text[s]
  BY <1>1
<1>3. PICK fs \in Seq(LogFile) : fs = logs[s]
  BY <1>1
<1>4. Lines(ts) /\ Chain(fs, Len(ts))
  BY <1>1, <1>2, <1>3
<1>5. text \in [Streams -> Seq(Nat)] /\ logs \in [Streams -> Seq(LogFile)]
  BY DEF Collecting, LogShapes
<1>6. CASE WriteLog(s)
  <2>1. UNCHANGED <<storeVars, proc, fill, moved>>
    BY <1>6 DEF WriteLog
  <2> DEFINE gs == [fs EXCEPT ![Len(fs)] = [fs[Len(fs)] EXCEPT !.size = fs[Len(fs)].size + 1]]
             us == IF fs[Len(fs)].size % 2 = 1 THEN Append(ts, Len(ts) + 1) ELSE ts
  <2>2. us \in Seq(Nat) /\ gs \in Seq(LogFile) /\ Later(ts, fs, us, gs)
    BY <1>4, LogWritten
  <2>3. logs' = [logs EXCEPT ![s] = gs]
    BY <1>3, <1>6 DEF WriteLog
  <2>4. text' = [text EXCEPT ![s] = us]
    <3>1. CASE fs[Len(fs)].size % 2 = 1
      BY <1>2, <1>3, <1>6, <3>1 DEF WriteLog, Open
    <3>2. CASE ~ fs[Len(fs)].size % 2 = 1
      <4>1. text' = text
        BY <1>3, <1>6, <3>2 DEF WriteLog, Open
      <4> QED BY <1>2, <1>5, <3>2, <4>1
    <3> QED BY <3>1, <3>2
  <2> HIDE DEF gs, us
  <2> QED BY <1>2, <1>3, <2>1, <2>2, <2>3, <2>4, NodeStepAt
<1>7. CASE RepeatLine(s)
  <2>1. UNCHANGED <<storeVars, proc, fill, moved>>
    BY <1>7 DEF RepeatLine
  <2> DEFINE gs == [fs EXCEPT ![Len(fs)] = [fs[Len(fs)] EXCEPT !.size = fs[Len(fs)].size + 2]]
             us == Append(ts, ts[Len(ts)])
  <2>0. ts # <<>> /\ fs[Len(fs)].size % 2 = 0
    BY <1>2, <1>3, <1>7 DEF RepeatLine, Open
  <2>2. us \in Seq(Nat) /\ gs \in Seq(LogFile) /\ Later(ts, fs, us, gs)
    BY <1>4, <2>0, LogRepeated
  <2>3. logs' = [logs EXCEPT ![s] = gs]
    BY <1>3, <1>7 DEF RepeatLine
  <2>4. text' = [text EXCEPT ![s] = us]
    BY <1>2, <1>7 DEF RepeatLine
  <2> HIDE DEF gs, us
  <2> QED BY <1>2, <1>3, <2>1, <2>2, <2>3, <2>4, NodeStepAt
<1>8. CASE RenameLog(s)
  <2>1. UNCHANGED <<storeVars, proc, fill, moved>>
    BY <1>8 DEF RenameLog
  <2>0. LinesOf(fs[Len(fs)]) > 0
    BY <1>3, <1>8 DEF RenameLog, Open
  <2>a. /\ fs[Len(fs)].base + LinesOf(fs[Len(fs)]) = Len(ts)
        /\ Len(fs) \in Nat /\ Len(fs) >= 1 /\ Len(ts) \in Nat
    BY <1>4, RotationLine
  <2> DEFINE gs == Append(fs, File(Len(ts) + 10, Len(ts), 0))
             hs == Newest(gs, 4)
  <2>b. gs \in Seq(LogFile) /\ Rotated(fs, gs, Len(fs), Base(fs, Len(fs)), Size(fs, Len(fs)), Len(ts))
    BY <2>a, RenameFile
  <2>3. logs' = [logs EXCEPT ![s] = hs]
    BY <1>2, <1>3, <1>8, <2>a DEF RenameLog, Open
  <2> HIDE DEF gs
  <2>c. hs = Newest(gs, 4)
    OBVIOUS
  <2> HIDE DEF hs
  <2>2. hs \in Seq(LogFile) /\ Later(ts, fs, ts, hs)
    BY <1>4, <2>0, <2>b, <2>c, LogRotated
  <2>4. text' = [text EXCEPT ![s] = ts]
    BY <1>2, <1>5, <1>8 DEF RenameLog
  <2> QED BY <1>2, <1>3, <2>1, <2>2, <2>3, <2>4, NodeStepAt
<1>9. CASE TruncateLog(s)
  <2>1. UNCHANGED <<storeVars, proc, fill, moved>>
    BY <1>9 DEF TruncateLog
  <2>0. LinesOf(fs[Len(fs)]) > 0
    BY <1>3, <1>9 DEF TruncateLog, Open
  <2>a. /\ fs[Len(fs)].base + LinesOf(fs[Len(fs)]) = Len(ts)
        /\ Len(fs) \in Nat /\ Len(fs) >= 1 /\ Len(ts) \in Nat
    BY <1>4, RotationLine
  <2> DEFINE gs == SubSeq(fs, 1, Len(fs) - 1) \o
                     <<File(Len(ts) + 10, fs[Len(fs)].base, fs[Len(fs)].size),
                       File(fs[Len(fs)].id, Len(ts), 0)>>
             hs == Newest(gs, 4)
  <2>b. gs \in Seq(LogFile) /\ Rotated(fs, gs, Len(fs), Base(fs, Len(fs)), Size(fs, Len(fs)), Len(ts))
    BY <2>a, TruncateFile
  <2>3. logs' = [logs EXCEPT ![s] = hs]
    BY <1>2, <1>3, <1>9, <2>a DEF TruncateLog, Open
  <2> HIDE DEF gs
  <2>c. hs = Newest(gs, 4)
    OBVIOUS
  <2> HIDE DEF hs
  <2>2. hs \in Seq(LogFile) /\ Later(ts, fs, ts, hs)
    BY <1>4, <2>0, <2>b, <2>c, LogRotated
  <2>4. text' = [text EXCEPT ![s] = ts]
    BY <1>2, <1>5, <1>9 DEF TruncateLog
  <2> QED BY <1>2, <1>3, <2>1, <2>2, <2>3, <2>4, NodeStepAt
<1> QED BY <1>6, <1>7, <1>8, <1>9

-----------------------------------------------------------------------------
(* The steps of a run, but for its commit.                                  *)

\* A process that has read nothing.
LEMMA IdleProcess ==
  ASSUME NEW pc \in {"idle", "collect", "committed"}
  PROVE  /\ [Idle EXCEPT !.pc = pc] \in Collection /\ Idle \in Collection
         /\ \A s \in Streams : [Idle EXCEPT !.pc = pc].of[s].st = "none" /\ Idle.of[s].st = "none"
<1>1. NoCursor \in Cursor
  BY DEF NoCursor, Cursor
<1>2. Unread \in Reading /\ Unread.st = "none"
  BY <1>1 DEF Unread, Reading
<1>3. [s \in Streams |-> Unread] \in [Streams -> Reading]
  BY <1>2
<1>4. Idle = [pc |-> "idle", of |-> [s \in Streams |-> Unread]]
  BY DEF Idle
<1>5. [Idle EXCEPT !.pc = pc] = [pc |-> pc, of |-> [s \in Streams |-> Unread]]
  BY <1>4
<1> HIDE DEF Unread, Idle
<1> QED BY <1>2, <1>3, <1>4, <1>5 DEF Collection

\* One process changes, and perhaps a stream is moved.
LEMMA ProcStep ==
  ASSUME Collecting, NEW c \in Collectors, NEW p \in Collection, proc' = [proc EXCEPT ![c] = p],
         UNCHANGED <<nodeVars, storeVars, fill>>,
         moved' \in [Streams -> Bit], \A s \in Streams : moved[s] => moved'[s],
         \A s \in Streams : p.of[s].st # "none" =>
            /\ p.pc = "collect"
            /\ ReadGood(text[s], logs[s], pruned[s], p.of[s])
            /\ ~moved'[s] => ReadWhole(text[s], Had(s), p.of[s])
  PROVE  Collecting'
<1>1. /\ LogShapes /\ \A s \in Streams : StreamKept(s)
      /\ \A d \in Collectors, s \in Streams : ReadKept(d, s)
      /\ FillKept
  BY DEF Collecting
<1>2. /\ text' = text /\ logs' = logs /\ cursor' = cursor /\ stored' = stored /\ counted' = counted
      /\ pruned' = pruned /\ beyond' = beyond /\ fill' = fill
      /\ \A s \in Streams : Had(s)' = Had(s)
  BY DEF nodeVars, storeVars, Had
<1>3. proc \in [Collectors -> Collection]
  BY <1>1 DEF LogShapes
<1>4. proc' \in [Collectors -> Collection]
  BY <1>3
<1>5. LogShapes'
  BY <1>1, <1>2, <1>4 DEF LogShapes
<1>6. \A s \in Streams : StreamKept(s)'
  BY <1>1, <1>2 DEF StreamKept
<1>7. \A d \in Collectors, s \in Streams : ReadKept(d, s)'
  <2> TAKE d \in Collectors, s \in Streams
  <2>1. CASE d = c
    <3>1. proc'[d] = p
      BY <1>3, <2>1
    <3> QED BY <1>2, <3>1 DEF ReadKept
  <2>2. CASE d # c
    <3>1. proc'[d] = proc[d]
      BY <1>3, <2>2
    <3> QED BY <1>1, <1>2, <3>1 DEF ReadKept
  <2> QED BY <2>1, <2>2
<1>8. FillKept'
  <2>1. SUFFICES ASSUME fill.pc # "idle"
                 PROVE  fill.s \in Streams /\ FillGood(fill.s, fill)'
    BY <1>2 DEF FillKept
  <2>2. fill.s \in Streams /\ FillGood(fill.s, fill)
    BY <1>1, <2>1 DEF FillKept
  <2> QED BY <1>2, <2>2 DEF FillGood
<1> QED BY <1>5, <1>6, <1>7, <1>8 DEF Collecting

\* One stream of a process changes.
LEMMA ReadStep ==
  ASSUME Collecting, NEW c \in Collectors, NEW s \in Streams, NEW r \in Reading,
         proc[c].pc = "collect", proc' = [proc EXCEPT ![c].of[s] = r],
         UNCHANGED <<nodeVars, storeVars, fill>>,
         moved' \in [Streams -> Bit], \A t \in Streams : moved[t] => moved'[t],
         ReadGood(text[s], logs[s], pruned[s], r),
         ~moved'[s] => ReadWhole(text[s], Had(s), r)
  PROVE  Collecting'
<1>1. proc \in [Collectors -> Collection] /\ \A t \in Streams : ReadKept(c, t)
  BY DEF Collecting, LogShapes
<1> DEFINE p == [proc[c] EXCEPT !.of[s] = r]
<1>2. proc' = [proc EXCEPT ![c] = p]
  OBVIOUS
<1>3. PICK q \in Collection : q = proc[c]
  BY <1>1
<1>4. p = [q EXCEPT !.of = [q.of EXCEPT ![s] = r]]
  BY <1>3
<1>5. q.of \in [Streams -> Reading] /\ q.pc = "collect"
  BY <1>3 DEF Collection
<1>6. p \in Collection /\ p.pc = "collect" /\ p.of = [q.of EXCEPT ![s] = r]
  BY <1>4, <1>5 DEF Collection
<1> HIDE DEF p
<1>7. p.of[s] = r /\ \A t \in Streams : t # s => p.of[t] = proc[c].of[t]
  BY <1>3, <1>5, <1>6
<1>8. \A t \in Streams : p.of[t].st # "none" =>
            /\ p.pc = "collect"
            /\ ReadGood(text[t], logs[t], pruned[t], p.of[t])
            /\ ~moved'[t] => ReadWhole(text[t], Had(t), p.of[t])
  <2> TAKE t \in Streams
  <2>1. CASE t = s
    BY <1>6, <1>7, <2>1
  <2>2. CASE t # s
    <3>1. p.of[t] = proc[c].of[t]
      BY <1>7, <2>2
    <3> QED BY <1>1, <1>6, <3>1 DEF ReadKept
  <2> QED BY <2>1, <2>2
<1> QED BY <1>2, <1>6, <1>8, ProcStep

\* Runs that start, end, are killed, read a cursor or fail to read a stream.
LEMMA RunActions ==
  ASSUME Collecting, NEW c \in Collectors,
         \/ StartRun(c) \/ Rest(c) \/ KillCollector(c)
         \/ \E s \in Streams : ReadCursor(c, s) \/ StreamFails(c, s)
  PROVE  Collecting'
<1>1. moved \in [Streams -> Bit] /\ LogShapes
  BY DEF Collecting, LogShapes
<1>2. CASE StartRun(c) \/ Rest(c) \/ KillCollector(c)
  <2>1. /\ UNCHANGED <<nodeVars, storeVars, fill>> /\ moved' = moved
        /\ \E pc \in {"idle", "collect", "committed"} :
             proc' = [proc EXCEPT ![c] = [Idle EXCEPT !.pc = pc]] \/ proc' = [proc EXCEPT ![c] = Idle]
    BY <1>2 DEF StartRun, Rest, KillCollector
  <2>2. PICK pc \in {"idle", "collect", "committed"} :
             proc' = [proc EXCEPT ![c] = [Idle EXCEPT !.pc = pc]] \/ proc' = [proc EXCEPT ![c] = Idle]
    BY <2>1
  <2>3. PICK p \in Collection : proc' = [proc EXCEPT ![c] = p] /\ \A s \in Streams : p.of[s].st = "none"
    BY <2>2, IdleProcess
  <2> QED BY <1>1, <2>1, <2>3, ProcStep
<1>3. ASSUME NEW s \in Streams, ReadCursor(c, s)
      PROVE  Collecting'
  <2>1. /\ UNCHANGED <<nodeVars, storeVars, fill>> /\ moved' = moved
        /\ proc[c].pc = "collect" /\ proc[c].of[s].st = "none"
        /\ proc' = [proc EXCEPT ![c].of[s] = [@ EXCEPT !.st = "asked", !.cur = cursor[s]]]
    BY <1>3 DEF ReadCursor
  <2>2. PICK q \in Reading : q = proc[c].of[s]
    BY <1>1, Parts
  <2>3. PICK cur \in Cursor : cur = cursor[s]
    BY <1>1, Parts
  <2> DEFINE r == [q EXCEPT !.st = "asked", !.cur = cur]
  <2>4. proc' = [proc EXCEPT ![c].of[s] = r]
    BY <2>1, <2>2, <2>3
  <2>5. r = [st |-> "asked", cur |-> cur, got |-> q.got, first |-> q.first]
    <3>1. r = [[q EXCEPT !.st = "asked"] EXCEPT !.cur = cur]
      OBVIOUS
    <3>2. [q EXCEPT !.st = "asked"] = [st |-> "asked", cur |-> q.cur, got |-> q.got, first |-> q.first]
      BY DEF Reading
    <3>3. [[st |-> "asked", cur |-> q.cur, got |-> q.got, first |-> q.first] EXCEPT !.cur = cur]
            = [st |-> "asked", cur |-> cur, got |-> q.got, first |-> q.first]
      OBVIOUS
    <3> QED BY <3>1, <3>2, <3>3
  <2>6. r \in Reading /\ r.st = "asked" /\ r.cur = cur
    BY <2>5 DEF Reading
  <2> HIDE DEF r
  <2>7. ReadGood(text[s], logs[s], pruned[s], r) /\ (~moved[s] => ReadWhole(text[s], Had(s), r))
    BY <2>3, <2>6, StreamFacts DEF ReadGood, ReadWhole
  <2> QED BY <1>1, <2>1, <2>4, <2>6, <2>7, ReadStep
<1>4. ASSUME NEW s \in Streams, StreamFails(c, s)
      PROVE  Collecting'
  <2>1. /\ UNCHANGED <<nodeVars, storeVars, fill>> /\ moved' = moved
        /\ proc[c].pc = "collect" /\ proc[c].of[s].st = "asked"
        /\ proc' = [proc EXCEPT ![c].of[s].st = "failed"]
    BY <1>4 DEF StreamFails
  <2>2. PICK q \in Reading : q = proc[c].of[s]
    BY <1>1, Parts
  <2> DEFINE r == [q EXCEPT !.st = "failed"]
  <2>4. proc' = [proc EXCEPT ![c].of[s] = r]
    BY <2>1, <2>2
  <2>5. r = [st |-> "failed", cur |-> q.cur, got |-> q.got, first |-> q.first]
    BY DEF Reading
  <2>6. r \in Reading /\ r.st = "failed" /\ r.cur = q.cur
    BY <2>5 DEF Reading
  <2> HIDE DEF r
  <2>7. ReadKept(c, s)
    BY DEF Collecting
  <2>8. ReadGood(text[s], logs[s], pruned[s], r) /\ (~moved[s] => ReadWhole(text[s], Had(s), r))
    BY <2>1, <2>2, <2>6, <2>7 DEF ReadKept, ReadGood, ReadWhole
  <2> QED BY <1>1, <2>1, <2>4, <2>6, <2>8, ReadStep
<1> QED BY <1>2, <1>3, <1>4

\* What a run makes of one read of a stream.
LEMMA ReadOne ==
  ASSUME NEW ts \in Seq(Nat), NEW fs \in Seq(LogFile), Chain(fs, Len(ts)),
         NEW cur \in Cursor, Aims(ts, fs, cur), NEW pr, Ahead(ts, pr, cur.n),
         NEW d, d = Delta(Newest(fs, 3), cur),
         NEW r, r = [st |-> "read", cur |-> cur, got |-> d.got, first |-> d.first]
  PROVE  /\ r \in Reading /\ ReadGood(ts, fs, pr, r)
         /\ \A had : KeysIn(ts, cur.after, cur.n) \subseteq had /\ ~d.skips => ReadWhole(ts, had, r)
<1>1. Len(ts) \in Nat /\ Len(fs) >= 1 /\ 3 \in Nat /\ 3 >= 1
  BY LenProperties DEF Chain
<1>2. Newest(fs, 3) \in Seq(LogFile) /\ Len(Newest(fs, 3)) <= 3 /\ \E x \in Nat : Suffix(Newest(fs, 3), fs, x)
  BY <1>1, NewestFiles
<1>3. PICK vs \in Seq(LogFile) : vs = Newest(fs, 3)
  BY <1>2
<1>4. PICK x \in Nat : Suffix(vs, fs, x)
  BY <1>2, <1>3
<1>5. Len(vs) <= 3 /\ Chain(vs, Len(ts))
  BY <1>1, <1>2, <1>3, <1>4, ChainOfNewest
<1>6. cur.id \in Nat /\ cur.off \in Nat /\ cur.n \in Nat /\ cur.after \in Nat
  BY DEF Cursor
<1>7. cur.n <= Len(ts) /\ (cur.id = 0 => cur.n = 0) /\ (cur.id # 0 => Points(fs, cur.id, cur.off, cur.n))
  BY DEF Aims
<1>8. cur.id # 0 => Points(vs, cur.id, cur.off, cur.n)
  BY <1>4, <1>6, <1>7, PointsInNewest
<1>9. d = Delta(vs, cur)
  BY <1>3
<1>10. /\ d.first \in Nat /\ d.got \in Cursor
       /\ cur.n <= d.first /\ d.first <= d.got.n
       /\ \E e \in 1..Len(vs), h \in Nat :
            /\ 2 * h <= Size(vs, e)
            /\ d.got.id = Id(vs, e) /\ d.got.off = 2 * h /\ d.got.n = Base(vs, e) + h
       /\ \/ d.got.after = d.first
          \/ d.got.after = cur.after /\ d.first = cur.n
          \/ d.skips
  BY <1>1, <1>5, <1>7, <1>8, <1>9, DeltaGood
<1>11. PICK got \in Cursor : got = d.got
  BY <1>10
<1>12. PICK first \in Nat : first = d.first
  BY <1>10
<1>13. r.st = "read" /\ r.cur = cur /\ r.got = got /\ r.first = first /\ r \in Reading
  BY <1>11, <1>12 DEF Reading
<1>14. got.n \in Nat /\ got.after \in Nat /\ cur.n <= first /\ cur.n <= got.n
  BY SMTT(20), <1>6, <1>10, <1>11, <1>12 DEF Cursor
<1>15. Aims(ts, fs, got)
  <2>1. PICK e \in 1..Len(vs), h \in Nat :
            /\ 2 * h <= Size(vs, e)
            /\ got.id = Id(vs, e) /\ got.off = 2 * h /\ got.n = Base(vs, e) + h
    BY <1>10, <1>11
  <2>2. /\ e + x \in 1..Len(fs) /\ Id(vs, e) = Id(fs, e + x) /\ Base(vs, e) = Base(fs, e + x)
        /\ Size(vs, e) = Size(fs, e + x)
    BY <1>4, SuffixFields
  <2>3. PICK i \in 1..Len(fs) : i = e + x
    BY <2>2
  <2>4. 2 * h <= Size(fs, i) /\ got.id = Id(fs, i) /\ got.n = Base(fs, i) + h
    BY <2>1, <2>2, <2>3
  <2>5. LineAt(fs, i, 2 * h) = got.n
    <3>1. (2 * h) \div 2 = h
      OBVIOUS
    <3> QED BY <2>4, <3>1 DEF LineAt, Base
  <2>6. 2 * h \in Nat
    OBVIOUS
  <2>7. Points(fs, got.id, got.off, got.n) /\ got.n <= Len(ts)
    BY <1>1, <2>1, <2>4, <2>5, <2>6, PointsInFile
  <2>8. got.id # 0
    <3>1. Id(fs, i) \in 1 .. Base(fs, Len(fs)) + 10
      BY DEF Chain
    <3> QED BY <2>4, <3>1
  <2> QED BY <2>7, <2>8 DEF Aims
<1>16. ReadGood(ts, fs, pr, r)
  BY <1>13, <1>14, <1>15 DEF ReadGood
<1>17. ASSUME NEW had, KeysIn(ts, cur.after, cur.n) \subseteq had, ~d.skips
       PROVE  ReadWhole(ts, had, r)
  <2>1. got.after = first \/ (got.after = cur.after /\ first = cur.n)
    BY <1>10, <1>11, <1>12, <1>17
  <2>2. KeysIn(ts, got.after, got.n) \subseteq had \cup KeysIn(ts, first, got.n)
    <3>1. CASE got.after = first
      BY <3>1
    <3>2. CASE got.after = cur.after /\ first = cur.n
      <4>1. \A k \in cur.after + 1..got.n : k \in cur.after + 1..cur.n \/ k \in cur.n + 1..got.n
        BY <1>6, <1>14
      <4>2. KeysIn(ts, cur.after, got.n) \subseteq KeysIn(ts, cur.after, cur.n) \cup KeysIn(ts, cur.n, got.n)
        BY <4>1 DEF KeysIn
      <4> QED BY <1>17, <3>2, <4>2
    <3> QED BY <2>1, <3>1, <3>2
  <2> QED BY <1>13, <1>17, <2>2 DEF ReadWhole
<1> QED BY <1>13, <1>16, <1>17

\* A stream is read from its cursor.
LEMMA ReadDeltaStep ==
  ASSUME Collecting, NEW c \in Collectors, NEW s \in Streams, ReadDelta(c, s)
  PROVE  Collecting'
<1>1. PICK cur : cur = proc[c].of[s].cur
  OBVIOUS
<1>2. PICK d : d = Delta(Newest(logs[s], 3), cur)
  OBVIOUS
<1> DEFINE r == [st |-> "read", cur |-> cur, got |-> d.got, first |-> d.first]
<1>3. /\ UNCHANGED <<nodeVars, storeVars, fill>>
      /\ proc[c].pc = "collect" /\ proc[c].of[s].st = "asked"
      /\ proc' = [proc EXCEPT ![c].of[s] = r]
      /\ moved' = [moved EXCEPT ![s] = @ \/ d.skips]
  BY <1>1, <1>2 DEF ReadDelta
<1> HIDE DEF r
<1>4. /\ text[s] \in Seq(Nat) /\ logs[s] \in Seq(LogFile) /\ Chain(logs[s], Len(text[s]))
  BY StreamFacts
<1>5. /\ ReadGood(text[s], logs[s], pruned[s], proc[c].of[s])
      /\ ~moved[s] => ReadWhole(text[s], Had(s), proc[c].of[s])
      /\ proc[c].of[s] \in Reading
  BY <1>3, Parts DEF Collecting, ReadKept
<1>6. /\ cur \in Cursor /\ Aims(text[s], logs[s], cur) /\ Ahead(text[s], pruned[s], cur.n)
      /\ ~moved[s] => KeysIn(text[s], cur.after, cur.n) \subseteq Had(s)
  BY <1>1, <1>5 DEF ReadGood, ReadWhole, Reading
<1>7. /\ r \in Reading /\ ReadGood(text[s], logs[s], pruned[s], r)
      /\ \A had : KeysIn(text[s], cur.after, cur.n) \subseteq had /\ ~d.skips => ReadWhole(text[s], had, r)
  BY <1>2, <1>4, <1>6, ReadOne DEF r
<1>8. moved \in [Streams -> Bit]
  BY DEF Collecting, LogShapes
<1>9. moved' \in [Streams -> Bit] /\ \A t \in Streams : moved[t] => moved'[t]
  <2>1. (moved[s] \/ d.skips) \in Bit
    BY DEF Bit
  <2>2. \A t \in Streams : moved'[t] = IF t = s THEN moved[s] \/ d.skips ELSE moved[t]
    BY <1>3, <1>8
  <2>3. moved' \in [Streams -> Bit]
    BY <1>3, <1>8, <2>1
  <2> QED BY <2>2, <2>3
<1>10. ~moved'[s] => ~moved[s] /\ ~d.skips
  BY <1>3, <1>8
<1>11. ~moved'[s] => ReadWhole(text[s], Had(s), r)
  BY <1>6, <1>7, <1>10
<1> QED BY <1>3, <1>7, <1>9, <1>11, ReadStep

-----------------------------------------------------------------------------
(* What is put into the database.                                           *)

\* New events that a good stream can take: none that the retention has taken,
\* unless that is marked.
Adds(ts, fs, cur, st, pr, count, over, new, again) ==
  /\ StreamGood(ts, fs, cur, st, pr, count, over)
  /\ new \subseteq 1..Len(ts)
  /\ over => again
  /\ again \/ new \cap pr = {}

\* New events are counted: once, unless the retention has taken one of them.
LEMMA AddKeys ==
  ASSUME NEW ts \in Seq(Nat), NEW fs \in Seq(LogFile), NEW cur \in Cursor,
         NEW st \in SUBSET Nat, NEW pr \in SUBSET Nat, NEW count \in Nat,
         NEW over, NEW new, NEW again, Adds(ts, fs, cur, st, pr, count, over, new, again)
  PROVE  /\ StreamGood(ts, fs, cur, st \cup new, pr, count + Cardinality(new \ st), again)
         /\ count + Cardinality(new \ st) \in Nat /\ st \cup new \in SUBSET Nat
<1>1. /\ Lines(ts) /\ Chain(fs, Len(ts)) /\ st \cup pr \subseteq 1..Len(ts)
      /\ \A k \in pr : k <= LastOf(ts) - RawSpan
      /\ Tallied(count, Cardinality(st \cup pr), over) /\ Aims(ts, fs, cur) /\ Ahead(ts, pr, cur.n)
      /\ new \subseteq 1..Len(ts) /\ (over => again) /\ (again \/ new \cap pr = {})
  BY DEF Adds, StreamGood
<1>2. Len(ts) \in Nat
  BY LenProperties
<1>3. IsFiniteSet(1..Len(ts))
  BY <1>2, FS_Interval
<1> DEFINE had == st \cup pr
           more == new \ had
<1>4. IsFiniteSet(had) /\ IsFiniteSet(new \ st)
  <2>1. new \ st \subseteq 1..Len(ts)
    BY <1>1
  <2> QED BY <1>1, <1>3, <2>1, FS_Subset
<1>5. /\ had \cap more = {} /\ (st \cup new) \cup pr = had \cup more /\ more \subseteq new \ st
      /\ new \cap pr = {} => more = new \ st
  OBVIOUS
<1> HIDE DEF had, more
<1>6. IsFiniteSet(more) /\ Cardinality(more) <= Cardinality(new \ st)
  BY <1>4, <1>5, FS_Subset
<1>7. Cardinality(had \cup more) = Cardinality(had) + Cardinality(more) - Cardinality(had \cap more)
  BY <1>4, <1>6, FS_Union
<1>8. Cardinality(had \cap more) = 0
  BY <1>5, FS_EmptySet
<1>9. PICK a \in Nat : a = Cardinality(had)
  BY <1>4, FS_CardinalityType
<1>10. PICK b \in Nat : b = Cardinality(more)
  BY <1>6, FS_CardinalityType
<1>11. PICK d \in Nat : d = Cardinality(new \ st)
  BY <1>4, FS_CardinalityType
<1>12. Cardinality((st \cup new) \cup pr) = a + b /\ b <= d /\ (~again => b = d)
  <2>1. Cardinality(had \cup more) = a + b - 0
    BY <1>7, <1>8, <1>9, <1>10
  <2>2. Cardinality(had \cup more) = a + b
    BY <2>1
  <2>3. ~again => more = new \ st
    BY <1>1, <1>5
  <2> QED BY <1>5, <1>6, <1>10, <1>11, <2>2, <2>3
<1>13. count >= a /\ (count = a \/ over)
  BY <1>1, <1>9 DEF Tallied, had
<1>14. Tallied(count + d, a + b, again)
  <2>1. count + d >= a + b
    BY <1>12, <1>13
  <2>2. ~again => count + d = a + b
    <3>1. ~again => ~over
      BY <1>1
    <3>2. ~again => count = a /\ b = d
      BY <1>12, <1>13, <3>1
    <3> QED BY <3>2
  <2> QED BY <2>1, <2>2 DEF Tallied
<1>15. Tallied(count + Cardinality(new \ st), Cardinality((st \cup new) \cup pr), again)
  BY <1>11, <1>12, <1>14
<1>16. (st \cup new) \cup pr \subseteq 1..Len(ts)
  BY <1>1
<1>17. st \cup new \in SUBSET Nat /\ count + Cardinality(new \ st) \in Nat
  BY <1>1, <1>2, <1>11
<1> QED BY <1>1, <1>15, <1>16, <1>17 DEF StreamGood

\* A stream with another cursor.
LEMMA SetCursor ==
  ASSUME NEW ts \in Seq(Nat), NEW fs \in Seq(LogFile), NEW cur \in Cursor, NEW got \in Cursor,
         NEW st \in SUBSET Nat, NEW pr \in SUBSET Nat, NEW count \in Nat, NEW over,
         StreamGood(ts, fs, cur, st, pr, count, over), Aims(ts, fs, got), Ahead(ts, pr, got.n)
  PROVE  StreamGood(ts, fs, got, st, pr, count, over)
BY DEF StreamGood

\* The events of written lines are among the numbers of the written lines.
LEMMA KeysWritten ==
  ASSUME NEW ts \in Seq(Nat), Lines(ts), NEW a \in Nat, NEW n \in Nat, n <= Len(ts)
  PROVE  KeysIn(ts, a, n) \subseteq 1..Len(ts)
<1>1. Len(ts) \in Nat
  BY LenProperties
<1>2. \A i \in a + 1..n : i \in 1..Len(ts)
  BY <1>1
<1>3. \A i \in 1..Len(ts) : ts[i] \in 1..Len(ts)
  BY <1>1 DEF Lines
<1> QED BY <1>2, <1>3 DEF KeysIn

\* What is not ahead of one line is not ahead of a later one.
LEMMA AheadOf ==
  ASSUME NEW ts \in Seq(Nat), NEW pr, NEW a \in Nat, NEW n \in Nat, a <= n, Ahead(ts, pr, a)
  PROVE  /\ Ahead(ts, pr, n)
         /\ \A m \in Nat : m <= Len(ts) => KeysIn(ts, n, m) \cap pr = {}
<1>1. Len(ts) \in Nat
  BY LenProperties
<1>2. \A i \in n + 1..Len(ts) : i \in a + 1..Len(ts)
  BY <1>1
<1>3. \A m \in Nat : m <= Len(ts) => \A i \in n + 1..m : i \in a + 1..Len(ts)
  BY <1>1
<1> QED BY <1>2, <1>3 DEF Ahead, KeysIn

\* The commit of what was read of one stream after the line a.
LEMMA CommitOne ==
  ASSUME NEW ts \in Seq(Nat), NEW fs \in Seq(LogFile), NEW cur \in Cursor,
         NEW st \in SUBSET Nat, NEW pr \in SUBSET Nat, NEW count \in Nat, NEW over,
         StreamGood(ts, fs, cur, st, pr, count, over),
         NEW got \in Cursor, Aims(ts, fs, got), NEW a \in Nat, Ahead(ts, pr, a), a <= got.n,
         NEW first \in Nat, a <= first
  PROVE  /\ KeysIn(ts, first, got.n) \subseteq 1..Len(ts) /\ KeysIn(ts, first, got.n) \cap pr = {}
         /\ StreamGood(ts, fs, got, st, pr, count, over)
<1>1. got.n \in Nat /\ got.n <= Len(ts) /\ Lines(ts)
  BY DEF Cursor, Aims, StreamGood
<1>2. KeysIn(ts, first, got.n) \subseteq 1..Len(ts)
  BY <1>1, KeysWritten
<1>3. KeysIn(ts, first, got.n) \cap pr = {}
  BY <1>1, AheadOf
<1>4. Ahead(ts, pr, got.n)
  BY <1>1, AheadOf
<1>5. StreamGood(ts, fs, got, st, pr, count, over)
  BY <1>4, SetCursor
<1> QED BY <1>2, <1>3, <1>5

\* A step that leaves the node alone, takes nothing from what the database had,
\* and changes of each process at most that it has read nothing any more.
LEMMA DataStep ==
  ASSUME Collecting, UNCHANGED nodeVars, LogShapes',
         \A s \in Streams : moved[s] => moved'[s],
         \A s \in Streams : Had(s) \subseteq Had(s)',
         \A s \in Streams : StreamKept(s)',
         \A c \in Collectors, s \in Streams :
            proc'[c].of[s].st # "none" => /\ proc'[c] = proc[c]
                                          /\ Ahead(text[s], pruned'[s], proc[c].of[s].cur.n),
         FillKept'
  PROVE  Collecting'
<1>1. text' = text /\ logs' = logs
  BY DEF nodeVars
<1>2. \A c \in Collectors, s \in Streams : ReadKept(c, s)
  BY DEF Collecting
<1>3. \A c \in Collectors, s \in Streams : ReadKept(c, s)'
  <2> TAKE c \in Collectors, s \in Streams
  <2>1. SUFFICES ASSUME proc'[c].of[s].st # "none"
                 PROVE  /\ proc'[c].pc = "collect"
                        /\ ReadGood(text[s], logs[s], pruned'[s], proc'[c].of[s])
                        /\ ~moved'[s] => ReadWhole(text[s], Had(s)', proc'[c].of[s])
    BY <1>1 DEF ReadKept
  <2>2. proc'[c] = proc[c] /\ Ahead(text[s], pruned'[s], proc[c].of[s].cur.n)
    BY <2>1
  <2>3. /\ proc[c].pc = "collect"
        /\ ReadGood(text[s], logs[s], pruned[s], proc[c].of[s])
        /\ ~moved[s] => ReadWhole(text[s], Had(s), proc[c].of[s])
    BY <1>2, <2>1, <2>2 DEF ReadKept
  <2>4. ReadGood(text[s], logs[s], pruned'[s], proc[c].of[s])
    BY <2>2, <2>3 DEF ReadGood
  <2>5. ReadWhole(text[s], Had(s), proc[c].of[s]) => ReadWhole(text[s], Had(s)', proc[c].of[s])
    BY DEF ReadWhole
  <2> QED BY <2>2, <2>3, <2>4, <2>5
<1> QED BY <1>3 DEF Collecting

\* What the backfill has done is not undone by such a step.
LEMMA FillStays ==
  ASSUME Collecting, UNCHANGED nodeVars, fill' = fill,
         \A s \in Streams : moved[s] => moved'[s],
         \A s \in Streams : Had(s) \subseteq Had(s)'
  PROVE  FillKept'
<1>1. text' = text /\ logs' = logs /\ FillKept
  BY DEF nodeVars, Collecting
<1>2. SUFFICES ASSUME fill.pc # "idle"
               PROVE  fill.s \in Streams /\ FillGood(fill.s, fill)'
  BY DEF FillKept
<1>3. fill.s \in Streams /\ FillGood(fill.s, fill)
  BY <1>1, <1>2 DEF FillKept
<1>4. PICK s \in Streams : s = fill.s
  BY <1>3
<1>5. /\ fill.i \in 1..Len(fill.files)
      /\ fill.pc = "cursor" => fill.i = Len(fill.files)
      /\ ListGood(text[s], logs[s], fill.files)
      /\ ~moved[s] => Filled(text[s], Had(s), fill.files, LineAt(fill.files, fill.i, fill.off), fill.cut)
  BY <1>3, <1>4 DEF FillGood
<1>6. Filled(text[s], Had(s), fill.files, LineAt(fill.files, fill.i, fill.off), fill.cut)
        => Filled(text[s], Had(s)', fill.files, LineAt(fill.files, fill.i, fill.off), fill.cut)
  BY DEF Filled
<1>8. FillGood(s, fill)'
  BY <1>1, <1>5, <1>6 DEF FillGood
<1>9. fill'.s = s
  BY <1>4
<1> QED BY <1>4, <1>8, <1>9 DEF FillGood

\* A batch is stored with its cursor, in one transaction.
LEMMA CommitStep ==
  ASSUME Collecting, NEW c \in Collectors, CommitRun(c)
  PROVE  Collecting'
<1> DEFINE reads(s) == s \in left.streams /\ proc[c].of[s].st = "read"
           new(s) == IF reads(s) THEN KeysIn(text[s], proc[c].of[s].first, proc[c].of[s].got.n) ELSE {}
<1>1. /\ stored' = [s \in Streams |-> stored[s] \cup new(s)]
      /\ counted' = [s \in Streams |-> counted[s] + Cardinality(new(s) \ stored[s])]
      /\ cursor' = [s \in Streams |-> IF reads(s) THEN proc[c].of[s].got ELSE cursor[s]]
      /\ proc' = [proc EXCEPT ![c] = [Idle EXCEPT !.pc = "committed"]]
      /\ UNCHANGED <<nodeVars, runs, pruned, beyond, fill, moved, left>>
  BY DEF CommitRun, NewIn, Keys, KeysIn
<1>2. /\ text' = text /\ logs' = logs /\ pruned' = pruned /\ fill' = fill /\ moved' = moved
      /\ beyond' = beyond
  BY <1>1 DEF nodeVars
<1>3. LogShapes /\ \A d \in Collectors, s \in Streams : ReadKept(d, s)
  BY DEF Collecting
<1>4. \A s \in Streams : proc[c].of[s] \in Reading
  BY <1>3, Parts
<1>5. ASSUME NEW s \in Streams
      PROVE  /\ StreamKept(s)' /\ Had(s) \subseteq Had(s)'
             /\ cursor'[s] \in Cursor /\ stored'[s] \in SUBSET Nat /\ counted'[s] \in Nat
  <2>1. /\ text[s] \in Seq(Nat) /\ logs[s] \in Seq(LogFile) /\ cursor[s] \in Cursor
        /\ stored[s] \in SUBSET Nat /\ pruned[s] \in SUBSET Nat /\ counted[s] \in Nat
        /\ beyond[s] \in Bit
        /\ StreamGood(text[s], logs[s], cursor[s], stored[s], pruned[s], counted[s], beyond[s])
        /\ ~moved[s] => KeysIn(text[s], cursor[s].after, cursor[s].n) \subseteq Had(s)
    BY <1>3, Parts DEF Collecting, StreamKept
  <2> DEFINE n == new(s)
  <2>2. /\ stored'[s] = stored[s] \cup n
        /\ counted'[s] = counted[s] + Cardinality(n \ stored[s])
        /\ cursor'[s] = IF reads(s) THEN proc[c].of[s].got ELSE cursor[s]
    BY <1>1
  <2>3. Had(s)' = Had(s) \cup n
    BY <1>2, <2>2 DEF Had
  <2>4. CASE reads(s)
    <3>1. n = KeysIn(text[s], proc[c].of[s].first, proc[c].of[s].got.n)
      BY <2>4
    <3> HIDE DEF n
    <3>2. PICK r \in Reading : r = proc[c].of[s]
      BY <1>4
    <3>3. /\ r.st = "read" /\ ReadGood(text[s], logs[s], pruned[s], r)
          /\ ~moved[s] => ReadWhole(text[s], Had(s), r)
      BY <1>3, <2>4, <3>2 DEF ReadKept
    <3>4. n = KeysIn(text[s], r.first, r.got.n)
      BY <3>1, <3>2
    <3>5. /\ StreamGood(text[s], logs[s], r.got, stored[s] \cup n, pruned[s],
                        counted[s] + Cardinality(n \ stored[s]), beyond[s])
          /\ counted[s] + Cardinality(n \ stored[s]) \in Nat /\ stored[s] \cup n \in SUBSET Nat
      <4>1. /\ text[s] \in Seq(Nat) /\ logs[s] \in Seq(LogFile) /\ cursor[s] \in Cursor
            /\ stored[s] \in SUBSET Nat /\ pruned[s] \in SUBSET Nat /\ counted[s] \in Nat
            /\ beyond[s] \in Bit
            /\ StreamGood(text[s], logs[s], cursor[s], stored[s], pruned[s], counted[s], beyond[s])
        BY <2>1
      <4>2. PICK got \in Cursor : got = r.got
        BY DEF Reading
      <4>3. PICK first \in Nat : first = r.first
        BY DEF Reading
      <4>4. PICK a \in Nat : a = r.cur.n
        BY DEF Reading, Cursor
      <4>5. /\ Aims(text[s], logs[s], got) /\ Ahead(text[s], pruned[s], a) /\ a <= first /\ a <= got.n
        BY <3>3, <4>2, <4>3, <4>4 DEF ReadGood
      <4>6. /\ KeysIn(text[s], first, got.n) \subseteq 1..Len(text[s])
            /\ KeysIn(text[s], first, got.n) \cap pruned[s] = {}
            /\ StreamGood(text[s], logs[s], got, stored[s], pruned[s], counted[s], beyond[s])
        BY <4>1, <4>5, CommitOne
      <4>7. n = KeysIn(text[s], first, got.n)
        BY <3>4, <4>2, <4>3
      <4>8. n \subseteq 1..Len(text[s]) /\ n \cap pruned[s] = {}
        BY <4>6, <4>7
      <4>9. /\ StreamGood(text[s], logs[s], got, stored[s] \cup n, pruned[s],
                          counted[s] + Cardinality(n \ stored[s]), beyond[s])
            /\ counted[s] + Cardinality(n \ stored[s]) \in Nat /\ stored[s] \cup n \in SUBSET Nat
        <5>1. Adds(text[s], logs[s], got, stored[s], pruned[s], counted[s], beyond[s], n, beyond[s])
          BY <4>6, <4>8 DEF Adds
        <5> QED BY <4>1, <5>1, AddKeys
      <4> QED BY <4>2, <4>9
    <3>6. cursor'[s] = r.got /\ r.got \in Cursor
      BY <2>2, <2>4, <3>2 DEF Reading
    <3>7. ~moved[s] => KeysIn(text[s], r.got.after, r.got.n) \subseteq Had(s) \cup n
      BY <3>3, <3>4 DEF ReadWhole
    <3>8. StreamKept(s)'
      BY <1>2, <2>2, <2>3, <3>5, <3>6, <3>7 DEF StreamKept
    <3> QED BY <2>2, <2>3, <3>5, <3>6, <3>8
  <2>5. CASE ~reads(s)
    <3>1. n = {}
      BY <2>5
    <3> HIDE DEF n
    <3>2. n \subseteq 1..Len(text[s]) /\ n \cap pruned[s] = {}
      BY <3>1
    <3>3. /\ StreamGood(text[s], logs[s], cursor[s], stored[s] \cup n, pruned[s],
                        counted[s] + Cardinality(n \ stored[s]), beyond[s])
          /\ counted[s] + Cardinality(n \ stored[s]) \in Nat /\ stored[s] \cup n \in SUBSET Nat
      <4>1. Adds(text[s], logs[s], cursor[s], stored[s], pruned[s], counted[s], beyond[s], n, beyond[s])
        BY <2>1, <3>2 DEF Adds
      <4> QED BY <2>1, <4>1, AddKeys
    <3>4. cursor'[s] = cursor[s]
      BY <2>2, <2>5
    <3>5. StreamKept(s)'
      BY <1>2, <2>1, <2>2, <2>3, <3>3, <3>4 DEF StreamKept
    <3> QED BY <2>1, <2>2, <2>3, <3>3, <3>4, <3>5
  <2> QED BY <2>4, <2>5
<1> DEFINE p == [Idle EXCEPT !.pc = "committed"]
<1>6. p \in Collection /\ \A s \in Streams : p.of[s].st = "none"
  BY IdleProcess
<1>7. proc' = [proc EXCEPT ![c] = p]
  BY <1>1
<1> HIDE DEF p
<1>8. proc \in [Collectors -> Collection]
  BY <1>3 DEF LogShapes
<1>9. proc' \in [Collectors -> Collection]
  BY <1>6, <1>7, <1>8
<1>10. LogShapes'
  <2>1. stored' \in [Streams -> SUBSET Nat] /\ counted' \in [Streams -> Nat] /\ cursor' \in [Streams -> Cursor]
    BY <1>1, <1>5
  <2> QED BY <1>2, <1>3, <1>9, <2>1 DEF LogShapes
<1>11. \A d \in Collectors, s \in Streams :
         proc'[d].of[s].st # "none" => /\ proc'[d] = proc[d]
                                       /\ Ahead(text[s], pruned'[s], proc[d].of[s].cur.n)
  <2> TAKE d \in Collectors, s \in Streams
  <2> HAVE proc'[d].of[s].st # "none"
  <2>1. d # c
    BY <1>6, <1>7, <1>8
  <2>2. proc'[d] = proc[d]
    BY <1>7, <1>8, <2>1
  <2>3. ReadGood(text[s], logs[s], pruned[s], proc[d].of[s])
    BY <1>3, <2>2 DEF ReadKept
  <2> QED BY <1>2, <2>2, <2>3 DEF ReadGood
<1>12. \A s \in Streams : Had(s) \subseteq Had(s)'
  BY <1>5
<1>13. FillKept'
  BY <1>1, <1>2, <1>12, FillStays
<1> QED BY <1>1, <1>2, <1>5, <1>10, <1>11, <1>12, <1>13, DataStep

\* The retention takes old events.
LEMMA CleanupStep ==
  ASSUME Collecting, NEW c \in Collectors, Cleanup(c)
  PROVE  Collecting'
<1> DEFINE old(s) == {k \in stored[s] : k <= LastOf(text[s]) - RawSpan}
<1>1. /\ stored' = [s \in Streams |-> stored[s] \ old(s)]
      /\ pruned' = [s \in Streams |-> pruned[s] \cup old(s)]
      /\ proc' = [proc EXCEPT ![c] = Idle]
      /\ UNCHANGED <<nodeVars, cursor, counted, runs, beyond, fill, moved, left>>
  BY DEF Cleanup, Now, LastOf
<1>2. /\ text' = text /\ logs' = logs /\ cursor' = cursor /\ counted' = counted /\ fill' = fill
      /\ beyond' = beyond /\ moved' = moved
  BY <1>1 DEF nodeVars
<1>3. LogShapes /\ \A d \in Collectors, s \in Streams : ReadKept(d, s)
  BY DEF Collecting
<1>4. ASSUME NEW s \in Streams
      PROVE  /\ \A k \in KeysIn(text[s], cursor[s].n, Len(text[s])) : k > LastOf(text[s]) - RawSpan
             /\ \A d \in Collectors : proc[d].of[s].st # "none" =>
                  \A k \in KeysIn(text[s], proc[d].of[s].cur.n, Len(text[s])) :
                    k > LastOf(text[s]) - RawSpan
  BY DEF Cleanup, Settled, Now, LastOf, Keys, KeysIn
<1>5. ASSUME NEW s \in Streams
      PROVE  LastOf(text[s]) - RawSpan \in Int /\ Len(text[s]) \in Nat
  <2>1. text[s] \in Seq(Nat) /\ Lines(text[s])
    BY StreamFacts
  <2>2. Len(text[s]) \in Nat /\ \A n \in 1..Len(text[s]) : text[s][n] = text[s][n]
    BY <2>1, LenProperties
  <2>3. LastOf(text[s]) \in Nat
    BY <2>1, <2>2, LastLater
  <2>4. RawSpan \in Nat
    BY CollectAssumption
  <2> QED BY <2>2, <2>3, <2>4
<1>6. ASSUME NEW s \in Streams, NEW n, Ahead(text[s], pruned[s], n),
             \A k \in KeysIn(text[s], n, Len(text[s])) : k > LastOf(text[s]) - RawSpan
      PROVE  Ahead(text[s], pruned'[s], n)
  <2>1. pruned'[s] = pruned[s] \cup old(s) /\ old(s) \subseteq Nat
    BY <1>1, StreamFacts
  <2>2. ASSUME NEW k \in KeysIn(text[s], n, Len(text[s]))
        PROVE  k \notin old(s)
    <3>1. k \in Nat => ~ k <= LastOf(text[s]) - RawSpan
      BY <1>5, <1>6
    <3> QED BY <2>1, <3>1
  <2> HIDE DEF old
  <2> QED BY <1>6, <2>1, <2>2 DEF Ahead
<1>7. ASSUME NEW s \in Streams
      PROVE  /\ StreamKept(s)' /\ Had(s)' = Had(s)
             /\ stored'[s] \in SUBSET Nat /\ pruned'[s] \in SUBSET Nat
  <2>1. /\ text[s] \in Seq(Nat) /\ logs[s] \in Seq(LogFile) /\ cursor[s] \in Cursor
        /\ stored[s] \in SUBSET Nat /\ pruned[s] \in SUBSET Nat /\ counted[s] \in Nat
        /\ Lines(text[s]) /\ Chain(logs[s], Len(text[s]))
        /\ \A k \in pruned[s] : k <= LastOf(text[s]) - RawSpan
        /\ Had(s) \subseteq 1..Len(text[s])
        /\ Tallied(counted[s], Cardinality(Had(s)), beyond[s])
        /\ Aims(text[s], logs[s], cursor[s]) /\ Ahead(text[s], pruned[s], cursor[s].n)
        /\ ~moved[s] => KeysIn(text[s], cursor[s].after, cursor[s].n) \subseteq Had(s)
    BY StreamFacts
  <2>2. stored'[s] = stored[s] \ old(s) /\ pruned'[s] = pruned[s] \cup old(s)
    BY <1>1
  <2>3. stored'[s] \cup pruned'[s] = Had(s)
    BY <2>2 DEF Had
  <2>4. Had(s)' = Had(s)
    BY <2>3 DEF Had
  <2>5. \A k \in pruned'[s] : k <= LastOf(text[s]) - RawSpan
    BY <2>1, <2>2
  <2>6. Ahead(text[s], pruned'[s], cursor[s].n)
    BY <1>4, <1>6, <2>1
  <2>7. StreamGood(text[s], logs[s], cursor[s], stored'[s], pruned'[s], counted[s], beyond[s])
    BY <2>1, <2>3, <2>5, <2>6 DEF StreamGood
  <2>8. StreamKept(s)'
    BY <1>2, <2>1, <2>4, <2>7 DEF StreamKept
  <2> QED BY <2>1, <2>2, <2>4, <2>8
<1> HIDE DEF old
<1>8. proc \in [Collectors -> Collection] /\ Idle \in Collection /\ \A s \in Streams : Idle.of[s].st = "none"
  BY <1>3, IdleProcess DEF LogShapes
<1>9. PICK p \in Collection : p = Idle
  BY <1>8
<1>10. proc' \in [Collectors -> Collection] /\ proc' = [proc EXCEPT ![c] = p]
  BY <1>1, <1>8, <1>9
<1>11. LogShapes'
  <2>1. stored' \in [Streams -> SUBSET Nat] /\ pruned' \in [Streams -> SUBSET Nat]
    BY <1>1, <1>7
  <2> QED BY <1>2, <1>3, <1>10, <2>1 DEF LogShapes
<1>12. \A d \in Collectors, s \in Streams :
         proc'[d].of[s].st # "none" => /\ proc'[d] = proc[d]
                                       /\ Ahead(text[s], pruned'[s], proc[d].of[s].cur.n)
  <2> TAKE d \in Collectors, s \in Streams
  <2> HAVE proc'[d].of[s].st # "none"
  <2>1. d # c
    BY <1>8, <1>9, <1>10
  <2>2. proc'[d] = proc[d]
    BY <1>8, <1>10, <2>1
  <2>3. proc[d].of[s].st # "none"
    BY <2>2
  <2>4. ReadGood(text[s], logs[s], pruned[s], proc[d].of[s])
    BY <1>3, <2>3 DEF ReadKept
  <2>5. Ahead(text[s], pruned[s], proc[d].of[s].cur.n)
    BY <2>4 DEF ReadGood
  <2>6. Ahead(text[s], pruned'[s], proc[d].of[s].cur.n)
    BY <1>4, <1>6, <2>3, <2>5
  <2> QED BY <2>2, <2>6
<1>13. \A s \in Streams : Had(s) \subseteq Had(s)'
  BY <1>7
<1>14. FillKept'
  BY <1>1, <1>2, <1>13, FillStays
<1> QED BY <1>1, <1>2, <1>7, <1>11, <1>12, <1>13, <1>14, DataStep

-----------------------------------------------------------------------------
(* The steps of the backfill.                                               *)

\* A step that leaves the processes and the retention alone.
LEMMA BackfillStep ==
  ASSUME Collecting, UNCHANGED nodeVars, LogShapes', proc' = proc, pruned' = pruned,
         \A s \in Streams : moved[s] => moved'[s],
         \A s \in Streams : Had(s) \subseteq Had(s)',
         \A s \in Streams : StreamKept(s)',
         FillKept'
  PROVE  Collecting'
<1>1. \A c \in Collectors, s \in Streams : ReadKept(c, s)
  BY DEF Collecting
<1>2. \A c \in Collectors, s \in Streams :
         proc'[c].of[s].st # "none" => /\ proc'[c] = proc[c]
                                       /\ Ahead(text[s], pruned'[s], proc[c].of[s].cur.n)
  BY <1>1 DEF ReadKept, ReadGood
<1> QED BY <1>2, DataStep

\* A step of the backfill alone.
LEMMA FillAlone ==
  ASSUME Collecting, UNCHANGED <<nodeVars, storeVars, proc, moved>>, fill' \in Backfill, FillKept'
  PROVE  Collecting'
<1>1. /\ text' = text /\ logs' = logs /\ cursor' = cursor /\ stored' = stored /\ counted' = counted
      /\ pruned' = pruned /\ beyond' = beyond /\ proc' = proc /\ moved' = moved
      /\ \A s \in Streams : Had(s)' = Had(s)
  BY DEF nodeVars, storeVars, Had
<1>2. LogShapes'
  BY <1>1 DEF Collecting, LogShapes
<1>3. \A s \in Streams : StreamKept(s)'
  BY <1>1 DEF Collecting, StreamKept
<1>4. UNCHANGED nodeVars
  OBVIOUS
<1>5. /\ \A s \in Streams : moved[s] => moved'[s]
      /\ \A s \in Streams : Had(s) \subseteq Had(s)'
  BY <1>1
<1> QED BY <1>1, <1>2, <1>3, <1>4, <1>5, BackfillStep

\* An idle backfill.
LEMMA NoFillShape ==
  NoFill \in Backfill /\ NoFill.pc = "idle"
<1>1. <<>> \in Seq(LogFile)
  OBVIOUS
<1>2. /\ NoFill.pc = "idle" /\ NoFill.files = <<>> /\ NoFill.i = 1 /\ NoFill.off = 0 /\ NoFill.cut = 0
      /\ NoFill = [pc |-> "idle", s |-> NoFill.s, files |-> <<>>, i |-> 1, off |-> 0, cut |-> 0]
  BY DEF NoFill
<1> HIDE DEF NoFill
<1>3. PICK x : x = NoFill.s
  OBVIOUS
<1>4. [pc |-> "idle", s |-> x, files |-> <<>>, i |-> 1, off |-> 0, cut |-> 0]
        \in [pc : {"idle", "read", "cursor"}, s : Streams \cup {x}, files : Seq(LogFile),
             i : Nat, off : Nat, cut : Nat]
  BY <1>1
<1>5. Backfill = [pc : {"idle", "read", "cursor"}, s : Streams \cup {x}, files : Seq(LogFile),
              i : Nat, off : Nat, cut : Nat]
  BY <1>3 DEF Backfill
<1> QED BY <1>2, <1>3, <1>4, <1>5

\* The backfill is killed.
LEMMA KillBackfillStep ==
  ASSUME Collecting, KillBackfill
  PROVE  Collecting'
<1>1. UNCHANGED <<nodeVars, storeVars, proc, moved>> /\ fill' = NoFill
  BY DEF KillBackfill
<1>2. fill' \in Backfill /\ FillKept'
  BY <1>1, NoFillShape DEF FillKept
<1> QED BY <1>1, <1>2, FillAlone

\* The backfill lists the files of a stream.
LEMMA ListFilesStep ==
  ASSUME Collecting, NEW s \in Streams, NEW span \in Nat, ListFiles(s, span)
  PROVE  Collecting'
<1>1. PICK vs : vs = Newest(logs[s], 4)
  OBVIOUS
<1>2. PICK cut : cut = Greatest(0, LastOf(text[s]) - span)
  OBVIOUS
<1>3. /\ UNCHANGED <<nodeVars, storeVars, proc, moved>>
      /\ fill' = [pc |-> "read", s |-> s, files |-> vs, i |-> 1, off |-> 0, cut |-> cut]
  BY <1>1, <1>2 DEF ListFiles, Now, LastOf
<1>4. /\ text[s] \in Seq(Nat) /\ logs[s] \in Seq(LogFile) /\ Chain(logs[s], Len(text[s]))
      /\ Lines(text[s]) /\ Len(text[s]) \in Nat
  BY StreamFacts
<1>5. vs \in Seq(LogFile) /\ \E d \in Nat : Suffix(vs, logs[s], d)
  <2>1. Len(logs[s]) >= 1 /\ 4 \in Nat /\ 4 >= 1
    BY <1>4 DEF Chain
  <2> QED BY <1>1, <1>4, <2>1, NewestFiles
<1>6. ListGood(text[s], logs[s], vs) /\ Base(vs, 1) <= Len(text[s])
  BY <1>4, <1>5, ListNow
<1>7. LastOf(text[s]) \in Nat
  <2>1. \A n \in 1..Len(text[s]) : text[s][n] = text[s][n]
    OBVIOUS
  <2> QED BY <1>4, <2>1, LastLater
<1>8. cut \in Nat
  BY <1>2, <1>7 DEF Greatest
<1>9. PICK k \in Nat : k = Len(vs) /\ 1 \in 1..k
  BY <1>5, <1>6, FileFields DEF ListGood
<1>10. Base(vs, 1) \in Nat
  BY <1>5, <1>9, FileFields
<1>11. LineAt(vs, 1, 0) = Base(vs, 1)
  BY <1>10 DEF LineAt, Base
<1>12. Filled(text[s], Had(s), vs, LineAt(vs, 1, 0), cut)
  BY <1>6, <1>10, <1>11 DEF Filled
<1>13. /\ fill'.pc = "read" /\ fill'.s = s /\ fill'.files = vs /\ fill'.i = 1 /\ fill'.off = 0
       /\ fill'.cut = cut /\ fill' \in Backfill
  BY <1>3, <1>5, <1>8 DEF Backfill
<1>14. text' = text /\ logs' = logs /\ moved' = moved /\ Had(s)' = Had(s)
  BY <1>3 DEF nodeVars, storeVars, Had
<1>15. FillGood(s, fill)'
  BY <1>6, <1>9, <1>12, <1>13, <1>14 DEF FillGood
<1>16. FillKept'
  BY <1>13, <1>15 DEF FillKept, FillGood
<1> QED BY <1>3, <1>13, <1>16, FillAlone

\* What a chunk that starts at off takes of a file of z half lines: h lines.
LEMMA ChunkNumbers ==
  ASSUME NEW z \in Nat, NEW off \in Nat, NEW end, NEW consumed, NEW off2,
         Chunk(z, off, end, consumed, off2)
  PROVE  \E h \in Nat : Takes(z, off, end, consumed, off2, h)
<1>0. /\ end = Least(z, off + Limit) /\ consumed = 2 * (end \div 2) - off
      /\ off2 = Greatest(off, off + consumed)
  BY DEF Chunk
<1>1. Limit \in Nat /\ Limit >= 2
  BY CollectAssumption
<1>2. end \in Nat /\ end <= z /\ (end = z \/ end = off + Limit)
  BY <1>0, <1>1 DEF Least
<1>3. PICK h \in Nat : h = end \div 2 /\ 2 * h <= end /\ end <= 2 * h + 1 /\ end % 2 = end - 2 * h
  BY <1>2, Halves
<1>4. consumed = 2 * h - off
  BY <1>0, <1>3
<1>5. off2 \in Nat /\ ((off2 = off /\ 2 * h <= off) \/ (off2 = 2 * h /\ off < 2 * h))
  <2>1. off + consumed = 2 * h /\ 2 * h \in Nat
    BY <1>4
  <2>2. off2 = Greatest(off, 2 * h)
    BY <1>0, <2>1
  <2> QED BY <2>1, <2>2 DEF Greatest
<1>6. consumed <= 0 => end = z
  BY <1>1, <1>2, <1>3, <1>4
<1>7. consumed <= 0 \/ (end = z /\ end % 2 = 0) => z <= 2 * h + 1
  <2> HAVE consumed <= 0 \/ (end = z /\ end % 2 = 0)
  <2>1. end = z
    BY <1>6
  <2> QED BY <1>3, <2>1
<1>8. 2 * h <= z
  BY <1>2, <1>3
<1> QED BY <1>2, <1>3, <1>4, <1>5, <1>7, <1>8 DEF Takes

\* What is filled stays filled when there is more, and up to where a chunk ends.
LEMMA FillMore ==
  ASSUME NEW ts \in Seq(Nat), NEW vs \in Seq(LogFile), Len(vs) >= 1, NEW had, NEW cut,
         NEW line \in Nat, NEW upto \in Nat, Filled(ts, had, vs, line, cut), upto <= Len(ts),
         NEW sel, sel = SelectedKeys(ts, line, upto, cut)
  PROVE  Filled(ts, had \cup sel, vs, line, cut) /\ Filled(ts, had \cup sel, vs, upto, cut)
<1>1. line <= Len(ts) /\ \A k \in Base(vs, 1) + 1 .. line : ts[k] > cut => ts[k] \in had
  BY DEF Filled
<1>2. PICK b \in Nat : b = Base(vs, 1)
  <2>1. Len(vs) \in Nat /\ 1 \in 1..Len(vs)
    BY FileFields
  <2> QED BY <2>1, FileFields
<1>3. \A k \in b + 1..upto : ts[k] > cut => ts[k] \in had \cup sel
  <2> TAKE k \in b + 1..upto
  <2> HAVE ts[k] > cut
  <2>1. k \in b + 1..line \/ k \in line + 1..upto
    BY <1>2
  <2>2. CASE k \in b + 1..line
    BY <1>1, <1>2, <2>2
  <2>3. CASE k \in line + 1..upto
    <3>1. ts[k] \in KeysIn(ts, line, upto)
      BY <2>3 DEF KeysIn
    <3> QED BY <3>1 DEF SelectedKeys
  <2> QED BY <2>1, <2>2, <2>3
<1> QED BY <1>1, <1>2, <1>3 DEF Filled

\* A chunk of the file that is found at the place of the i-th listed one.
LEMMA ChunkGood ==
  ASSUME NEW ts \in Seq(Nat), NEW fs \in Seq(LogFile), Lines(ts), Chain(fs, Len(ts)),
         NEW vs \in Seq(LogFile), ListGood(ts, fs, vs), NEW i \in 1..Len(vs), NEW off \in Nat,
         NEW cut, NEW had, NEW f, NEW end, NEW consumed, NEW off2, NEW line, NEW upto,
         ChunkAt(fs, vs, i, off, f, end, consumed, off2, line, upto),
         NEW sel, sel = SelectedKeys(ts, line, upto, cut)
  PROVE  /\ sel \subseteq 1..Len(ts) /\ off2 \in Nat
         /\ f.id = vs[i].id /\ f.base = vs[i].base /\ Filled(ts, had, vs, LineAt(vs, i, off), cut) =>
              /\ Filled(ts, had \cup sel, vs, LineAt(vs, i, off2), cut)
              /\ (consumed <= 0 \/ (end = f.size /\ end % 2 = 0)) /\ i # Len(vs) =>
                   Filled(ts, had \cup sel, vs, LineAt(vs, i + 1, 0), cut)
<1>0. /\ f = IF Len(vs) - i < Len(fs) THEN fs[Len(fs) - (Len(vs) - i)] ELSE File(0, 0, 0)
      /\ Chunk(f.size, off, end, consumed, off2)
      /\ line = f.base + off \div 2 /\ upto = f.base + end \div 2
  BY DEF ChunkAt
<1>1. PICK k \in Nat : k = Len(vs) /\ k >= 1 /\ k \in 1..k
  BY FileFields DEF ListGood
<1>2. PICK m \in Nat : m = Len(fs) /\ m >= 1 /\ m \in 1..m
  BY FileFields DEF Chain
<1>3. PICK n \in Nat : n = Len(ts)
  BY LenProperties
<1>4. /\ \A j \in 1..k : Id(vs, j) \in Nat /\ Id(vs, j) # 0 /\ Base(vs, j) \in Nat /\ Size(vs, j) \in Nat
      /\ \A j \in 1..k - 1 :
           /\ Closes(Size(vs, j), Base(vs, j), Base(vs, j + 1))
           /\ \A l \in 1..m : Base(fs, l) = Base(vs, j) => Size(fs, l) = Size(vs, j)
  BY <1>1, <1>2, FileFields DEF ListGood
<1>5. CASE k - i < m
  <2>0. i \in 1..k
    BY <1>1
  <2>1. PICK j \in 1..m : j = m - (k - i)
    <3>1. m - (k - i) \in 1..m
      BY <1>5, <2>0
    <3> QED BY <3>1
  <2>2. f = fs[j]
    BY <1>0, <1>1, <1>2, <1>5, <2>1
  <2>3. f.id = Id(fs, j) /\ f.base = Base(fs, j) /\ f.size = Size(fs, j)
    BY <2>2 DEF Id, Base, Size
  <2>4. PICK b \in Nat : b = Base(fs, j)
    BY <1>2, FileFields
  <2>5. PICK z \in Nat : z = Size(fs, j)
    BY <1>2, FileFields
  <2>a. Chunk(z, off, end, consumed, off2)
    BY <1>0, <2>3, <2>5
  <2>b. PICK h \in Nat : Takes(z, off, end, consumed, off2, h)
    BY <2>a, ChunkNumbers
  <2>6. /\ end \in Nat /\ end <= z /\ h = end \div 2 /\ 2 * h <= z
        /\ consumed = 2 * h - off /\ off2 \in Nat
        /\ (off2 = off /\ 2 * h <= off) \/ (off2 = 2 * h /\ off < 2 * h)
        /\ consumed <= 0 \/ (end = z /\ end % 2 = 0) => z <= 2 * h + 1
    BY <2>b DEF Takes
  <2>7. PICK g \in Nat : g = off \div 2
    BY Halves
  <2>8. line = b + g /\ upto = b + h
    BY <1>0, <2>3, <2>4, <2>6, <2>7
  <2>9. b + h <= n
    <3>0. 2 * h <= z /\ 2 * h \in Nat
      BY <2>6
    <3>1. 2 * h \in Nat /\ 2 * h <= Size(fs, j) /\ j \in 1..Len(fs)
      BY <1>2, <2>5, <3>0
    <3>2. LineAt(fs, j, 2 * h) <= n
      BY <1>3, <3>1, PointsInFile
    <3>3. (2 * h) \div 2 = h
      OBVIOUS
    <3>4. LineAt(fs, j, 2 * h) = b + h
      BY <2>4, <3>3 DEF LineAt, Base
    <3> QED BY <3>2, <3>4
  <2>10. line \in Nat /\ upto \in Nat /\ upto <= Len(ts)
    BY <1>3, <2>8, <2>9
  <2>11. sel \subseteq 1..Len(ts)
    BY <2>10, KeysWritten DEF SelectedKeys
  <2>12. ASSUME f.id = vs[i].id, f.base = vs[i].base, Filled(ts, had, vs, LineAt(vs, i, off), cut)
         PROVE  /\ Filled(ts, had \cup sel, vs, LineAt(vs, i, off2), cut)
                /\ (consumed <= 0 \/ (end = f.size /\ end % 2 = 0)) /\ i # Len(vs) =>
                     Filled(ts, had \cup sel, vs, LineAt(vs, i + 1, 0), cut)
    <3>1. Base(vs, i) = b
      BY <2>3, <2>4, <2>12 DEF Base
    <3>2. LineAt(vs, i, off) = line
      BY <2>7, <2>8, <3>1 DEF LineAt, Base
    <3>3. Filled(ts, had \cup sel, vs, line, cut) /\ Filled(ts, had \cup sel, vs, upto, cut)
      BY <1>1, <2>10, <2>12, <3>2, FillMore
    <3>4. LineAt(vs, i, off2) = line \/ LineAt(vs, i, off2) = upto
      <4>1. CASE off2 = off
        BY <3>2, <4>1
      <4>2. CASE off2 = 2 * h
        <5>1. (2 * h) \div 2 = h
          OBVIOUS
        <5> QED BY <2>8, <3>1, <4>2, <5>1 DEF LineAt, Base
      <4> QED BY <2>6, <4>1, <4>2
    <3>5. Filled(ts, had \cup sel, vs, LineAt(vs, i, off2), cut)
      BY <3>3, <3>4
    <3>6. ASSUME consumed <= 0 \/ (end = f.size /\ end % 2 = 0), i # Len(vs)
          PROVE  Filled(ts, had \cup sel, vs, LineAt(vs, i + 1, 0), cut)
      <4>1. i \in 1..k - 1 /\ i + 1 \in 1..k
        BY <1>1, <3>6
      <4>2. PICK e \in Nat : e = Base(vs, i + 1)
        BY <1>4, <4>1
      <4>3. Closes(z, b, e)
        <5>1. Closes(Size(vs, i), b, e)
          BY <1>4, <3>1, <4>1, <4>2
        <5>2. Size(fs, j) = Size(vs, i)
          BY <1>4, <2>4, <3>1, <4>1
        <5> QED BY <2>5, <5>1, <5>2
      <4>4. 2 * (e - b) <= z /\ z <= 2 * (e - b) + 1
        BY <4>3 DEF Closes
      <4>5. b + h = e
        <5>1. 2 * h <= z /\ z <= 2 * h + 1
          BY <2>3, <2>5, <2>6, <3>6
        <5> QED BY <4>4, <5>1
      <4>6. upto = e
        BY <2>8, <4>5
      <4>7. LineAt(vs, i + 1, 0) = e
        BY <4>2 DEF LineAt, Base
      <4> QED BY <3>3, <4>6, <4>7
    <3> QED BY <3>5, <3>6
  <2> QED BY <2>6, <2>11, <2>12
<1>6. CASE ~ k - i < m
  <2>1. f = File(0, 0, 0)
    BY <1>0, <1>1, <1>2, <1>6
  <2>2. f.id = 0 /\ f.base = 0 /\ f.size = 0
    BY <2>1 DEF File
  <2>a. Chunk(0, off, end, consumed, off2) /\ 0 \in Nat
    BY <1>0, <2>2
  <2>b. PICK h \in Nat : Takes(0, off, end, consumed, off2, h)
    BY <2>a, ChunkNumbers
  <2>3. end \in Nat /\ end <= 0 /\ h = end \div 2 /\ 2 * h <= 0 /\ off2 \in Nat
    BY <2>b DEF Takes
  <2>4. PICK g \in Nat : g = off \div 2
    BY Halves
  <2>5. line = g /\ upto = 0
    <3>1. line = 0 + g /\ upto = 0 + h
      BY <1>0, <2>2, <2>3, <2>4
    <3>2. h = 0
      BY <2>3
    <3> QED BY <3>1, <3>2
  <2>6. line \in Nat /\ upto \in Nat /\ upto <= Len(ts)
    BY <1>3, <2>5
  <2>7. sel \subseteq 1..Len(ts)
    BY <2>6, KeysWritten DEF SelectedKeys
  <2>8. f.id # vs[i].id
    BY <1>1, <1>4, <2>2 DEF Id
  <2> QED BY <2>3, <2>7, <2>8
<1> QED BY <1>5, <1>6

\* The backfill goes on in the file, or is done with it.
LEMMA FillFields ==
  ASSUME NEW f \in Backfill, NEW off \in Nat
  PROVE  /\ [f EXCEPT !.off = off] \in Backfill
         /\ [f EXCEPT !.off = off].pc = f.pc /\ [f EXCEPT !.off = off].s = f.s
         /\ [f EXCEPT !.off = off].files = f.files /\ [f EXCEPT !.off = off].i = f.i
         /\ [f EXCEPT !.off = off].off = off /\ [f EXCEPT !.off = off].cut = f.cut
BY DEF Backfill

\* The backfill goes on to the next file, or to the cursor.
LEMMA NextFields ==
  ASSUME NEW f \in Backfill, NEW off \in Nat, NEW g, g = NextFile(f, off)
  PROVE  /\ g \in Backfill /\ g.s = f.s /\ g.files = f.files /\ g.cut = f.cut
         /\ f.i = Len(f.files) => g.pc = "cursor" /\ g.i = f.i /\ g.off = off
         /\ f.i # Len(f.files) => g.pc = f.pc /\ g.i = f.i + 1 /\ g.off = 0
<1>1. CASE f.i = Len(f.files)
  <2>1. g = [f EXCEPT !.pc = "cursor", !.off = off]
    BY <1>1 DEF NextFile
  <2>2. /\ g.s = f.s /\ g.files = f.files /\ g.cut = f.cut /\ g.pc = "cursor" /\ g.i = f.i
        /\ g.off = off
    BY <2>1 DEF Backfill
  <2>3. g \in Backfill
    BY <2>1 DEF Backfill
  <2> QED BY <1>1, <2>2, <2>3
<1>2. CASE f.i # Len(f.files)
  <2>1. g = [f EXCEPT !.i = f.i + 1, !.off = 0]
    BY <1>2 DEF NextFile
  <2>2. PICK n \in Nat : n = f.i + 1
    BY DEF Backfill
  <2>3. g = [f EXCEPT !.i = n, !.off = 0]
    BY <2>1, <2>2
  <2>4. /\ g.s = f.s /\ g.files = f.files /\ g.cut = f.cut /\ g.pc = f.pc /\ g.i = n /\ g.off = 0
    BY <2>3 DEF Backfill
  <2>5. g \in Backfill
    <3>1. PICK h \in Backfill : h = [f EXCEPT !.i = n]
      BY DEF Backfill
    <3>2. g = [[f EXCEPT !.i = n] EXCEPT !.off = 0]
      BY <2>3
    <3>3. g = [h EXCEPT !.off = 0] /\ 0 \in Nat
      BY <3>1, <3>2
    <3> QED BY <3>3, FillFields
  <2>6. g.i = f.i + 1
    BY <2>2, <2>4
  <2> QED BY <1>2, <2>4, <2>5, <2>6
<1> QED BY <1>1, <1>2

\* New events of one stream: the stream stays good.
LEMMA InsertStep ==
  ASSUME Collecting, NEW s \in Streams, NEW sel, sel \subseteq 1..Len(text[s]),
         NEW again \in Bit, beyond[s] => again, again \/ sel \cap pruned[s] = {},
         Insert(s, sel), beyond' = [beyond EXCEPT ![s] = again], UNCHANGED <<nodeVars, cursor, pruned>>,
         \A t \in Streams : moved[t] => moved'[t]
  PROVE  /\ \A t \in Streams : StreamKept(t)' /\ Had(t) \subseteq Had(t)'
         /\ Had(s)' = Had(s) \cup sel
         /\ stored' \in [Streams -> SUBSET Nat] /\ counted' \in [Streams -> Nat]
         /\ beyond' \in [Streams -> Bit]
<1>1. /\ stored' = [stored EXCEPT ![s] = @ \cup sel]
      /\ counted' = [counted EXCEPT ![s] = @ + Cardinality(sel \ stored[s])]
      /\ text' = text /\ logs' = logs /\ cursor' = cursor /\ pruned' = pruned
  BY DEF Insert, NewIn, nodeVars
<1>2. stored \in [Streams -> SUBSET Nat] /\ counted \in [Streams -> Nat] /\ beyond \in [Streams -> Bit]
  BY DEF Collecting, LogShapes
<1>3. \A t \in Streams :
        /\ text[t] \in Seq(Nat) /\ logs[t] \in Seq(LogFile) /\ cursor[t] \in Cursor
        /\ stored[t] \in SUBSET Nat /\ pruned[t] \in SUBSET Nat /\ counted[t] \in Nat
        /\ beyond[t] \in Bit
        /\ StreamGood(text[t], logs[t], cursor[t], stored[t], pruned[t], counted[t], beyond[t])
        /\ ~moved[t] => KeysIn(text[t], cursor[t].after, cursor[t].n) \subseteq Had(t)
  BY Parts DEF Collecting, StreamKept
<1>4. /\ StreamGood(text[s], logs[s], cursor[s], stored[s] \cup sel, pruned[s],
                    counted[s] + Cardinality(sel \ stored[s]), again)
      /\ counted[s] + Cardinality(sel \ stored[s]) \in Nat /\ stored[s] \cup sel \in SUBSET Nat
  <2>1. Adds(text[s], logs[s], cursor[s], stored[s], pruned[s], counted[s], beyond[s], sel, again)
    BY <1>3 DEF Adds
  <2> QED BY <1>3, <2>1, AddKeys
<1>5. stored' \in [Streams -> SUBSET Nat] /\ counted' \in [Streams -> Nat] /\ beyond' \in [Streams -> Bit]
  BY <1>1, <1>2, <1>4
<1>6. /\ stored'[s] = stored[s] \cup sel /\ counted'[s] = counted[s] + Cardinality(sel \ stored[s])
      /\ beyond'[s] = again
      /\ \A t \in Streams : t # s => /\ stored'[t] = stored[t] /\ counted'[t] = counted[t]
                                     /\ beyond'[t] = beyond[t]
  BY <1>1, <1>2
<1>7. Had(s)' = Had(s) \cup sel
  BY <1>1, <1>6 DEF Had
<1>8. \A t \in Streams : StreamKept(t)' /\ Had(t) \subseteq Had(t)'
  <2> TAKE t \in Streams
  <2>1. CASE t = s
    <3>1. StreamGood(text[s], logs[s], cursor[s], stored'[s], pruned[s], counted'[s], beyond'[s])
      BY <1>4, <1>6
    <3> QED BY <1>1, <1>3, <1>7, <2>1, <3>1 DEF StreamKept
  <2>2. CASE t # s
    <3>1. stored'[t] = stored[t] /\ counted'[t] = counted[t] /\ beyond'[t] = beyond[t] /\ Had(t)' = Had(t)
      BY <1>1, <1>6, <2>2 DEF Had
    <3> QED BY <1>1, <1>3, <3>1 DEF StreamKept
  <2> QED BY <2>1, <2>2
<1> QED BY <1>5, <1>7, <1>8

\* The backfill reads and stores a chunk.
LEMMA ReadChunkStep ==
  ASSUME Collecting, ReadChunk
  PROVE  Collecting'
<1>1. LogShapes /\ FillKept /\ fill.pc = "read"
  BY DEF Collecting, ReadChunk
<1>2. PICK s \in Streams : s = fill.s /\ FillGood(s, fill)
  BY <1>1 DEF FillKept
<1>3. PICK vs \in Seq(LogFile) : vs = fill.files
  BY <1>1, Parts
<1>4. PICK i \in 1..Len(vs) : i = fill.i
  BY <1>2, <1>3 DEF FillGood
<1>5. PICK off \in Nat : off = fill.off
  BY <1>1, Parts
<1>6. PICK cut \in Nat : cut = fill.cut
  BY <1>1, Parts
<1>7. /\ ListGood(text[s], logs[s], vs)
      /\ ~moved[s] => Filled(text[s], Had(s), vs, LineAt(vs, i, off), cut)
  BY <1>1, <1>2, <1>3, <1>4, <1>5, <1>6 DEF FillGood
<1>8. PICK f : f = AtPath(i)
  OBVIOUS
<1>9. f = IF Len(vs) - i < Len(logs[s]) THEN logs[s][Len(logs[s]) - (Len(vs) - i)] ELSE File(0, 0, 0)
  BY <1>2, <1>3, <1>8 DEF AtPath
<1>10. PICK end : end = Least(f.size, off + Limit)
  OBVIOUS
<1>11. PICK consumed : consumed = 2 * (end \div 2) - off
  OBVIOUS
<1>12. PICK off2 : off2 = Greatest(off, off + consumed)
  OBVIOUS
<1>13. PICK line : line = f.base + off \div 2
  OBVIOUS
<1>14. PICK upto : upto = f.base + end \div 2
  OBVIOUS
<1>15. PICK sel : sel = SelectedKeys(text[s], line, upto, cut)
  OBVIOUS
<1> DEFINE over == consumed <= 0 \/ (end = f.size /\ end % 2 = 0)
           same == f.id = vs[i].id /\ f.base = vs[i].base
           again == beyond[s] \/ \E k \in sel : k <= LastOf(text[s]) - RawSpan
<1>16. /\ moved' = [moved EXCEPT ![s] = @ \/ f.id # vs[i].id \/ f.base # vs[i].base]
       /\ \/ fill' = NoFill /\ UNCHANGED <<stored, counted, beyond>>
          \/ /\ Insert(s, sel)
             /\ beyond' = [beyond EXCEPT ![s] = again]
             /\ fill' = IF over THEN NextFile(fill, off2) ELSE [fill EXCEPT !.off = off2]
       /\ UNCHANGED <<nodeVars, cursor, pruned, proc, left>>
  <2>1. sel = {k \in Keys(s, line, upto) : k > cut} /\ Now(s) = LastOf(text[s])
    BY <1>15 DEF SelectedKeys, Keys, KeysIn, Now, LastOf
  <2> HIDE DEF over, again
  <2>2. /\ moved' = [moved EXCEPT ![s] = @ \/ f.id # vs[i].id \/ f.base # vs[i].base]
        /\ \/ fill' = NoFill /\ UNCHANGED <<stored, counted, beyond>>
           \/ /\ Insert(s, sel)
              /\ beyond' = [beyond EXCEPT ![s] = @ \/ \E k \in sel : k <= Now(s) - RawSpan]
              /\ fill' = IF consumed <= 0 \/ (end = f.size /\ end % 2 = 0)
                         THEN NextFile(fill, off2) ELSE [fill EXCEPT !.off = off2]
        /\ UNCHANGED <<nodeVars, cursor, pruned, proc, left>>
    BY SMTT(30), <1>2, <1>3, <1>4, <1>5, <1>6, <1>8, <1>10, <1>11, <1>12, <1>13, <1>14, <2>1 DEF ReadChunk
  <2>3. [beyond EXCEPT ![s] = @ \/ \E k \in sel : k <= Now(s) - RawSpan] = [beyond EXCEPT ![s] = again]
    BY <2>1 DEF again
  <2> QED BY <2>2, <2>3 DEF over
<1>17. /\ text[s] \in Seq(Nat) /\ logs[s] \in Seq(LogFile) /\ Lines(text[s])
       /\ Chain(logs[s], Len(text[s])) /\ Len(text[s]) \in Nat /\ pruned[s] \in SUBSET Nat
       /\ \A k \in pruned[s] : k <= LastOf(text[s]) - RawSpan
       /\ beyond[s] \in Bit
  BY StreamFacts
<1>18. ChunkAt(logs[s], vs, i, off, f, end, consumed, off2, line, upto)
  BY <1>9, <1>10, <1>11, <1>12, <1>13, <1>14 DEF Chunk, ChunkAt
<1>19. /\ sel \subseteq 1..Len(text[s]) /\ off2 \in Nat
       /\ same /\ Filled(text[s], Had(s), vs, LineAt(vs, i, off), cut) =>
            /\ Filled(text[s], Had(s) \cup sel, vs, LineAt(vs, i, off2), cut)
            /\ over /\ i # Len(vs) =>
                 Filled(text[s], Had(s) \cup sel, vs, LineAt(vs, i + 1, 0), cut)
  BY <1>7, <1>15, <1>17, <1>18, ChunkGood
<1>20. moved \in [Streams -> Bit]
  BY <1>1 DEF LogShapes
<1>21. /\ moved' \in [Streams -> Bit] /\ \A t \in Streams : moved[t] => moved'[t]
       /\ ~moved'[s] => ~moved[s] /\ same
  <2>1. (moved[s] \/ f.id # vs[i].id \/ f.base # vs[i].base) \in Bit
    BY DEF Bit
  <2>2. \A t \in Streams : moved'[t] = IF t = s THEN moved[s] \/ f.id # vs[i].id \/ f.base # vs[i].base
                                       ELSE moved[t]
    BY <1>16, <1>20
  <2>3. moved' \in [Streams -> Bit]
    BY <1>16, <1>20, <2>1
  <2> QED BY <2>2, <2>3
<1>a. again \in Bit /\ (beyond[s] => again) /\ (again \/ sel \cap pruned[s] = {})
  <2>1. again \in Bit
    BY DEF Bit
  <2>2. ~again => sel \cap pruned[s] = {}
    BY <1>17
  <2> QED BY <2>1, <2>2
<1> HIDE DEF over, same, again
<1>22. text' = text /\ logs' = logs /\ cursor' = cursor /\ pruned' = pruned /\ proc' = proc
  BY <1>16 DEF nodeVars
<1>23. UNCHANGED nodeVars /\ UNCHANGED <<nodeVars, cursor, pruned>>
  BY <1>16
<1>24. CASE fill' = NoFill /\ UNCHANGED <<stored, counted, beyond>>
  <2>1. fill' \in Backfill /\ FillKept'
    BY <1>24, NoFillShape DEF FillKept
  <2>2. \A t \in Streams : Had(t)' = Had(t)
    BY <1>22, <1>24 DEF Had
  <2>3. LogShapes'
    BY <1>1, <1>21, <1>22, <1>24, <2>1 DEF LogShapes
  <2>4. \A t \in Streams : StreamKept(t)'
    BY <1>21, <1>22, <1>24, <2>2 DEF Collecting, StreamKept
  <2>5. \A t \in Streams : Had(t) \subseteq Had(t)'
    BY <2>2
  <2> QED BY <1>21, <1>22, <1>23, <2>1, <2>3, <2>4, <2>5, BackfillStep
<1>25. CASE /\ Insert(s, sel)
            /\ beyond' = [beyond EXCEPT ![s] = again]
            /\ fill' = IF over THEN NextFile(fill, off2) ELSE [fill EXCEPT !.off = off2]
  <2>2. Insert(s, sel) /\ beyond' = [beyond EXCEPT ![s] = again]
    BY <1>25
  <2>3. /\ \A t \in Streams : StreamKept(t)' /\ Had(t) \subseteq Had(t)'
        /\ Had(s)' = Had(s) \cup sel
        /\ stored' \in [Streams -> SUBSET Nat] /\ counted' \in [Streams -> Nat]
        /\ beyond' \in [Streams -> Bit]
    BY <1>a, <1>19, <1>21, <1>23, <2>2, InsertStep
  <2>4. PICK g \in Backfill : g = fill
    BY <1>1 DEF LogShapes
  <2>5. g.s = s /\ g.files = vs /\ g.i = i /\ g.off = off /\ g.cut = cut /\ g.pc = "read"
    BY <1>1, <1>2, <1>3, <1>4, <1>5, <1>6, <2>4
  <2>6. /\ fill' \in Backfill /\ fill'.s = s /\ fill'.files = vs /\ fill'.cut = cut
        /\ fill'.i \in 1..Len(vs)
        /\ fill'.pc = "cursor" => fill'.i = Len(vs)
        /\ \/ fill'.i = i /\ fill'.off = off2
           \/ over /\ i # Len(vs) /\ fill'.i = i + 1 /\ fill'.off = 0
    <3>1. CASE ~over
      <4>1. fill' = [g EXCEPT !.off = off2]
        BY <1>25, <2>4, <3>1
      <4>2. /\ fill' \in Backfill /\ fill'.s = g.s /\ fill'.files = g.files /\ fill'.cut = g.cut
            /\ fill'.i = g.i /\ fill'.pc = g.pc /\ fill'.off = off2
        BY <1>19, <4>1, FillFields
      <4> QED BY <2>5, <4>2
    <3>2. CASE over
      <4>1. fill' = NextFile(g, off2)
        BY <1>25, <2>4, <3>2
      <4>2. /\ fill' \in Backfill /\ fill'.s = g.s /\ fill'.files = g.files /\ fill'.cut = g.cut
            /\ g.i = Len(g.files) => fill'.pc = "cursor" /\ fill'.i = g.i /\ fill'.off = off2
            /\ g.i # Len(g.files) => fill'.pc = g.pc /\ fill'.i = g.i + 1 /\ fill'.off = 0
        <5>1. PICK x \in Nat : x = off2
          BY <1>19
        <5>2. PICK y : y = fill' /\ y = NextFile(g, x)
          BY <4>1, <5>1
        <5>3. /\ y \in Backfill /\ y.s = g.s /\ y.files = g.files /\ y.cut = g.cut
              /\ g.i = Len(g.files) => y.pc = "cursor" /\ y.i = g.i /\ y.off = x
              /\ g.i # Len(g.files) => y.pc = g.pc /\ y.i = g.i + 1 /\ y.off = 0
          BY <5>2, NextFields
        <5> QED BY <5>1, <5>2, <5>3
      <4>3. Len(vs) \in Nat
        BY LenProperties
      <4>4. CASE i = Len(vs)
        BY <2>5, <4>2, <4>4
      <4>5. CASE i # Len(vs)
        <5>1. i + 1 \in 1..Len(vs)
          BY <4>3, <4>5
        <5> QED BY <2>5, <3>2, <4>2, <4>5, <5>1
      <4> QED BY <4>4, <4>5
    <3> QED BY <3>1, <3>2
  <2>7. ~moved'[s] => Filled(text[s], Had(s)', vs, LineAt(vs, fill'.i, fill'.off), cut)
    <3> HAVE ~moved'[s]
    <3>1. /\ Filled(text[s], Had(s) \cup sel, vs, LineAt(vs, i, off2), cut)
          /\ over /\ i # Len(vs) =>
               Filled(text[s], Had(s) \cup sel, vs, LineAt(vs, i + 1, 0), cut)
      BY <1>7, <1>19, <1>21
    <3> QED BY <2>3, <2>6, <3>1
  <2>8. FillGood(s, fill)'
    BY <1>7, <1>22, <2>6, <2>7 DEF FillGood
  <2>9. FillKept'
    BY <2>6, <2>8 DEF FillKept, FillGood
  <2>10. LogShapes'
    BY <1>1, <1>21, <1>22, <2>3, <2>6 DEF LogShapes
  <2> QED BY <1>21, <1>22, <1>23, <2>3, <2>9, <2>10, BackfillStep
<1> QED BY <1>16, <1>24, <1>25

\* The lines that are not later than a time are the first ones.
LEMMA StretchIsRead ==
  ASSUME NEW ts \in Seq(Nat), Lines(ts), NEW cut \in Nat
  PROVE  /\ Cardinality({n \in DOMAIN ts : ts[n] <= cut}) \in Nat
         /\ \A m \in 1..Len(ts) : m > Cardinality({n \in DOMAIN ts : ts[n] <= cut}) => ts[m] > cut
<1> DEFINE S == {n \in DOMAIN ts : ts[n] <= cut}
<1>1. Len(ts) \in Nat /\ DOMAIN ts = 1..Len(ts) /\ \A n \in 1..Len(ts) : ts[n] \in Nat
  BY LenProperties, ElementOfSeq
<1>2. IsFiniteSet(1..Len(ts))
  BY <1>1, FS_Interval
<1>3. S \in SUBSET (1..Len(ts))
  BY <1>1
<1>4. IsFiniteSet(S) /\ Cardinality(S) \in Nat
  BY <1>2, <1>3, FS_Subset, FS_CardinalityType
<1>5. ASSUME NEW m \in 1..Len(ts), ts[m] <= cut
      PROVE  m <= Cardinality(S)
  <2>1. \A n \in 1..m : n \in 1..Len(ts) /\ ts[n] <= ts[m]
    BY <1>1 DEF Lines
  <2>2. \A n \in 1..m : ts[n] <= cut
    BY <1>1, <1>5, <2>1
  <2>3. 1..m \in SUBSET S
    BY <1>1, <2>1, <2>2
  <2> HIDE DEF S
  <2>4. Cardinality(1..m) <= Cardinality(S)
    BY <1>4, <2>3, FS_Subset
  <2>5. 1 \in Int /\ m \in Int /\ ~ 1 > m
    BY <1>1
  <2>6. Cardinality(1..m) = m - 1 + 1
    BY <2>5, FS_Interval
  <2> QED BY <1>1, <2>4, <2>6
<1>6. ASSUME NEW m \in 1..Len(ts), m > Cardinality(S)
      PROVE  ts[m] > cut
  <2> HIDE DEF S
  <2>1. ~ m <= Cardinality(S)
    BY <1>1, <1>4, <1>6
  <2>2. ~ ts[m] <= cut
    BY <1>5, <2>1
  <2> QED BY <1>1, <2>2
<1> QED BY <1>4, <1>6

\* The cursor that the backfill places: at the offset it has reached in the
\* last file of its list, or at its end.
Placed(ts, vs, k, from, cut, off, got) ==
    /\ off = Least(vs[k].size, from)
    /\ got = [id |-> vs[k].id, off |-> off, n |-> vs[k].base + off \div 2,
              after |-> Greatest(vs[1].base, Cardinality({n \in DOMAIN ts : ts[n] <= cut}))]

\* What it finds collected behind it, the backfill has collected.
Covered(ts, vs, k, from, cut, got) ==
    \A had : Filled(ts, had, vs, LineAt(vs, k, from), cut)
               => KeysIn(ts, got.after, got.n) \subseteq had

\* The cursor that the backfill places.
LEMMA PlacedGood ==
  ASSUME NEW ts \in Seq(Nat), NEW fs \in Seq(LogFile), NEW cur \in Cursor,
         NEW st \in SUBSET Nat, NEW pr \in SUBSET Nat, NEW count \in Nat, NEW over,
         StreamGood(ts, fs, cur, st, pr, count, over), cur.id = 0,
         NEW vs \in Seq(LogFile), ListGood(ts, fs, vs), NEW k, k = Len(vs),
         NEW from \in Nat, NEW cut \in Nat, NEW off, NEW got,
         Placed(ts, vs, k, from, cut, off, got)
  PROVE  /\ got \in Cursor /\ StreamGood(ts, fs, got, st, pr, count, over)
         /\ Covered(ts, vs, k, from, cut, got)
<1>1. k \in Nat /\ k \in 1..k /\ 1 \in 1..k
  BY FileFields DEF ListGood
<1>2. PICK b \in Nat : b = Base(vs, k)
  BY <1>1, FileFields
<1>3. PICK z \in Nat : z = Size(vs, k)
  BY <1>1, FileFields
<1>4. PICK id \in Nat : id = Id(vs, k)
  BY <1>1, FileFields
<1>5. PICK o \in Nat : o = off /\ o <= z /\ o <= from
  <2>1. off = Least(z, from)
    BY <1>3 DEF Size, Placed
  <2>2. Least(z, from) \in Nat /\ Least(z, from) <= z /\ Least(z, from) <= from
    BY DEF Least
  <2> QED BY <2>1, <2>2
<1>6. PICK l \in Nat : l = LineAt(vs, k, o) /\ 2 * l <= 2 * b + o /\ 2 * b + o <= 2 * l + 1
  BY ZenonT(30), <1>1, <1>2, LineNamed
<1>7. l = vs[k].base + off \div 2
  BY <1>5, <1>6 DEF LineAt
<1>8. PICK n \in Nat : n = Len(ts)
  BY LenProperties
<1>9. Points(fs, id, o, l) /\ id # 0 /\ 2 * b + z <= 2 * n + 1
  <2>1. o \in 0..z
    BY <1>5
  <2> QED BY <1>1, <1>2, <1>3, <1>4, <1>6, <1>8, <2>1 DEF ListGood
<1>10. l <= n
  BY <1>5, <1>6, <1>9
<1>11. Lines(ts) /\ Ahead(ts, pr, cur.n) /\ Aims(ts, fs, cur)
  BY DEF StreamGood
<1>12. PICK q \in Nat : q = Cardinality({m \in DOMAIN ts : ts[m] <= cut})
                        /\ \A m \in 1..n : m > q => ts[m] > cut
  BY <1>8, <1>11, StretchIsRead
<1>13. PICK b1 \in Nat : b1 = Base(vs, 1)
  BY <1>1, FileFields
<1>14. PICK a \in Nat : a = Greatest(b1, q) /\ b1 <= a /\ q <= a
  BY DEF Greatest
<1>15. got = [id |-> id, off |-> o, n |-> l, after |-> a]
  <2>1. vs[k].id = id
    BY <1>4 DEF Id
  <2>2. vs[1].base = b1
    BY <1>13 DEF Base
  <2>3. Greatest(vs[1].base, Cardinality({m \in DOMAIN ts : ts[m] <= cut})) = a
    BY <1>12, <1>14, <2>2
  <2>4. off = o
    BY <1>5
  <2>5. got = [id |-> vs[k].id, off |-> off, n |-> vs[k].base + off \div 2,
               after |-> Greatest(vs[1].base, Cardinality({m \in DOMAIN ts : ts[m] <= cut}))]
    BY DEF Placed
  <2> HIDE DEF Greatest
  <2> QED BY <1>7, <2>1, <2>3, <2>4, <2>5
<1>16. got \in Cursor /\ got.id = id /\ got.off = o /\ got.n = l /\ got.after = a
  BY <1>15 DEF Cursor
<1>17. Aims(ts, fs, got)
  BY <1>8, <1>9, <1>10, <1>16 DEF Aims
<1>18. Ahead(ts, pr, got.n)
  <2>1. cur.n = 0
    BY <1>11 DEF Aims
  <2>2. 0 \in Nat /\ 0 <= l /\ Ahead(ts, pr, 0)
    BY <1>11, <2>1
  <2> QED BY <1>16, <2>2, AheadOf
<1>19. StreamGood(ts, fs, got, st, pr, count, over)
  BY <1>16, <1>17, <1>18, SetCursor
<1>20. ASSUME NEW had, Filled(ts, had, vs, LineAt(vs, k, from), cut)
       PROVE  KeysIn(ts, got.after, got.n) \subseteq had
  <2>1. PICK x \in Nat : x = LineAt(vs, k, from) /\ 2 * x <= 2 * b + from /\ 2 * b + from <= 2 * x + 1
    BY ZenonT(30), <1>1, <1>2, LineNamed
  <2>2. l <= x
    <3>1. PICK h \in Nat : h = o \div 2 /\ 2 * h <= o /\ o <= 2 * h + 1
      BY Halves
    <3>2. PICK g \in Nat : g = from \div 2 /\ 2 * g <= from /\ from <= 2 * g + 1
      BY Halves
    <3>3. h <= g
      BY <1>5, <3>1, <3>2
    <3>4. l = b + h /\ x = b + g
      BY <1>2, <1>6, <2>1, <3>1, <3>2 DEF LineAt, Base
    <3> QED BY <3>3, <3>4
  <2>3. \A m \in b1 + 1..x : ts[m] > cut => ts[m] \in had
    BY <1>13, <1>20, <2>1 DEF Filled
  <2>4. \A m \in a + 1..l : m \in b1 + 1..x /\ m \in 1..n /\ m > q
    BY <1>10, <1>14, <2>2
  <2>5. \A m \in a + 1..l : ts[m] \in had
    BY <1>12, <2>3, <2>4
  <2> QED BY <1>16, <2>5 DEF KeysIn
<1> QED BY <1>16, <1>19, <1>20 DEF Covered

\* The backfill places its cursor, or yields to the collector's.
LEMMA PlaceCursorStep ==
  ASSUME Collecting, PlaceCursor
  PROVE  Collecting'
<1>1. LogShapes /\ FillKept /\ fill.pc = "cursor"
  BY DEF Collecting, PlaceCursor
<1>2. PICK s \in Streams : s = fill.s /\ FillGood(s, fill)
  BY <1>1 DEF FillKept
<1>3. PICK vs \in Seq(LogFile) : vs = fill.files
  BY <1>1, Parts
<1>4. PICK from \in Nat : from = fill.off
  BY <1>1, Parts
<1>5. PICK cut \in Nat : cut = fill.cut
  BY <1>1, Parts
<1>6. PICK k : k = Len(vs)
  OBVIOUS
<1>7. /\ ListGood(text[s], logs[s], vs)
      /\ ~moved[s] => Filled(text[s], Had(s), vs, LineAt(vs, k, from), cut)
  BY <1>1, <1>2, <1>3, <1>4, <1>5, <1>6 DEF FillGood
<1>8. PICK off : off = Least(vs[k].size, from)
  OBVIOUS
<1>9. PICK got : got = [id |-> vs[k].id, off |-> off, n |-> vs[k].base + off \div 2,
            after |-> Greatest(vs[1].base, Cardinality({n \in DOMAIN text[s] : text[s][n] <= cut}))]
  OBVIOUS
<1>10. /\ \/ cursor[s].id = 0 /\ cursor' = [cursor EXCEPT ![s] = got]
          \/ UNCHANGED cursor
       /\ fill' = NoFill
       /\ UNCHANGED <<nodeVars, stored, counted, runs, pruned, beyond, proc, moved, left>>
  BY <1>2, <1>3, <1>4, <1>5, <1>6, <1>8, <1>9 DEF PlaceCursor
<1>11. /\ text' = text /\ logs' = logs /\ stored' = stored /\ counted' = counted /\ pruned' = pruned
       /\ beyond' = beyond /\ proc' = proc /\ moved' = moved /\ \A t \in Streams : Had(t)' = Had(t)
  BY <1>10 DEF nodeVars, Had
<1>12. fill' \in Backfill /\ FillKept'
  BY <1>10, NoFillShape DEF FillKept
<1>13. UNCHANGED nodeVars
  BY <1>10
<1>14. \A t \in Streams :
        /\ text[t] \in Seq(Nat) /\ logs[t] \in Seq(LogFile) /\ cursor[t] \in Cursor
        /\ stored[t] \in SUBSET Nat /\ pruned[t] \in SUBSET Nat /\ counted[t] \in Nat
        /\ StreamGood(text[t], logs[t], cursor[t], stored[t], pruned[t], counted[t], beyond[t])
        /\ ~moved[t] => KeysIn(text[t], cursor[t].after, cursor[t].n) \subseteq Had(t)
  BY Parts DEF Collecting, StreamKept
<1>15. cursor \in [Streams -> Cursor]
  BY <1>1 DEF LogShapes
<1>16. cursor' \in [Streams -> Cursor] /\ \A t \in Streams : StreamKept(t)'
  <2>1. CASE cursor[s].id = 0 /\ cursor' = [cursor EXCEPT ![s] = got]
    <3>1. PICK ts \in Seq(Nat) : ts = text[s]
      BY <1>14
    <3>2. Placed(ts, vs, k, from, cut, off, got)
      BY <1>8, <1>9, <3>1 DEF Placed
    <3>3. /\ logs[s] \in Seq(LogFile) /\ cursor[s] \in Cursor /\ cursor[s].id = 0
          /\ stored[s] \in SUBSET Nat /\ pruned[s] \in SUBSET Nat /\ counted[s] \in Nat
          /\ StreamGood(ts, logs[s], cursor[s], stored[s], pruned[s], counted[s], beyond[s])
          /\ ListGood(ts, logs[s], vs)
      BY <1>7, <1>14, <2>1, <3>1
    <3>4. /\ got \in Cursor /\ StreamGood(ts, logs[s], got, stored[s], pruned[s], counted[s], beyond[s])
          /\ Covered(ts, vs, k, from, cut, got)
      BY <1>6, <3>2, <3>3, PlacedGood
    <3>5. ~moved[s] => KeysIn(ts, got.after, got.n) \subseteq Had(s)
      BY <1>7, <3>1, <3>4 DEF Covered
    <3>6. cursor' \in [Streams -> Cursor]
      BY <1>15, <2>1, <3>4
    <3>7. cursor'[s] = got /\ \A t \in Streams : t # s => cursor'[t] = cursor[t]
      BY <1>15, <2>1
    <3>8. ASSUME NEW t \in Streams PROVE StreamKept(t)'
      <4>1. CASE t = s
        BY <1>11, <3>1, <3>4, <3>5, <3>7, <4>1 DEF StreamKept
      <4>2. CASE t # s
        <5>1. cursor'[t] = cursor[t]
          BY <3>7, <4>2
        <5> QED BY <1>11, <1>14, <5>1 DEF StreamKept
      <4> QED BY <4>1, <4>2
    <3> QED BY <3>6, <3>8
  <2>2. CASE UNCHANGED cursor
    BY <1>11, <1>14, <1>15, <2>2 DEF StreamKept
  <2> QED BY <1>10, <2>1, <2>2
<1>17. LogShapes'
  BY <1>1, <1>11, <1>12, <1>16 DEF LogShapes
<1>18. /\ \A t \in Streams : moved[t] => moved'[t]
       /\ \A t \in Streams : Had(t) \subseteq Had(t)'
  BY <1>11
<1> QED BY <1>11, <1>12, <1>13, <1>16, <1>17, <1>18, BackfillStep

-----------------------------------------------------------------------------
(* The invariant and what it says.                                          *)

\* A stream whose log is empty.
LEMMA EmptyStream ==
  ASSUME NEW fs, fs = <<File(1, 0, 0)>>
  PROVE  /\ fs \in Seq(LogFile) /\ NoCursor \in Cursor
         /\ StreamGood(<<>>, fs, NoCursor, {}, {}, 0, FALSE)
         /\ KeysIn(<<>>, NoCursor.after, NoCursor.n) = {}
<1>1. /\ NoCursor \in Cursor /\ NoCursor.id = 0 /\ NoCursor.n = 0 /\ NoCursor.after = 0
  BY DEF NoCursor, Cursor
<1>2. File(1, 0, 0) \in LogFile
  BY DEF File, LogFile
<1>3. fs \in Seq(LogFile) /\ Len(fs) = 1
  BY <1>2
<1>4. Id(fs, 1) = 1 /\ Base(fs, 1) = 0 /\ Size(fs, 1) = 0
  BY DEF File, Id, Base, Size
<1>5. Lines(<<>>)
  BY DEF Lines
<1>6. Chain(fs, 0)
  BY <1>3, <1>4 DEF Chain
<1>7. \A n \in Nat : KeysIn(<<>>, n, 0) = {}
  BY DEF KeysIn
<1>8. Aims(<<>>, fs, NoCursor) /\ Ahead(<<>>, {}, NoCursor.n)
  BY <1>1 DEF Aims, Ahead
<1>9. Tallied(0, Cardinality({} \cup {}), FALSE)
  <2>1. Cardinality({} \cup {}) = 0
    BY FS_EmptySet
  <2> QED BY <2>1 DEF Tallied
<1> QED BY <1>1, <1>3, <1>5, <1>6, <1>7, <1>8, <1>9 DEF StreamGood

\* At first nothing is written or stored.
LEMMA CollectInitHolds ==
  CollectInit => Collecting
<1> SUFFICES ASSUME CollectInit PROVE Collecting
  OBVIOUS
<1>1. PICK fs : fs = <<File(1, 0, 0)>>
  OBVIOUS
<1>2. /\ fs \in Seq(LogFile) /\ NoCursor \in Cursor
      /\ StreamGood(<<>>, fs, NoCursor, {}, {}, 0, FALSE)
      /\ KeysIn(<<>>, NoCursor.after, NoCursor.n) = {}
  BY <1>1, EmptyStream
<1>3. /\ Idle \in Collection /\ \A s \in Streams : Idle.of[s].st = "none"
  <2>1. "idle" \in {"idle", "collect", "committed"}
    OBVIOUS
  <2> QED BY <2>1, IdleProcess
<1>4. FALSE \in Bit /\ <<>> \in Seq(Nat)
  BY DEF Bit
<1>5. /\ text = [s \in Streams |-> <<>>] /\ logs = [s \in Streams |-> fs]
      /\ cursor = [s \in Streams |-> NoCursor] /\ stored = [s \in Streams |-> {}]
      /\ counted = [s \in Streams |-> 0] /\ pruned = [s \in Streams |-> {}]
      /\ proc = [c \in Collectors |-> Idle] /\ fill = NoFill
      /\ beyond = [s \in Streams |-> FALSE] /\ moved = [s \in Streams |-> FALSE]
  BY <1>1 DEF CollectInit
<1> HIDE DEF NoCursor, Idle, NoFill
<1>6. LogShapes
  BY <1>2, <1>3, <1>4, <1>5, NoFillShape DEF LogShapes
<1>7. \A s \in Streams : StreamKept(s)
  BY <1>2, <1>5 DEF StreamKept
<1>8. \A c \in Collectors, s \in Streams : ReadKept(c, s)
  BY <1>3, <1>5 DEF ReadKept
<1>9. FillKept
  BY <1>5, NoFillShape DEF FillKept
<1> QED BY <1>6, <1>7, <1>8, <1>9 DEF Collecting

\* Every action keeps the invariant.
LEMMA CollectNextHolds ==
  Collecting /\ [CollectNext]_collectVars => Collecting'
<1> SUFFICES ASSUME Collecting, [CollectNext]_collectVars
             PROVE  Collecting'
  OBVIOUS
<1>1. CASE CollectEnv
  <2>1. ASSUME NEW s \in Streams, WriteLog(s) \/ RepeatLine(s) \/ RenameLog(s) \/ TruncateLog(s)
        PROVE  Collecting'
    BY <2>1, NodeActions
  <2>2. ASSUME NEW c \in Collectors, KillCollector(c) \/ \E s \in Streams : StreamFails(c, s)
        PROVE  Collecting'
    BY <2>2, RunActions
  <2>3. ASSUME NEW s \in Streams, NEW span \in BackfillSpans, ListFiles(s, span)
        PROVE  Collecting'
    <3>1. span \in Nat
      BY CollectAssumption
    <3> QED BY <2>3, <3>1, ListFilesStep
  <2>4. CASE KillBackfill
    BY <2>4, KillBackfillStep
  <2> QED BY <1>1, <2>1, <2>2, <2>3, <2>4 DEF CollectEnv
<1>2. ASSUME NEW c \in Collectors, CollectStep(c)
      PROVE  Collecting'
  <2>1. CASE StartRun(c) \/ Rest(c) \/ \E s \in Streams : ReadCursor(c, s)
    BY <2>1, RunActions
  <2>2. ASSUME NEW s \in Streams, ReadDelta(c, s)
        PROVE  Collecting'
    BY <2>2, ReadDeltaStep
  <2>3. CASE CommitRun(c)
    BY <2>3, CommitStep
  <2>4. CASE Cleanup(c)
    BY <2>4, CleanupStep
  <2> QED BY <1>2, <2>1, <2>2, <2>3, <2>4 DEF CollectStep
<1>3. CASE ReadChunk
  BY <1>3, ReadChunkStep
<1>4. CASE PlaceCursor
  BY <1>4, PlaceCursorStep
<1>5. CASE UNCHANGED collectVars
  <2>1. UNCHANGED <<nodeVars, storeVars, proc, moved>> /\ fill' = fill
    BY <1>5 DEF collectVars, nodeVars, storeVars
  <2>2. /\ \A s \in Streams : moved[s] => moved'[s]
        /\ \A s \in Streams : Had(s) \subseteq Had(s)'
        /\ pruned' = pruned /\ UNCHANGED nodeVars
    BY <2>1 DEF storeVars, Had
  <2>3. fill' \in Backfill /\ FillKept'
    BY <2>1, <2>2, FillStays DEF Collecting, LogShapes
  <2> QED BY <2>1, <2>3, FillAlone
<1> QED BY <1>1, <1>2, <1>3, <1>4, <1>5 DEF CollectNext

\* Whatever is written, rotated, failed or killed, and in whatever order runs
\* and the backfill commit: every stream, every batch in flight and the
\* backfill's list keep what they stand for, and the state has its types.
THEOREM CollectingHolds ==
  CollectSpec => []Collecting
<1>1. CollectInit => Collecting
  BY CollectInitHolds
<1>2. Collecting /\ [CollectNext]_collectVars => Collecting'
  BY CollectNextHolds
<1> QED BY <1>1, <1>2, PTL DEF CollectSpec

\* The rollups count every event that the database has, or had until the
\* retention, and count it once: over runs that are repeated or overlap, and the
\* backfill beside them (storage.py's INSERT OR IGNORE and its rowcount), unless
\* the backfill has reached beyond the retention.
THEOREM EventsCountedOnce ==
  CollectSpec => []CountedOnce
<1>1. Collecting => CountedOnce
  BY StreamFacts DEF CountedOnce, Tallied, Had
<1> QED BY <1>1, CollectingHolds, PTL

\* No cursor passes a line whose event the database never had, but for a stream
\* whose log changed place under the reader without its being able to tell
\* (remote.py's reads and their cursors, collector.py's commit and backfill).
THEOREM NothingLost ==
  CollectSpec => []NoSilentLoss
<1>1. Collecting => NoSilentLoss
  <2> SUFFICES ASSUME Collecting, NEW s \in Streams, ~moved[s]
               PROVE  Keys(s, cursor[s].after, cursor[s].n) \subseteq stored[s] \cup pruned[s]
    BY DEF NoSilentLoss
  <2>1. KeysIn(text[s], cursor[s].after, cursor[s].n) \subseteq Had(s)
    BY StreamFacts
  <2>2. Keys(s, cursor[s].after, cursor[s].n) = KeysIn(text[s], cursor[s].after, cursor[s].n)
    BY DEF Keys, KeysIn
  <2> QED BY <2>1, <2>2 DEF Had
<1> QED BY <1>1, CollectingHolds, PTL

\* The types of the state: no event is numbered past the last line.
THEOREM CollectTyped ==
  CollectSpec => []CollectTypeOK
<1>1. Collecting => CollectTypeOK
  <2> SUFFICES ASSUME Collecting PROVE CollectTypeOK
    OBVIOUS
  <2>1. LogShapes
    BY DEF Collecting
  <2>2. /\ text \in [Streams -> Seq(Nat)] /\ counted \in [Streams -> Nat]
        /\ cursor \in [Streams -> [id : Nat, off : Nat, n : Nat, after : Nat]]
        /\ beyond \in [Streams -> BOOLEAN] /\ moved \in [Streams -> BOOLEAN]
    BY <2>1 DEF LogShapes, Cursor, Bit
  <2>3. \A s \in Streams : \A i \in DOMAIN logs[s] : logs[s][i] \in [id : Nat, base : Nat, size : Nat]
    <3>1. ASSUME NEW s \in Streams, NEW fs \in Seq(LogFile), fs = logs[s]
          PROVE  \A i \in DOMAIN fs : fs[i] \in LogFile
      OBVIOUS
    <3> QED BY <3>1, StreamFacts DEF LogFile
  <2>4. \A s \in Streams : stored[s] \cup pruned[s] \subseteq 1 .. Len(text[s])
    BY StreamFacts DEF Had
  <2>5. \A c \in Collectors : proc[c].pc \in {"idle", "collect", "committed"}
    BY <2>1, Parts DEF Collection
  <2>6. fill.pc \in {"idle", "read", "cursor"}
    BY <2>1 DEF LogShapes, Backfill
  <2> QED BY <2>2, <2>3, <2>4, <2>5, <2>6 DEF CollectTypeOK
<1> QED BY <1>1, CollectingHolds, PTL

=============================================================================
