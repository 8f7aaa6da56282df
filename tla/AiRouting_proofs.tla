-------------------------- MODULE AiRouting_proofs --------------------------
(***************************************************************************)
(* Proofs about AiRouting, for any domains and bounds: the two locks keep  *)
(* runs and requests apart, the node follows the mode in the database, and *)
(* no visit of a reported window is lost.                                  *)
(*                                                                         *)
(* Three invariants, each of which needs the one before: what the state is *)
(* and who holds the locks (Typed); what the route owes to whom while a    *)
(* request is under way (Steered); what the book and a running manager     *)
(* know of the log (Logged).                                               *)
(***************************************************************************)
EXTENDS AiRouting, SequenceTheorems, TLAPS

Flag == BOOLEAN
Categories == SearchClasses \cup {"none"}
Known == [Domains -> Categories]
Route == [to : 0..2, of : SUBSET Domains]
Report == [from : Int, upto : Nat, kept : SUBSET Nat]
RunSteps == {"off", "gather", "classify", "apply", "record", "report", "book"}
Manager == [pc : RunSteps, mode : Modes, now : Nat, file : Nat, upto : Nat,
            kept : SUBSET Nat, to : 0..2, known : Known]
Call == [pc : {"idle", "launch", "wait", "store", "undo", "rewait"}, want : Modes, was : Modes]

\* What the state is made of.
Shapes ==
  /\ hour \in Nat /\ turn \in Flag /\ pending \in Flag
  /\ visits \in Seq([of : Domains, at : Nat])
  /\ opened \in 0 .. Len(visits) /\ rotated \in SUBSET Nat
  /\ book \in [file : Nat, off : Nat, kept : SUBSET Nat] /\ book.off <= Len(visits)
  /\ decided \in [file : Known, search : SUBSET [known : Known, of : SUBSET Domains]]
  /\ catalog \in [ai : SUBSET Domains, observed : SUBSET [of : Domains, by : Report]]
  /\ catalog.ai \subseteq {o.of : o \in catalog.observed}
  /\ hourly \in SUBSET Report
  /\ mode \in Modes /\ reach \in SUBSET {1, 2}
  /\ route \in [config : Route, synced : Route, loaded : Route]
  /\ managers \in [Managers -> Manager]
  /\ panel \in Call
  /\ \A m \in Managers : managers[m].upto <= Len(visits)

\* Who holds what.
Locked ==
  /\ applying \in {Free} \cup Managers /\ gate \in {Free, "cycle", "panel"}
  /\ \A m \in Managers : managers[m].pc # "off" <=> applying = m
  /\ gate = "panel" <=> panel.pc # "idle"
  /\ gate = "cycle" <=> managers["cycle"].pc # "off"
  /\ panel.pc \in {"wait", "rewait"} => managers["child"].pc # "off"
  /\ panel.pc \in {"store", "undo"} => managers["child"].pc = "off"

Typed == Shapes /\ Locked

\* Routes to a candidate have the builtin domains, and so has what a run knows.
Gathered == RunSteps \ {"off", "gather"}

Forced ==
  /\ \A c \in {"config", "synced", "loaded"} : route[c].to # 0 => Builtin \subseteq route[c].of
  /\ \A m \in Managers : managers[m].pc \in Gathered =>
        \A d \in Builtin : managers[m].known[d] = "ai"

\* What is rendered and on the node's disk is a route of a mode, or the marker
\* says that it may not be.
Loads(md) ==
  pending \/ (route.config.to \in Allowed(md) /\ route.synced.to \in Allowed(md))

\* A fault has parted the route and the mode, other than an upload unmarked.
Parted == drift \ {"unmarked"} # {}

\* What is on the node's disk is loaded, or it is marked or noted that it is not.
Held == ~pending => route.loaded = route.synced \/ "unmarked" \in drift

\* What the node's route owes to the mode in the database and to the requested
\* one, at each step of a run and of a request.
Steered ==
  /\ Held
  /\ panel.pc # "idle" => panel.was = mode
  /\ managers["cycle"].pc \in {"classify", "apply"} /\ managers["cycle"].mode # mode
        => Parted
  /\ panel.pc = "wait" => managers["child"].mode = panel.want
  /\ panel.pc = "rewait" => managers["child"].mode = panel.was
  /\ managers["child"].pc # "off" /\ panel.pc \notin {"wait", "rewait"} => Parted
  /\ \A m \in Managers : managers[m].pc \in {"classify", "apply"} =>
        managers[m].to \in Allowed(managers[m].mode)
  /\ panel.pc \in {"idle", "launch"} => Loads(mode) \/ Parted
  /\ panel.pc = "wait" /\ managers["child"].pc \in {"gather", "classify", "apply"}
        => Loads(mode) \/ Parted
  /\ panel.pc = "wait" /\ managers["child"].pc \in {"record", "report", "book"}
        => Loads(panel.want)
  /\ panel.pc = "store" => Loads(panel.want)
  /\ panel.pc = "rewait" /\ managers["child"].pc \in {"record", "report", "book"}
        => Loads(panel.was)

\* A window's visits are of its two intervals.
InWindowOf(kept, from) ==
  \A i \in kept : i \in 1..Len(visits) /\ visits[i].at \in {from, from + 1}

\* All visits up to one that are no older are kept, or were rotated away unread.
KeptSince(kept, from, upto) ==
  \A i \in 1..upto : visits[i].at >= from => i \in kept \/ i \in rotated

\* What lies between an offset in a file and the open one was rotated away.
Passed(file, off) == file <= opened /\ (file # opened => off + 1 .. opened \subseteq rotated)

Logged ==
  /\ \A i \in 1..Len(visits) : visits[i].at <= hour
  /\ book.kept \subseteq 1..Len(visits)
  /\ KeptSince(book.kept, hour - 1, book.off) /\ Passed(book.file, book.off)
  /\ \A m \in Managers : LET r == managers[m] IN
       r.pc \in Gathered =>
         /\ r.now <= hour /\ book.off <= r.upto
         /\ InWindowOf(r.kept, r.now - 1) /\ KeptSince(r.kept, r.now - 1, r.upto)
         /\ Passed(r.file, r.upto)
  /\ \A r \in hourly \cup {o.by : o \in catalog.observed} :
       r.upto <= Len(visits) /\ InWindowOf(r.kept, r.from)
  /\ \A r \in hourly : KeptSince(r.kept, r.from, r.upto)


-----------------------------------------------------------------------------
(* Sequences, and what the operators of the model return. *)

\* A sequence is a function on 1 to its length into the set of its rows.
LEMMA RowsAre ==
  ASSUME NEW S, NEW s \in Seq(S)
  PROVE  /\ Len(s) \in Nat
         /\ DOMAIN s = 1..Len(s)
         /\ \A i \in 1..Len(s) : s[i] \in S
BY LenProperties

\* An appended row comes after all the others, which stay.
LEMMA RowAdded ==
  ASSUME NEW S, NEW s \in Seq(S), NEW x \in S
  PROVE  /\ Append(s, x) \in Seq(S)
         /\ Len(Append(s, x)) = Len(s) + 1
         /\ Append(s, x)[Len(s) + 1] = x
         /\ \A i \in 1..Len(s) : Append(s, x)[i] = s[i]
BY AppendProperties, LenProperties

\* The direct route is every mode's.
LEMMA DirectAllowed == ASSUME NEW md \in Modes PROVE 0 \in Allowed(md)
BY DEF Modes, Allowed

\* A candidate that is selected is one that the mode may lead to.
LEMMA Selected ==
  ASSUME NEW md \in Modes, NEW up \in SUBSET {1, 2}
  PROVE  Select(md, up) \in 0..2 /\ Select(md, up) \in Allowed(md)
<1>1. CASE md = "auto"
  <2>1. CASE up = {}
    BY <1>1, <2>1 DEF Select, Allowed
  <2>2. CASE up # {}
    <3>1. \E c \in up : \A e \in up : c <= e
      <4>1. CASE 1 \in up
        <5>1. \A e \in up : 1 <= e
          OBVIOUS
        <5> QED
          BY <4>1, <5>1
      <4>2. CASE 1 \notin up
        <5>1. \A e \in up : e = 2
          BY <4>2
        <5>2. \E e : e \in up
          BY <2>2
        <5>3. 2 \in up
          BY <5>1, <5>2
        <5>4. \A e \in up : 2 <= e
          BY <5>1
        <5> QED
          BY <5>3, <5>4
      <4> QED
        BY <4>1, <4>2
    <3>2. PICK least : least = CHOOSE c \in up : \A e \in up : c <= e
      OBVIOUS
    <3>3. least \in up
      BY <3>1, <3>2
    <3>4. Select(md, up) = least
      BY <1>1, <2>2, <3>2 DEF Select
    <3>5. least \in {0, 1, 2} /\ least \in 0..2
      BY <3>3
    <3>6. Allowed(md) = {0, 1, 2}
      BY <1>1 DEF Allowed
    <3> QED
      BY <3>4, <3>5, <3>6
  <2> QED
    BY <2>1, <2>2
<1>2. CASE md = "primary"
  BY <1>2 DEF Select, Allowed
<1>3. CASE md = "backup"
  BY <1>3 DEF Select, Allowed
<1>4. CASE md = "forced_fallback"
  BY <1>4 DEF Select, Allowed
<1> QED
  BY <1>1, <1>2, <1>3, <1>4 DEF Modes

\* The builtin domains are decided whatever was known.
LEMMA BuiltinKnown ==
  ASSUME NEW known \in Known
  PROVE  /\ BuiltinDecided(known) \in Known
         /\ \A d \in Builtin : BuiltinDecided(known)[d] = "ai"
BY AiAssumption DEF BuiltinDecided, Known, Categories, SearchClasses, Classes

\* What a run wants is a route of its candidate, or the direct one.
LEMMA WantedRoute ==
  ASSUME NEW known \in Known, NEW to \in 0..2
  PROVE  /\ Wanted(known, to) \in Route
         /\ Wanted(known, to).to \in {0, to}
         /\ (\A d \in Builtin : known[d] = "ai")
              => (Wanted(known, to).to # 0 => Builtin \subseteq Wanted(known, to).of)
<1>1. Decided(known, "ai") \in SUBSET Domains
  BY DEF Decided
<1>2. (\A d \in Builtin : known[d] = "ai") => Builtin \subseteq Decided(known, "ai")
  BY AiAssumption DEF Decided
<1> DEFINE of == Decided(known, "ai")
<1>3. Wanted(known, to) = IF of = {} \/ to = 0 THEN [to |-> 0, of |-> {}] ELSE [to |-> to, of |-> of]
  BY DEF Wanted, Direct
<1> HIDE DEF of
<1>4. of \in SUBSET Domains /\ ((\A d \in Builtin : known[d] = "ai") => Builtin \subseteq of)
  BY <1>1, <1>2 DEF of
<1>5. CASE of = {} \/ to = 0
  BY <1>3, <1>5 DEF Route
<1>6. CASE ~(of = {} \/ to = 0)
  BY <1>3, <1>4, <1>6 DEF Route
<1> QED
  BY <1>5, <1>6

\* A manager that is off is well-formed.
LEMMA OffManager == Off \in Manager /\ Off.pc = "off"
<1>1. Unknown \in Known
  BY DEF Unknown, Known, Categories
<1> QED
  BY <1>1 DEF Off, Manager, RunSteps, Modes

\* One manager changes and the other stays.
LEMMA OneMoves ==
  ASSUME NEW m \in Managers, NEW x \in Manager,
         managers \in [Managers -> Manager],
         managers' = [managers EXCEPT ![m] = x]
  PROVE  /\ managers' \in [Managers -> Manager]
         /\ managers'[m] = x
         /\ \A n \in Managers \ {m} : managers'[n] = managers[n]
OBVIOUS

\* A manager that goes on to its next step changes nothing else of itself.
LEMMA OneGoes ==
  ASSUME NEW m \in Managers, NEW s \in RunSteps,
         managers \in [Managers -> Manager], Step(m, s)
  PROVE  /\ managers' \in [Managers -> Manager]
         /\ managers'[m].pc = s
         /\ managers'[m].mode = managers[m].mode /\ managers'[m].now = managers[m].now
         /\ managers'[m].file = managers[m].file /\ managers'[m].upto = managers[m].upto
         /\ managers'[m].kept = managers[m].kept /\ managers'[m].to = managers[m].to
         /\ managers'[m].known = managers[m].known
         /\ \A n \in Managers \ {m} : managers'[n] = managers[n]
<1> DEFINE x == [managers[m] EXCEPT !.pc = s]
<1>1. managers[m] \in Manager
  OBVIOUS
<1>2. /\ x \in Manager /\ x.pc = s
      /\ x.mode = managers[m].mode /\ x.now = managers[m].now
      /\ x.file = managers[m].file /\ x.upto = managers[m].upto
      /\ x.kept = managers[m].kept /\ x.to = managers[m].to
      /\ x.known = managers[m].known
  BY <1>1 DEF Manager
<1>3. managers' = [managers EXCEPT ![m] = x]
  BY DEF Step
<1> HIDE DEF x
<1> QED
  BY <1>2, <1>3, OneMoves

\* While a run goes on and nothing happens to the locks, they agree.
LEMMA LocksStay ==
  ASSUME Locked, UNCHANGED <<applying, gate, panel>>,
         \A n \in Managers : managers'[n].pc = "off" <=> managers[n].pc = "off"
  PROVE  Locked'
BY DEF Locked, Managers

\* A run's end frees its locks; a child's exit is its panel's answer.
LEMMA OverLocks ==
  ASSUME Typed, NEW m \in Managers, NEW ok, managers[m].pc # "off", Over(m, ok)
  PROVE  /\ managers' \in [Managers -> Manager] /\ managers'[m] = Off
         /\ \A n \in Managers \ {m} : managers'[n] = managers[n] /\ managers[n].pc = "off"
         /\ panel' \in Call
         /\ m = "cycle" => panel' = panel
         /\ m = "child" => panel' = Answered(ok)
         /\ Locked'
<1>1. Shapes /\ Locked
  BY DEF Typed
<1>2. /\ managers' \in [Managers -> Manager] /\ managers'[m] = Off
      /\ \A n \in Managers \ {m} : managers'[n] = managers[n]
  BY <1>1, OffManager, OneMoves DEF Shapes, Over
<1>3. \A n \in Managers \ {m} : managers[n].pc = "off"
  BY <1>1 DEF Locked
<1>4. m = "child" => panel' = Answered(ok)
  BY DEF Over
<1>5. m = "cycle" => panel' = panel
  BY DEF Over
<1>6. applying' = Free /\ \A n \in Managers : managers'[n].pc = "off"
  BY <1>2, <1>3, OffManager DEF Over
<1>7. CASE m = "cycle"
  <2>1. gate = "cycle" /\ gate' = Free /\ panel' = panel /\ panel.pc = "idle"
    BY <1>1, <1>5, <1>7 DEF Locked, Over
  <2>2. Locked'
    BY <1>6, <2>1 DEF Locked, Free, Managers
  <2> QED
    BY <1>1, <1>2, <1>3, <1>7, <2>1, <2>2 DEF Shapes
<1>8. CASE m = "child"
  <2>1. /\ panel' \in Call
        /\ panel'.pc \in {"store", "launch", "undo", "idle"}
        /\ panel.pc = "idle" => panel'.pc = "idle"
    <3>1. Asleep \in Call /\ Asleep.pc = "idle"
      BY DEF Asleep, Call, Modes
    <3>2. panel \in Call
      BY <1>1 DEF Shapes
    <3>3. [panel EXCEPT !.pc = "store"] \in Call /\ [panel EXCEPT !.pc = "store"].pc = "store"
      BY <3>2 DEF Call
    <3>4. CASE panel.pc = "wait" /\ ok
      BY <1>4, <1>8, <3>3, <3>4 DEF Answered
    <3>5. CASE panel.pc \in {"launch", "undo"}
      BY <1>4, <1>8, <3>2, <3>5 DEF Answered
    <3>6. CASE ~(panel.pc = "wait" /\ ok) /\ panel.pc \notin {"launch", "undo"}
      BY <1>4, <1>8, <3>1, <3>6 DEF Answered
    <3> QED
      BY <3>4, <3>5, <3>6
  <2>2. gate' = IF gate = "panel" /\ panel'.pc = "idle" THEN Free ELSE gate
    BY <1>8 DEF Over
  <2>3. gate # "cycle"
    BY <1>1, <1>3, <1>8 DEF Locked, Managers
  <2>4. Locked'
    BY <1>1, <1>6, <2>1, <2>2, <2>3 DEF Locked, Free, Managers
  <2> QED
    BY <1>2, <1>3, <1>4, <1>8, <2>1, <2>4
<1> QED
  BY <1>7, <1>8 DEF Managers

-----------------------------------------------------------------------------
(* What a step leaves alone. *)

Routing == Typed /\ Forced /\ Steered /\ Logged

\* A step that touches neither the log, the book nor the reports, and gathers
\* nothing, keeps what is known of them.
LEMMA LoggedStays ==
  ASSUME Logged, UNCHANGED <<hour, visits, opened, rotated, book, catalog, hourly>>,
         \A m \in Managers : managers'[m].pc \in Gathered =>
           /\ managers[m].pc \in Gathered
           /\ managers'[m].now = managers[m].now /\ managers'[m].file = managers[m].file
           /\ managers'[m].upto = managers[m].upto /\ managers'[m].kept = managers[m].kept
  PROVE  Logged'
<1>1. /\ \A i \in 1..Len(visits') : visits'[i].at <= hour'
      /\ book'.kept \subseteq 1..Len(visits')
      /\ KeptSince(book.kept, hour - 1, book.off)' /\ Passed(book.file, book.off)'
  BY DEF Logged, KeptSince, Passed
<1>2. ASSUME NEW m \in Managers, managers'[m].pc \in Gathered
      PROVE  /\ managers'[m].now <= hour' /\ book'.off <= managers'[m].upto
             /\ InWindowOf(managers[m].kept, managers[m].now - 1)'
             /\ KeptSince(managers[m].kept, managers[m].now - 1, managers[m].upto)'
             /\ Passed(managers[m].file, managers[m].upto)'
  BY <1>2 DEF Logged, InWindowOf, KeptSince, Passed
<1>3. ASSUME NEW r \in hourly' \cup {o.by : o \in catalog'.observed}
      PROVE  r.upto <= Len(visits') /\ InWindowOf(r.kept, r.from)'
  BY <1>3 DEF Logged, InWindowOf
<1>4. ASSUME NEW r \in hourly'
      PROVE  KeptSince(r.kept, r.from, r.upto)'
  BY <1>4 DEF Logged, KeptSince
<1> QED
  BY <1>1, <1>2, <1>3, <1>4 DEF Logged

\* A step that touches no route and learns nothing keeps the builtin domains.
LEMMA ForcedStays ==
  ASSUME Forced, UNCHANGED route,
         \A m \in Managers : managers'[m].pc \in Gathered =>
           managers[m].pc \in Gathered /\ managers'[m].known = managers[m].known
  PROVE  Forced'
BY DEF Forced

\* A step of the world: no run, no request and no route is touched.
LEMMA SteeredStays ==
  ASSUME Steered, UNCHANGED <<mode, route, pending, panel, drift, managers>>
  PROVE  Steered'
BY DEF Steered, Loads, Held, Parted

\* A step of the world keeps the locks too.
LEMMA WorldStep ==
  ASSUME Routing, Shapes', Logged', UNCHANGED <<mode, route, pending, panel, drift, managers,
                                               applying, gate>>
  PROVE  Routing'
<1>1. Locked'
  BY DEF Routing, Typed, Locked
<1>2. Steered'
  BY SteeredStays DEF Routing
<1>3. Forced'
  BY ForcedStays DEF Routing
<1> QED
  BY <1>1, <1>2, <1>3 DEF Routing, Typed

-----------------------------------------------------------------------------
(* The world. *)

\* A boundary passes: what the look-back covers is less.
LEMMA HourPassesStep ==
  ASSUME Routing, HourPasses
  PROVE  Routing'
<1>1. /\ Shapes /\ Logged /\ hour \in Nat /\ hour' = hour + 1 /\ turn' = TRUE
      /\ UNCHANGED <<visits, opened, rotated, book, catalog, hourly, decided, mode, reach,
                     route, pending, managers, applying, gate, panel, drift>>
  BY DEF Routing, Typed, Shapes, HourPasses, logVars, noteVars, routeVars, lockVars
<1>2. Shapes'
  BY <1>1 DEF Shapes, Flag
<1>3. Logged'
  <2>1. \A i \in 1..Len(visits) : visits[i].at <= hour /\ visits[i].at \in Nat
    <3>1. visits \in Seq([of : Domains, at : Nat])
      BY <1>1 DEF Shapes
    <3>2. \A i \in 1..Len(visits) : visits[i] \in [of : Domains, at : Nat]
      BY <3>1, RowsAre
    <3>3. \A i \in 1..Len(visits) : visits[i].at <= hour
      BY <1>1 DEF Logged
    <3> QED
      BY <3>2, <3>3
  <2>2. \A i \in 1..Len(visits') : visits'[i].at <= hour'
    BY <1>1, <2>1
  <2>3. KeptSince(book.kept, hour - 1, book.off)'
    <3> SUFFICES ASSUME NEW i \in 1..book.off, visits[i].at >= hour + 1 - 1
                 PROVE  i \in book.kept \/ i \in rotated
      BY <1>1 DEF KeptSince
    <3>1. i \in 1..Len(visits) /\ Len(visits) \in Nat
      BY <1>1, LenProperties DEF Shapes
    <3>2. visits[i].at >= hour - 1
      BY <1>1, <2>1, <3>1
    <3> QED
      BY <1>1, <3>2 DEF Logged, KeptSince
  <2>4. Passed(book.file, book.off)' /\ book'.kept \subseteq 1..Len(visits')
    BY <1>1 DEF Logged, Passed
  <2>5. ASSUME NEW m \in Managers, managers'[m].pc \in Gathered
        PROVE  /\ managers'[m].now <= hour' /\ book'.off <= managers'[m].upto
               /\ InWindowOf(managers[m].kept, managers[m].now - 1)'
               /\ KeptSince(managers[m].kept, managers[m].now - 1, managers[m].upto)'
               /\ Passed(managers[m].file, managers[m].upto)'
    <3>1. managers[m] \in Manager
      BY <1>1 DEF Shapes
    <3>2. managers[m].now \in Nat /\ managers[m].now <= hour
      BY <1>1, <2>5, <3>1 DEF Manager, Logged
    <3> QED
      BY <1>1, <2>5, <3>2 DEF Logged, InWindowOf, KeptSince, Passed
  <2>6. ASSUME NEW r \in hourly' \cup {o.by : o \in catalog'.observed}
        PROVE  r.upto <= Len(visits') /\ InWindowOf(r.kept, r.from)'
    BY <1>1, <2>6 DEF Logged, InWindowOf
  <2>7. ASSUME NEW r \in hourly'
        PROVE  KeptSince(r.kept, r.from, r.upto)'
    BY <1>1, <2>7 DEF Logged, KeptSince
  <2> QED
    BY <2>2, <2>3, <2>4, <2>5, <2>6, <2>7 DEF Logged
<1> QED
  BY <1>1, <1>2, <1>3, WorldStep

\* A visit is the last line of the log, of this interval, and not read yet.
LEMMA VisitStep ==
  ASSUME Routing, NEW d \in Domains, Visit(d)
  PROVE  Routing'
<1> DEFINE new == [of |-> d, at |-> hour]
<1>1. /\ Shapes /\ Logged /\ hour \in Nat /\ visits' = Append(visits, new)
      /\ UNCHANGED <<hour, turn, opened, rotated, book, catalog, hourly, decided, mode, reach,
                     route, pending, managers, applying, gate, panel, drift>>
  BY DEF Routing, Typed, Shapes, Visit, timeVars, logVars, noteVars, routeVars, lockVars
<1>2. new \in [of : Domains, at : Nat] /\ new.at = hour
  BY <1>1
<1> HIDE DEF new
<1>3. /\ visits' \in Seq([of : Domains, at : Nat]) /\ Len(visits') = Len(visits) + 1
      /\ visits'[Len(visits) + 1] = new /\ \A i \in 1..Len(visits) : visits'[i] = visits[i]
      /\ Len(visits) \in Nat
  BY <1>1, <1>2, RowAdded, LenProperties DEF Shapes
<1>4. Shapes'
  <2>1. \A m \in Managers : managers[m].upto \in Nat
    BY <1>1 DEF Shapes, Manager
  <2>2. book.off \in Nat
    BY <1>1 DEF Shapes
  <2> QED
    BY <1>1, <1>3, <2>1, <2>2 DEF Shapes
<1>5. Logged'
  <2>1. \A i \in 1..Len(visits') : visits'[i].at <= hour'
    BY <1>1, <1>2, <1>3 DEF Logged
  <2>2. book'.kept \subseteq 1..Len(visits')
    BY <1>1, <1>3 DEF Logged
  <2>3. KeptSince(book.kept, hour - 1, book.off)' /\ Passed(book.file, book.off)'
    <3>1. \A i \in 1..book.off : visits'[i] = visits[i]
      BY <1>1, <1>3 DEF Shapes
    <3> QED
      BY <1>1, <3>1 DEF Logged, KeptSince, Passed
  <2>4. ASSUME NEW m \in Managers, managers'[m].pc \in Gathered
        PROVE  /\ managers'[m].now <= hour' /\ book'.off <= managers'[m].upto
               /\ InWindowOf(managers[m].kept, managers[m].now - 1)'
               /\ KeptSince(managers[m].kept, managers[m].now - 1, managers[m].upto)'
               /\ Passed(managers[m].file, managers[m].upto)'
    <3>1. managers[m].upto \in Nat /\ managers[m].upto <= Len(visits)
      BY <1>1 DEF Shapes, Manager
    <3>2. \A i \in 1..managers[m].upto : visits'[i] = visits[i]
      BY <1>3, <3>1
    <3>3. /\ managers[m].now <= hour /\ book.off <= managers[m].upto
          /\ InWindowOf(managers[m].kept, managers[m].now - 1)
          /\ KeptSince(managers[m].kept, managers[m].now - 1, managers[m].upto)
          /\ Passed(managers[m].file, managers[m].upto)
      BY <1>1, <2>4 DEF Logged
    <3>4. InWindowOf(managers[m].kept, managers[m].now - 1)'
      BY <1>1, <1>3, <3>3 DEF InWindowOf
    <3>5. KeptSince(managers[m].kept, managers[m].now - 1, managers[m].upto)'
      BY <1>1, <3>2, <3>3 DEF KeptSince
    <3>6. Passed(managers[m].file, managers[m].upto)'
      BY <1>1, <3>3 DEF Passed
    <3> QED
      BY <1>1, <3>3, <3>4, <3>5, <3>6
  <2>5. ASSUME NEW r \in hourly' \cup {o.by : o \in catalog'.observed}
        PROVE  r.upto <= Len(visits') /\ InWindowOf(r.kept, r.from)'
    <3>1. r \in Report
      BY <1>1, <2>5 DEF Shapes
    <3>2. r.upto <= Len(visits) /\ InWindowOf(r.kept, r.from) /\ r.upto \in Nat
      BY <1>1, <2>5, <3>1 DEF Logged, Report
    <3> QED
      BY <1>3, <3>2 DEF InWindowOf
  <2>6. ASSUME NEW r \in hourly'
        PROVE  KeptSince(r.kept, r.from, r.upto)'
    <3>1. r.upto \in Nat /\ r.upto <= Len(visits)
      BY <1>1, <2>6 DEF Shapes, Report, Logged
    <3>2. \A i \in 1..r.upto : visits'[i] = visits[i]
      BY <1>3, <3>1
    <3> QED
      BY <1>1, <2>6, <3>2 DEF Logged, KeptSince
  <2> QED
    BY <2>1, <2>2, <2>3, <2>4, <2>5, <2>6 DEF Logged
<1> QED
  BY <1>1, <1>4, <1>5, WorldStep

\* The log is rotated: what the book has not counted may be lost, and whoever
\* has read further has read it.
LEMMA RotateStep ==
  ASSUME Routing, Rotate
  PROVE  Routing'
<1>1. /\ Shapes /\ Logged /\ Len(visits) \in Nat /\ opened \in Nat /\ opened < Len(visits)
      /\ opened' = Len(visits) /\ rotated' = rotated \cup book.off + 1 .. Len(visits)
      /\ UNCHANGED <<hour, turn, visits, book, catalog, hourly, decided, mode, reach,
                     route, pending, managers, applying, gate, panel, drift>>
  BY LenProperties DEF Routing, Typed, Shapes, Rotate, timeVars, logVars, noteVars, routeVars,
     lockVars
<1>2. book.off \in Nat /\ book.file \in Nat
  BY <1>1 DEF Shapes
<1>3. Shapes'
  BY <1>1, <1>2 DEF Shapes
<1>4. ASSUME NEW f \in Nat, NEW o \in Nat, Passed(f, o), book.off <= o
      PROVE  Passed(f, o)'
  BY <1>1, <1>2, <1>4 DEF Passed
<1>5. Logged'
  <2>1. KeptSince(book.kept, hour - 1, book.off)' /\ Passed(book.file, book.off)'
    BY <1>1, <1>2, <1>4 DEF Logged, KeptSince
  <2>2. ASSUME NEW m \in Managers, managers'[m].pc \in Gathered
        PROVE  /\ managers'[m].now <= hour' /\ book'.off <= managers'[m].upto
               /\ InWindowOf(managers[m].kept, managers[m].now - 1)'
               /\ KeptSince(managers[m].kept, managers[m].now - 1, managers[m].upto)'
               /\ Passed(managers[m].file, managers[m].upto)'
    <3>1. managers[m].upto \in Nat /\ managers[m].file \in Nat
      BY <1>1 DEF Shapes, Manager
    <3>2. Passed(managers[m].file, managers[m].upto) /\ book.off <= managers[m].upto
      BY <1>1, <2>2 DEF Logged
    <3>3. Passed(managers[m].file, managers[m].upto)'
      BY <1>1, <1>4, <3>1, <3>2
    <3> QED
      BY <1>1, <2>2, <3>3 DEF Logged, InWindowOf, KeptSince
  <2>3. ASSUME NEW r \in hourly' \cup {o.by : o \in catalog'.observed}
        PROVE  r.upto <= Len(visits') /\ InWindowOf(r.kept, r.from)'
    BY <1>1, <2>3 DEF Logged, InWindowOf
  <2>4. ASSUME NEW r \in hourly'
        PROVE  KeptSince(r.kept, r.from, r.upto)'
    BY <1>1, <2>4 DEF Logged, KeptSince
  <2>5. /\ \A i \in 1..Len(visits') : visits'[i].at <= hour'
        /\ book'.kept \subseteq 1..Len(visits')
    BY <1>1 DEF Logged
  <2> QED
    BY <2>1, <2>2, <2>3, <2>4, <2>5 DEF Logged
<1> QED
  BY <1>1, <1>3, <1>5, WorldStep

\* A candidate can be reached no more, or again.
LEMMA ReachChangesStep ==
  ASSUME Routing, ReachChanges
  PROVE  Routing'
<1>1. /\ Shapes /\ Logged /\ reach' \in SUBSET {1, 2}
      /\ UNCHANGED <<hour, turn, visits, opened, rotated, book, catalog, hourly, decided, mode,
                     route, pending, managers, applying, gate, panel, drift>>
  BY DEF Routing, Typed, ReachChanges, timeVars, logVars, noteVars, routeVars, lockVars
<1>2. Shapes'
  BY <1>1 DEF Shapes
<1>3. Logged'
  BY <1>1, LoggedStays
<1> QED
  BY <1>1, <1>2, <1>3, WorldStep

\* The node loads what is on its disk, which it has unless the marker stands.
LEMMA NodeRestartsStep ==
  ASSUME Routing, NodeRestarts
  PROVE  Routing'
<1>1. /\ Shapes /\ Locked /\ Logged /\ Forced /\ Steered
      /\ route' = [route EXCEPT !.loaded = route.synced]
      /\ drift' = drift \ {"unmarked"}
      /\ UNCHANGED <<hour, turn, visits, opened, rotated, book, catalog, hourly, decided, mode,
                     reach, pending, managers, applying, gate, panel>>
  BY DEF Routing, Typed, NodeRestarts, timeVars, logVars, noteVars, routeVars, lockVars
<1>2. /\ route' \in [config : Route, synced : Route, loaded : Route]
      /\ route'.config = route.config /\ route'.synced = route.synced
      /\ route'.loaded = route.synced
  BY <1>1 DEF Shapes
<1>3. Shapes' /\ Locked'
  BY <1>1, <1>2 DEF Shapes, Locked
<1>4. Logged'
  BY <1>1, LoggedStays
<1>5. Forced'
  BY <1>1, <1>2 DEF Forced
<1>6. /\ \A md : Loads(md)' <=> Loads(md)
      /\ Parted' <=> Parted
      /\ Held'
  BY <1>1, <1>2 DEF Loads, Allowed, Parted, Held
<1>7. Steered'
  BY <1>1, <1>6 DEF Steered, Allowed
<1> QED
  BY <1>3, <1>4, <1>5, <1>7 DEF Routing, Typed

-----------------------------------------------------------------------------
(* A run of the manager. *)

\* A run that only goes on, with the route and the request as they are.
LEMMA SteeredGoesOn ==
  ASSUME Steered, UNCHANGED <<mode, route, pending, panel, drift>>,
         \A n \in Managers :
           /\ managers'[n].mode = managers[n].mode /\ managers'[n].to = managers[n].to
           /\ managers'[n].pc \in {"classify", "apply"} => managers[n].pc \in {"classify", "apply"}
           /\ managers'[n].pc \in {"record", "report", "book"}
                => managers[n].pc \in {"record", "report", "book"},
         managers'["child"].pc # "off" => managers["child"].pc # "off",
         managers'["child"].pc \in {"gather", "classify", "apply"}
           => managers["child"].pc \in {"gather", "classify", "apply"}
  PROVE  Steered'
<1>1. /\ \A md : Loads(md)' <=> Loads(md)
      /\ Parted' <=> Parted
      /\ Held' <=> Held
  BY DEF Loads, Allowed, Parted, Held
<1> QED
  BY <1>1 DEF Steered, Managers

\* The resident manager takes both locks.
LEMMA CycleStartsStep ==
  ASSUME Routing, CycleStarts
  PROVE  Routing'
<1>1. /\ Shapes /\ Locked /\ Logged /\ Forced /\ Steered
      /\ managers["cycle"].pc = "off" /\ gate = Free /\ applying = Free
      /\ gate' = "cycle" /\ applying' = "cycle" /\ turn' = FALSE
      /\ Step("cycle", "gather")
      /\ UNCHANGED <<hour, visits, opened, rotated, book, catalog, hourly, decided, mode,
                     reach, route, pending, panel, drift>>
  BY DEF Routing, Typed, CycleStarts, Step, logVars, noteVars, routeVars
<1>2. /\ managers' \in [Managers -> Manager] /\ managers'["cycle"].pc = "gather"
      /\ \A n \in Managers : /\ managers'[n].mode = managers[n].mode
                             /\ managers'[n].to = managers[n].to
                             /\ managers'[n].upto = managers[n].upto
      /\ managers'["child"] = managers["child"]
  BY <1>1, OneGoes DEF Shapes, Managers, RunSteps
<1>3. Shapes'
  BY <1>1, <1>2 DEF Shapes, Flag
<1>4. Locked'
  BY <1>1, <1>2 DEF Locked, Managers, Free
<1>5. Logged'
  BY <1>1, <1>2, LoggedStays DEF Gathered, Managers
<1>6. Forced'
  BY <1>1, <1>2, ForcedStays DEF Gathered, Managers
<1>7. Steered'
  BY <1>1, <1>2, SteeredGoesOn DEF Managers
<1> QED
  BY <1>3, <1>4, <1>5, <1>6, <1>7 DEF Routing, Typed

\* The boundary passes without a run.
LEMMA CycleIsBusyStep ==
  ASSUME Routing, CycleIsBusy
  PROVE  Routing'
<1>1. /\ Shapes /\ Logged /\ turn' = FALSE
      /\ UNCHANGED <<hour, visits, opened, rotated, book, catalog, hourly, decided, mode, reach,
                     route, pending, managers, applying, gate, panel, drift>>
  BY DEF Routing, Typed, CycleIsBusy, logVars, noteVars, routeVars, lockVars
<1>2. Shapes'
  BY <1>1 DEF Shapes, Flag
<1>3. Logged'
  BY <1>1, LoggedStays
<1> QED
  BY <1>1, <1>2, <1>3, WorldStep

\* What a run gathers is the look-back, but for what was rotated away unread.
LEMMA WindowGathered ==
  ASSUME Shapes, Logged
  PROVE  /\ InWindow(book.kept \cup Unbooked) \in SUBSET Nat
         /\ InWindowOf(InWindow(book.kept \cup Unbooked), hour - 1)
         /\ KeptSince(InWindow(book.kept \cup Unbooked), hour - 1, Len(visits))
<1>1. /\ hour \in Nat /\ Len(visits) \in Nat /\ opened \in Nat /\ opened <= Len(visits)
      /\ book.off \in Nat /\ book.off <= Len(visits) /\ book.file \in Nat
  BY LenProperties DEF Shapes
<1>2. \A i \in 1..Len(visits) : visits[i].at \in Nat /\ visits[i].at <= hour
  <2>1. visits \in Seq([of : Domains, at : Nat])
    BY DEF Shapes
  <2>2. \A i \in 1..Len(visits) : visits[i] \in [of : Domains, at : Nat]
    BY <2>1, RowsAre
  <2>3. \A i \in 1..Len(visits) : visits[i].at <= hour
    BY DEF Logged
  <2> QED
    BY <2>2, <2>3
<1> DEFINE all == book.kept \cup Unbooked
<1>3. /\ Unbooked \subseteq 1..Len(visits)
      /\ book.kept \subseteq 1..Len(visits)
  BY <1>1 DEF Unbooked, Logged
<1>4. all \subseteq 1..Len(visits)
  BY <1>3
<1>5. ASSUME NEW i \in 1..Len(visits), visits[i].at >= hour - 1
      PROVE  i \in all \/ i \in rotated
  <2>1. CASE i <= book.off
    BY <1>1, <1>5, <2>1 DEF Logged, KeptSince
  <2>2. CASE book.off < i /\ book.file = opened
    BY <1>1, <2>2 DEF Unbooked
  <2>3. CASE book.off < i /\ book.file # opened /\ i <= opened
    BY <1>1, <2>3 DEF Logged, Passed
  <2>4. CASE book.file # opened /\ opened < i
    BY <1>1, <2>4 DEF Unbooked
  <2> QED
    BY <1>1, <2>1, <2>2, <2>3, <2>4
<1> HIDE DEF all
<1>6. InWindow(all) \in SUBSET Nat /\ InWindowOf(InWindow(all), hour - 1)
  <2>1. InWindow(all) \subseteq 1..Len(visits) /\ \A i \in InWindow(all) : visits[i].at >= hour - 1
    BY <1>4 DEF InWindow
  <2>2. \A i \in InWindow(all) : visits[i].at \in {hour - 1, hour}
    BY <1>1, <1>2, <2>1
  <2>3. hour - 1 + 1 = hour /\ 1..Len(visits) \subseteq Nat
    BY <1>1
  <2> QED
    BY <2>1, <2>2, <2>3 DEF InWindowOf
<1>7. KeptSince(InWindow(all), hour - 1, Len(visits))
  BY <1>5 DEF InWindow, KeptSince
<1> QED
  BY <1>6, <1>7 DEF all

\* A run reads the log past its book, and selects a candidate for its mode.
LEMMA GatherStep ==
  ASSUME Routing, NEW m \in Managers, Gather(m)
  PROVE  Routing'
<1>1. /\ Shapes /\ Locked /\ Logged /\ Forced /\ Steered
      /\ managers[m].pc = "gather"
      /\ decided' = [decided EXCEPT !.file = BuiltinDecided(@)]
      /\ UNCHANGED <<hour, turn, visits, opened, rotated, book, catalog, hourly, mode, reach,
                     route, pending, applying, gate, panel>>
  BY DEF Routing, Typed, Gather, timeVars, logVars, noteVars, routeVars, lockVars
<1>2. PICK unread \in BOOLEAN, unprobed \in BOOLEAN :
        /\ unread => m = "cycle"
        /\ managers' = [managers EXCEPT ![m] =
              [pc |-> "classify", mode |-> ModeOf(m, unread), now |-> hour,
               file |-> opened, upto |-> Len(visits), kept |-> InWindow(book.kept \cup Unbooked),
               to |-> Select(ModeOf(m, unread), Probed(unprobed)),
               known |-> BuiltinDecided(decided.file)]]
        /\ drift' = IF unread THEN drift \cup {"unread"} ELSE drift
  BY DEF Gather
<1>3. PICK kept : kept = InWindow(book.kept \cup Unbooked)
  OBVIOUS
<1>4. kept \in SUBSET Nat /\ InWindowOf(kept, hour - 1) /\ KeptSince(kept, hour - 1, Len(visits))
  BY <1>1, <1>3, WindowGathered
<1>5. PICK md : md = ModeOf(m, unread)
  OBVIOUS
<1>6. /\ md \in Modes
      /\ m = "child" => md = managers[m].mode
      /\ m = "cycle" /\ md # mode => Parted'
  <2>1. mode \in Modes /\ managers[m].mode \in Modes /\ "auto" \in Modes
    BY <1>1 DEF Shapes, Manager, Modes
  <2>2. md = IF m = "child" THEN managers[m].mode ELSE IF unread THEN "auto" ELSE mode
    BY <1>5 DEF ModeOf
  <2>3. unread => Parted'
    BY <1>2 DEF Parted
  <2> QED
    BY <2>1, <2>2, <2>3
<1>7. PICK to : to = Select(md, Probed(unprobed))
  OBVIOUS
<1>8. to \in 0..2 /\ to \in Allowed(md)
  <2>1. PICK up : up = Probed(unprobed)
    OBVIOUS
  <2>2. up \in SUBSET {1, 2}
    BY <1>1, <2>1 DEF Probed, Shapes
  <2> QED
    BY <1>6, <1>7, <2>1, <2>2, Selected
<1>9. PICK known : known = BuiltinDecided(decided.file)
  OBVIOUS
<1>10. known \in Known /\ \A d \in Builtin : known[d] = "ai"
  BY <1>1, <1>9, BuiltinKnown DEF Shapes
<1>11. PICK r : r = [pc |-> "classify", mode |-> md, now |-> hour, file |-> opened,
                     upto |-> Len(visits), kept |-> kept, to |-> to, known |-> known]
  OBVIOUS
<1>12. /\ r.pc = "classify" /\ r.mode = md /\ r.now = hour /\ r.file = opened
       /\ r.upto = Len(visits) /\ r.kept = kept /\ r.to = to /\ r.known = known
  BY <1>11
<1>13. Len(visits) \in Nat /\ hour \in Nat /\ opened \in Nat /\ book.off <= Len(visits)
  BY <1>1, LenProperties DEF Shapes
<1>14. r \in Manager
  BY <1>4, <1>6, <1>8, <1>10, <1>11, <1>13 DEF Manager, RunSteps
<1>15. managers' = [managers EXCEPT ![m] = r]
  BY <1>2, <1>3, <1>5, <1>7, <1>9, <1>11
<1>16. /\ managers' \in [Managers -> Manager] /\ managers'[m] = r
       /\ \A n \in Managers \ {m} : managers'[n] = managers[n]
  BY <1>1, <1>14, <1>15, OneMoves DEF Shapes
<1>17. decided' \in [file : Known, search : SUBSET [known : Known, of : SUBSET Domains]]
  BY <1>1, <1>9, <1>10 DEF Shapes
<1>18. \A n \in Managers : managers'[n].upto <= Len(visits)
  BY <1>1, <1>12, <1>13, <1>16 DEF Shapes
<1>19. Shapes'
  BY <1>1, <1>16, <1>17, <1>18 DEF Shapes
<1>20. Locked'
  BY <1>1, <1>12, <1>16, LocksStay
<1>21. Forced'
  BY <1>1, <1>10, <1>12, <1>16 DEF Forced
<1>22. Logged'
  <2>1. /\ \A i \in 1..Len(visits') : visits'[i].at <= hour'
        /\ book'.kept \subseteq 1..Len(visits')
        /\ KeptSince(book.kept, hour - 1, book.off)' /\ Passed(book.file, book.off)'
    BY <1>1 DEF Logged, KeptSince, Passed
  <2>2. ASSUME NEW n \in Managers, managers'[n].pc \in Gathered
        PROVE  /\ managers'[n].now <= hour' /\ book'.off <= managers'[n].upto
               /\ InWindowOf(managers[n].kept, managers[n].now - 1)'
               /\ KeptSince(managers[n].kept, managers[n].now - 1, managers[n].upto)'
               /\ Passed(managers[n].file, managers[n].upto)'
    <3>1. CASE n = m
      <4>1. Passed(opened, Len(visits))
        BY <1>13 DEF Passed
      <4> QED
        BY <1>1, <1>4, <1>12, <1>13, <1>16, <3>1, <4>1 DEF InWindowOf, KeptSince, Passed
    <3>2. CASE n # m
      <4>1. managers'[n] = managers[n]
        BY <1>16, <3>2
      <4> QED
        BY <1>1, <2>2, <4>1 DEF Logged, InWindowOf, KeptSince, Passed
    <3> QED
      BY <3>1, <3>2
  <2>3. ASSUME NEW w \in hourly' \cup {o.by : o \in catalog'.observed}
        PROVE  w.upto <= Len(visits') /\ InWindowOf(w.kept, w.from)'
    BY <1>1, <2>3 DEF Logged, InWindowOf
  <2>4. ASSUME NEW w \in hourly'
        PROVE  KeptSince(w.kept, w.from, w.upto)'
    BY <1>1, <2>4 DEF Logged, KeptSince
  <2> QED
    BY <2>1, <2>2, <2>3, <2>4 DEF Logged
<1>23. Steered'
  <2>1. \A x : Loads(x)' <=> Loads(x)
    BY <1>1 DEF Loads, Allowed
  <2>2. (Parted => Parted') /\ Held'
    BY <1>1, <1>2 DEF Parted, Held, Steered
  <2>3. \A n \in Managers \ {m} : managers'[n] = managers[n]
    BY <1>16
  <2>4. /\ managers'[m].pc = "classify" /\ managers'[m].mode = md /\ managers'[m].to = to
    BY <1>12, <1>16
  <2>5. CASE m = "cycle"
    <3>1. managers'["child"] = managers["child"]
      BY <2>3, <2>5 DEF Managers
    <3>2. \A n \in Managers : managers'[n].pc \in {"classify", "apply"} =>
             managers'[n].to \in Allowed(managers'[n].mode)
      BY <1>1, <1>8, <2>4, <2>5, <3>1 DEF Steered, Managers
    <3> QED
      BY <1>1, <1>6, <2>1, <2>2, <2>4, <2>5, <3>1, <3>2 DEF Steered, Allowed
  <2>6. CASE m = "child"
    <3>1. managers'["cycle"] = managers["cycle"]
      BY <2>3, <2>6 DEF Managers
    <3>2. \A n \in Managers : managers'[n].pc \in {"classify", "apply"} =>
             managers'[n].to \in Allowed(managers'[n].mode)
      BY <1>1, <1>8, <2>4, <2>6, <3>1 DEF Steered, Managers
    <3> QED
      BY <1>1, <1>6, <2>1, <2>2, <2>4, <2>6, <3>1, <3>2 DEF Steered, Allowed
  <2> QED
    BY <2>5, <2>6 DEF Managers
<1> QED
  BY <1>19, <1>20, <1>21, <1>22, <1>23 DEF Routing, Typed

\* A domain that nobody has decided is not a builtin one.
LEMMA ClassifyBatchStep ==
  ASSUME Routing, NEW m \in Managers, NEW d \in Domains, NEW answer \in Classes,
         ClassifyBatch(m, d, answer)
  PROVE  Routing'
<1>1. /\ Shapes /\ Locked /\ Logged /\ Forced /\ Steered
      /\ managers[m].pc = "classify" /\ d \in Undecided(m)
      /\ managers' = [managers EXCEPT ![m].known[d] = answer]
      /\ decided' = [decided EXCEPT !.file = managers'[m].known]
      /\ UNCHANGED <<hour, turn, visits, opened, rotated, book, catalog, hourly, mode, reach,
                     route, pending, applying, gate, panel, drift>>
  BY DEF Routing, Typed, ClassifyBatch, timeVars, logVars, noteVars, routeVars, lockVars
<1>2. managers[m] \in Manager /\ managers[m].known \in Known
  BY <1>1 DEF Shapes, Manager
<1>3. PICK known : known = [managers[m].known EXCEPT ![d] = answer]
  OBVIOUS
<1>4. known \in Known
  BY <1>2, <1>3 DEF Known, Categories, SearchClasses, Classes
<1>5. \A b \in Builtin : known[b] = "ai"
  <2>1. \A b \in Builtin : managers[m].known[b] = "ai"
    BY <1>1 DEF Forced, Gathered, RunSteps
  <2>2. managers[m].known[d] = "none"
    BY <1>1 DEF Undecided, Decided
  <2> QED
    BY <1>2, <1>3, <2>1, <2>2, AiAssumption DEF Known
<1>6. PICK r : r = [managers[m] EXCEPT !.known = known]
  OBVIOUS
<1>7. /\ r \in Manager /\ r.pc = "classify" /\ r.known = known
      /\ r.mode = managers[m].mode /\ r.now = managers[m].now /\ r.file = managers[m].file
      /\ r.upto = managers[m].upto /\ r.kept = managers[m].kept /\ r.to = managers[m].to
  BY <1>1, <1>2, <1>4, <1>6 DEF Manager
<1>8. managers' = [managers EXCEPT ![m] = r]
  BY <1>1, <1>3, <1>6
<1>9. /\ managers' \in [Managers -> Manager] /\ managers'[m] = r
      /\ \A n \in Managers \ {m} : managers'[n] = managers[n]
  BY <1>1, <1>7, <1>8, OneMoves DEF Shapes
<1>10. decided' \in [file : Known, search : SUBSET [known : Known, of : SUBSET Domains]]
  BY <1>1, <1>4, <1>7, <1>9 DEF Shapes
<1>11. \A n \in Managers :
         /\ managers'[n].pc = managers[n].pc /\ managers'[n].mode = managers[n].mode
         /\ managers'[n].now = managers[n].now /\ managers'[n].file = managers[n].file
         /\ managers'[n].upto = managers[n].upto /\ managers'[n].kept = managers[n].kept
         /\ managers'[n].to = managers[n].to
  BY <1>1, <1>7, <1>9
<1>12. Shapes'
  BY <1>1, <1>9, <1>10, <1>11 DEF Shapes
<1>13. Locked'
  BY <1>1, <1>11, LocksStay
<1>14. Logged'
  BY <1>1, <1>11, LoggedStays
<1>15. Forced'
  BY <1>1, <1>5, <1>7, <1>9 DEF Forced
<1>16. Steered'
  BY <1>1, <1>11, SteeredGoesOn DEF Managers
<1> QED
  BY <1>12, <1>13, <1>14, <1>15, <1>16 DEF Routing, Typed

\* The run leaves the rest undecided.
LEMMA ClassifyEndsStep ==
  ASSUME Routing, NEW m \in Managers, ClassifyEnds(m)
  PROVE  Routing'
<1>1. /\ Shapes /\ Locked /\ Logged /\ Forced /\ Steered
      /\ managers[m].pc = "classify" /\ Step(m, "apply")
      /\ UNCHANGED <<hour, turn, visits, opened, rotated, book, catalog, hourly, decided, mode,
                     reach, route, pending, applying, gate, panel, drift>>
  BY DEF Routing, Typed, ClassifyEnds, timeVars, logVars, noteVars, routeVars, lockVars
<1>2. /\ managers' \in [Managers -> Manager] /\ managers'[m].pc = "apply"
      /\ managers'[m].known = managers[m].known
      /\ \A n \in Managers \ {m} : managers'[n] = managers[n]
      /\ \A n \in Managers :
         /\ managers'[n].mode = managers[n].mode
         /\ managers'[n].now = managers[n].now /\ managers'[n].file = managers[n].file
         /\ managers'[n].upto = managers[n].upto /\ managers'[n].kept = managers[n].kept
         /\ managers'[n].to = managers[n].to
  BY <1>1, OneGoes DEF Shapes, RunSteps
<1>3. Shapes'
  BY <1>1, <1>2 DEF Shapes
<1>4. Locked'
  BY <1>1, <1>2, LocksStay
<1>5. Logged'
  BY <1>1, <1>2, LoggedStays DEF Gathered, RunSteps
<1>6. Forced'
  BY <1>1, <1>2, ForcedStays DEF Gathered, RunSteps
<1>7. Steered'
  BY <1>1, <1>2, SteeredGoesOn DEF Managers
<1> QED
  BY <1>3, <1>4, <1>5, <1>6, <1>7 DEF Routing, Typed

\* After an application that succeeds the node has loaded the route that the
\* run wanted; after one that is not needed it has it on its disk.
LEMMA RouteApplied ==
  ASSUME Shapes, Steered, NEW m \in Managers, NEW want \in Route,
         IF ApplyNeeded(want)
         THEN route' = [config |-> want, synced |-> want, loaded |-> want] /\ pending' = FALSE
         ELSE UNCHANGED routeVars,
         drift' = Mended(m, ApplyNeeded(want))
  PROVE  /\ route' \in [config : Route, synced : Route, loaded : Route]
         /\ route'.config = want /\ route'.synced = want /\ route'.loaded \in {want, route.loaded}
         /\ ~pending' /\ Held'
         /\ Parted' => Parted
         /\ Parted /\ ~Parted' => m = "cycle" /\ managers[m].mode = mode
<1>1. route \in [config : Route, synced : Route, loaded : Route]
  BY DEF Shapes
<1>2. /\ Parted' => Parted
      /\ Parted /\ ~Parted' => m = "cycle" /\ managers[m].mode = mode
  <2>1. drift' \subseteq drift
    BY DEF Mended
  <2>2. CASE m = "cycle" /\ managers[m].mode = mode
    BY <2>1, <2>2 DEF Parted
  <2>3. CASE ~(m = "cycle" /\ managers[m].mode = mode)
    <3>1. \A x \in drift : x # "unmarked" => x \in drift'
      BY <2>3 DEF Mended
    <3> QED
      BY <2>1, <3>1 DEF Parted
  <2> QED
    BY <2>2, <2>3
<1>3. CASE ApplyNeeded(want)
  <2>1. /\ route' \in [config : Route, synced : Route, loaded : Route] /\ ~pending'
        /\ route'.config = want /\ route'.synced = want /\ route'.loaded = want
    BY <1>3
  <2>2. Held'
    BY <2>1 DEF Held
  <2> QED
    BY <1>2, <2>1, <2>2
<1>4. CASE ~ApplyNeeded(want)
  <2>1. route.config = want /\ route.synced = want /\ ~pending /\ route' = route /\ pending' = pending
    BY <1>4 DEF ApplyNeeded, routeVars
  <2>2. "unmarked" \in drift => "unmarked" \in drift'
    BY <1>4 DEF Mended
  <2>3. Held'
    BY <2>1, <2>2 DEF Held, Steered
  <2> QED
    BY <1>1, <1>2, <2>1, <2>3
<1> QED
  BY <1>3, <1>4

\* The route is applied: the node has it for the mode that the run was given.
LEMMA ApplyRouteStep ==
  ASSUME Routing, NEW m \in Managers, ApplyRoute(m)
  PROVE  Routing'
<1>1. PICK want : want = Wanted(managers[m].known, managers[m].to)
  OBVIOUS
<1>2. /\ Shapes /\ Locked /\ Logged /\ Forced /\ Steered
      /\ managers[m].pc = "apply" /\ Step(m, "record")
      /\ IF ApplyNeeded(want)
         THEN route' = [config |-> want, synced |-> want, loaded |-> want] /\ pending' = FALSE
         ELSE UNCHANGED routeVars
      /\ drift' = Mended(m, ApplyNeeded(want))
      /\ UNCHANGED <<hour, turn, visits, opened, rotated, book, catalog, hourly, decided, mode,
                     reach, applying, gate, panel>>
  BY <1>1 DEF Routing, Typed, ApplyRoute, timeVars, logVars, noteVars, lockVars
<1>3. managers[m] \in Manager
  BY <1>2 DEF Shapes
<1>4. \A b \in Builtin : managers[m].known[b] = "ai"
  BY <1>2 DEF Forced, Gathered, RunSteps
<1>5. /\ want \in Route /\ want.to \in {0, managers[m].to}
      /\ want.to # 0 => Builtin \subseteq want.of
  BY <1>1, <1>3, <1>4, WantedRoute DEF Manager
<1>6. want.to \in Allowed(managers[m].mode)
  <2>1. managers[m].to \in Allowed(managers[m].mode)
    BY <1>2 DEF Steered
  <2> QED
    BY <1>3, <1>5, <2>1, DirectAllowed DEF Manager
<1>7. /\ route' \in [config : Route, synced : Route, loaded : Route]
      /\ route'.config = want /\ route'.synced = want /\ route'.loaded \in {want, route.loaded}
      /\ ~pending' /\ Held'
      /\ Parted' => Parted
      /\ Parted /\ ~Parted' => m = "cycle" /\ managers[m].mode = mode
  BY <1>2, <1>5, RouteApplied
<1>8. pending' \in Flag
  BY <1>2, <1>7 DEF Shapes, Flag, routeVars
<1>9. /\ managers' \in [Managers -> Manager] /\ managers'[m].pc = "record"
      /\ managers'[m].known = managers[m].known
      /\ \A n \in Managers \ {m} : managers'[n] = managers[n]
      /\ \A n \in Managers :
         /\ managers'[n].mode = managers[n].mode
         /\ managers'[n].now = managers[n].now /\ managers'[n].file = managers[n].file
         /\ managers'[n].upto = managers[n].upto /\ managers'[n].kept = managers[n].kept
         /\ managers'[n].to = managers[n].to
  BY <1>2, OneGoes DEF Shapes, RunSteps
<1>10. Shapes'
  BY <1>2, <1>7, <1>8, <1>9 DEF Shapes
<1>11. Locked'
  BY <1>2, <1>9, LocksStay
<1>12. Logged'
  BY <1>2, <1>9, LoggedStays DEF Gathered, RunSteps
<1>13. Forced'
  BY <1>2, <1>4, <1>5, <1>7, <1>9 DEF Forced
<1>14. \A md : md = managers[m].mode => Loads(md)'
  BY <1>6, <1>7 DEF Loads, Allowed
<1>15. Steered'
  <2>1. Held'
    BY <1>7
  <2>2. \A n \in Managers : managers'[n].pc \in {"classify", "apply"} =>
             managers'[n].to \in Allowed(managers'[n].mode)
    BY <1>2, <1>9 DEF Steered
  <2>3. CASE m = "cycle"
    <3>1. panel.pc = "idle" /\ managers["child"].pc = "off" /\ managers'["child"].pc = "off"
      BY <1>2, <1>9, <2>3 DEF Locked, Managers
    <3>2. CASE managers[m].mode = mode
      <4>1. Loads(mode)'
        BY <1>2, <1>6, <1>7, <3>2 DEF Loads, Allowed
      <4> QED
        BY <1>2, <1>9, <2>1, <2>2, <2>3, <3>1, <4>1 DEF Steered
    <3>3. CASE managers[m].mode # mode
      <4>1. Parted'
        BY <1>2, <1>7, <2>3, <3>3 DEF Steered
      <4> QED
        BY <1>2, <1>9, <2>1, <2>2, <2>3, <3>1, <4>1 DEF Steered
    <3> QED
      BY <3>2, <3>3
  <2>4. CASE m = "child"
    <3>1. managers["cycle"].pc = "off" /\ managers'["cycle"].pc = "off" /\ (Parted' <=> Parted)
      BY <1>2, <1>7, <1>9, <2>4 DEF Locked, Managers
    <3>2. panel.pc \notin {"store", "undo"}
      BY <1>2, <2>4 DEF Locked
    <3>3. panel.pc = "wait" => Loads(panel.want)'
      <4>1. panel.pc = "wait" => managers[m].mode = panel.want
        BY <1>2, <2>4 DEF Steered
      <4> QED
        BY <1>2, <1>6, <1>7, <4>1 DEF Loads, Allowed
    <3>4. panel.pc = "rewait" => Loads(panel.was)'
      <4>1. panel.pc = "rewait" => managers[m].mode = panel.was
        BY <1>2, <2>4 DEF Steered
      <4> QED
        BY <1>2, <1>6, <1>7, <4>1 DEF Loads, Allowed
    <3>5. panel.pc \notin {"wait", "rewait"} => Parted
      BY <1>2, <2>4 DEF Steered
    <3> QED
      BY <1>2, <1>9, <2>1, <2>2, <2>4, <3>1, <3>2, <3>3, <3>4, <3>5 DEF Steered
  <2> QED
    BY <2>3, <2>4 DEF Managers
<1> QED
  BY <1>10, <1>11, <1>12, <1>13, <1>15 DEF Routing, Typed

\* What an application leaves that stops: routes of a mode that they were of, or
\* the marker; and what the node has not loaded is marked or noted.
LEMMA StopsLeaves ==
  ASSUME Shapes, Steered, NEW m \in Managers, NEW cause, NEW want \in Route,
         want = Wanted(managers[m].known, managers[m].to), Stops(m, cause)
  PROVE  /\ route' \in [config : Route, synced : Route, loaded : Route]
         /\ pending' \in Flag
         /\ Held' /\ drift \cup cause \subseteq drift'
         /\ \A md : Loads(md) => Loads(md)'
         /\ \A c \in {"config", "synced", "loaded"} :
              route'[c] = want \/ route'[c] = route[c]
<1>1. route \in [config : Route, synced : Route, loaded : Route] /\ pending \in Flag /\ Held
  BY DEF Shapes, Steered
<1>2. CASE UNCHANGED routeVars /\ drift' = drift \cup cause
  BY <1>1, <1>2 DEF routeVars, Held, Loads, Allowed
<1>3. CASE /\ pending' = TRUE
           /\ Rendered(want) \/ Uploaded(want) \/ Reloaded(want)
           /\ drift' = drift \cup cause
  <2>1. Held' /\ pending' \in Flag
    BY <1>3 DEF Held, Flag
  <2>3. \A md : Loads(md) => Loads(md)'
    <3>1. pending'
      BY <1>3
    <3> QED
      BY <3>1 DEF Loads
  <2>2. /\ route' \in [config : Route, synced : Route, loaded : Route]
        /\ \A c \in {"config", "synced", "loaded"} : route'[c] = want \/ route'[c] = route[c]
    <3>1. CASE Rendered(want)
      BY <1>1, <3>1 DEF Rendered
    <3>2. CASE Uploaded(want)
      BY <1>1, <3>2 DEF Uploaded
    <3>3. CASE Reloaded(want)
      BY <1>1, <3>3 DEF Reloaded
    <3> QED
      BY <1>3, <3>1, <3>2, <3>3
  <2> QED
    BY <1>3, <2>1, <2>2, <2>3
<1>4. CASE /\ ~MarkedFirst(want) /\ Uploaded(want) /\ pending' = pending
           /\ drift' = drift \cup cause \cup {"unmarked"}
  <2>1. /\ route' \in [config : Route, synced : Route, loaded : Route]
        /\ route'.config = want /\ route'.synced = want /\ route'.loaded = route.loaded
        /\ route.config = want
    BY <1>1, <1>4 DEF Uploaded, MarkedFirst
  <2>2. Held'
    BY <1>4 DEF Held
  <2>3. \A md : Loads(md) => Loads(md)'
    <3>1. ~pending /\ ~pending'
      BY <1>4 DEF MarkedFirst
    <3>2. route'.config = route.config /\ route'.synced = route.config
      BY <2>1
    <3> QED
      BY <3>1, <3>2 DEF Loads, Allowed
  <2> QED
    BY <1>1, <1>4, <2>1, <2>2, <2>3
<1> QED
  BY <1>2, <1>3, <1>4 DEF Stops

\* A run ends.  Whoever waits for it takes its answer, and nothing that the
\* node loads has come between the route and the mode unnoticed.
LEMMA SteeredOver ==
  ASSUME Typed, Steered, NEW m \in Managers, NEW ok, managers[m].pc # "off", Over(m, ok),
         mode' = mode,
         Held',
         Loads(mode) => Loads(mode)' \/ Parted',
         ok => \A md : Loads(md) => Loads(md)',
         Parted => Parted',
         ok => managers[m].pc \in {"record", "report", "book"},
         m = "child" /\ ~ok /\ managers[m].pc \in {"record", "report", "book"} => Parted',
         m = "child" /\ panel.pc = "rewait" /\ managers[m].pc \in {"gather", "classify", "apply"}
           => Parted'
  PROVE  Steered'
<1>1. Shapes /\ Locked /\ panel \in Call /\ managers[m] \in Manager
  BY DEF Typed, Shapes
<1>2. /\ managers' \in [Managers -> Manager] /\ managers'[m] = Off
      /\ \A n \in Managers \ {m} : managers'[n] = managers[n] /\ managers[n].pc = "off"
      /\ m = "cycle" => panel' = panel
      /\ m = "child" => panel' = Answered(ok)
  BY OverLocks
<1>3. \A n \in Managers : managers'[n].pc = "off"
  BY <1>2, OffManager
<1>4. managers[m].pc \in {"gather", "classify", "apply"} \/ managers[m].pc \in {"record", "report", "book"}
  BY <1>1 DEF Manager, RunSteps
<1>5. Asleep.pc = "idle"
  BY DEF Asleep
<1>6. CASE m = "cycle"
  <2>1. panel' = panel /\ panel.pc = "idle"
    BY <1>1, <1>2, <1>6 DEF Locked
  <2>2. Loads(mode)' \/ Parted'
    BY <2>1 DEF Steered
  <2> QED
    BY <1>3, <2>1, <2>2 DEF Steered, Managers
<1>7. CASE m = "child"
  <2>1. panel' = Answered(ok) /\ panel.pc \notin {"store", "undo"}
    BY <1>1, <1>2, <1>7 DEF Locked
  <2>2. CASE panel.pc = "wait" /\ ok
    <3>1. panel' = [panel EXCEPT !.pc = "store"]
      BY <2>1, <2>2 DEF Answered
    <3>2. panel'.pc = "store" /\ panel'.want = panel.want /\ panel'.was = panel.was
      BY <1>1, <3>1 DEF Call
    <3>3. Loads(panel.want)
      BY <1>7, <2>2 DEF Steered
    <3>4. \A md : Loads(md) => Loads(md)'
      BY <2>2
    <3>5. Loads(panel.want)'
      BY <3>2, <3>3, <3>4 DEF Loads, Allowed
    <3> QED
      BY <1>3, <2>2, <3>2, <3>5 DEF Steered, Managers
  <2>3. CASE panel.pc = "wait" /\ ~ok
    <3>1. panel'.pc = "idle"
      BY <1>5, <2>1, <2>3 DEF Answered
    <3>2. Loads(mode) \/ Parted'
      BY <1>4, <1>7, <2>3 DEF Steered
    <3>3. Loads(mode)' \/ Parted'
      BY <3>2
    <3> QED
      BY <1>3, <3>1, <3>3 DEF Steered, Managers
  <2>4. CASE panel.pc = "rewait"
    <3>1. panel'.pc = "idle"
      BY <1>5, <2>1, <2>4 DEF Answered
    <3>2. panel.was = mode
      BY <2>4 DEF Steered
    <3>3. Loads(panel.was) \/ Parted'
      BY <1>4, <1>7, <2>4 DEF Steered
    <3>4. Loads(mode)' \/ Parted'
      BY <3>2, <3>3 DEF Loads, Allowed
    <3> QED
      BY <1>3, <3>1, <3>4 DEF Steered, Managers
  <2>5. CASE panel.pc \in {"idle", "launch"}
    <3>1. Parted'
      BY <1>7, <2>5 DEF Steered
    <3>2. panel'.pc \in {"idle", "launch"} /\ (panel'.pc # "idle" => panel' = panel)
      BY <1>5, <2>1, <2>5 DEF Answered
    <3> QED
      BY <1>3, <3>1, <3>2 DEF Steered, Managers
  <2> QED
    BY <1>1, <2>1, <2>2, <2>3, <2>4, <2>5 DEF Call
<1> QED
  BY <1>6, <1>7 DEF Managers

\* A run ends without its report or book: the log's side is as it was.
LEMMA OverStep ==
  ASSUME Routing, Steered', NEW m \in Managers, NEW ok, managers[m].pc # "off", Over(m, ok),
         route' \in [config : Route, synced : Route, loaded : Route], pending' \in Flag,
         \A c \in {"config", "synced", "loaded"} : route'[c].to # 0 => Builtin \subseteq route'[c].of,
         UNCHANGED <<hour, turn, visits, opened, rotated, book, catalog, hourly, decided, mode, reach>>
  PROVE  Routing'
<1>1. Typed /\ Shapes /\ Logged
  BY DEF Routing, Typed
<1>2. /\ managers' \in [Managers -> Manager] /\ managers'[m] = Off
      /\ \A n \in Managers \ {m} : managers'[n] = managers[n] /\ managers[n].pc = "off"
      /\ panel' \in Call /\ Locked'
  BY <1>1, OverLocks
<1>3. \A n \in Managers : managers'[n].pc = "off"
  BY <1>2, OffManager
<1>4. \A n \in Managers : managers'[n].upto <= Len(visits')
  <2>1. Off.upto = 0 /\ Len(visits) \in Nat
    BY <1>1, LenProperties DEF Off, Shapes
  <2> QED
    BY <1>1, <1>2, <2>1 DEF Shapes
<1>5. Shapes'
  BY <1>1, <1>2, <1>4 DEF Shapes
<1>6. Logged'
  BY <1>1, <1>3, LoggedStays DEF Gathered
<1>7. Forced'
  BY <1>3 DEF Forced, Gathered
<1> QED
  BY <1>2, <1>5, <1>6, <1>7 DEF Routing, Typed

\* What a run wants is a route with the builtin domains.
LEMMA WantedForced ==
  ASSUME Shapes, Forced, NEW m \in Managers, managers[m].pc = "apply"
  PROVE  LET want == Wanted(managers[m].known, managers[m].to) IN
         /\ want \in Route /\ want.to \in {0, managers[m].to}
         /\ want.to # 0 => Builtin \subseteq want.of
<1>1. managers[m] \in Manager
  BY DEF Shapes
<1>2. \A b \in Builtin : managers[m].known[b] = "ai"
  BY DEF Forced, Gathered, RunSteps
<1> QED
  BY <1>1, <1>2, WantedRoute DEF Manager

\* An application that fails is marked, or has not touched the node, or has
\* replaced a file that was rendered before and is noted.
LEMMA ApplyFailsStep ==
  ASSUME Routing, NEW m \in Managers, ApplyFails(m)
  PROVE  Routing'
<1>1. PICK want : want = Wanted(managers[m].known, managers[m].to)
  OBVIOUS
<1>2. /\ Typed /\ Shapes /\ Forced /\ Steered /\ managers[m].pc = "apply"
      /\ Stops(m, Undone(m)) /\ Over(m, FALSE)
      /\ UNCHANGED <<hour, turn, visits, opened, rotated, book, catalog, hourly, decided, mode, reach>>
  BY DEF Routing, Typed, ApplyFails, Stops, timeVars, logVars, noteVars
<1>3. want \in Route /\ (want.to # 0 => Builtin \subseteq want.of)
  BY <1>1, <1>2, WantedForced
<1>4. /\ route' \in [config : Route, synced : Route, loaded : Route] /\ pending' \in Flag
      /\ Held' /\ drift \cup Undone(m) \subseteq drift'
      /\ \A md : Loads(md) => Loads(md)'
      /\ \A c \in {"config", "synced", "loaded"} : route'[c] = want \/ route'[c] = route[c]
  BY <1>1, <1>2, <1>3, StopsLeaves
<1>5. \A c \in {"config", "synced", "loaded"} : route'[c].to # 0 => Builtin \subseteq route'[c].of
  BY <1>2, <1>3, <1>4 DEF Forced
<1>6. /\ m = "child" /\ panel.pc = "rewait" => Parted'
      /\ Parted => Parted'
  BY <1>4 DEF Undone, Parted
<1>7. Loads(mode) => Loads(mode)'
  BY <1>2, <1>4 DEF Loads, Allowed
<1>8. Steered'
  BY <1>2, <1>4, <1>6, <1>7, SteeredOver
<1> QED
  BY <1>2, <1>4, <1>5, <1>8, OverStep

\* A manager that dies while it applies leaves what a failure leaves, or a
\* rendered route; while it does anything else, what was there.
LEMMA DiesStep ==
  ASSUME Routing, NEW m \in Managers, Dies(m), Over(m, FALSE)
  PROVE  Routing'
<1>1. PICK want : want = Wanted(managers[m].known, managers[m].to)
  OBVIOUS
<1>2. /\ Typed /\ Shapes /\ Forced /\ Steered /\ managers[m].pc # "off"
      /\ UNCHANGED <<hour, turn, visits, opened, rotated, book, catalog, hourly, decided, mode, reach>>
  BY DEF Routing, Typed, Dies, Stops, timeVars, logVars, noteVars
<1>3. \/ managers[m].pc = "apply" /\ Stops(m, Killed(m))
      \/ managers[m].pc # "apply" /\ route' = route /\ pending' = pending /\ drift' = drift \cup Killed(m)
      \/ managers[m].pc = "apply" /\ Rendered(want) /\ pending' = pending /\ drift' = drift \cup Killed(m)
  BY <1>1 DEF Dies, Stops
<1>4. /\ m = "child" => "killed" \in Killed(m)
      /\ managers[m].pc = "apply" => want \in Route /\ want.to \in {0, managers[m].to}
                                     /\ (want.to # 0 => Builtin \subseteq want.of)
      /\ route \in [config : Route, synced : Route, loaded : Route] /\ pending \in Flag /\ Held
  BY <1>1, <1>2, WantedForced DEF Killed, Shapes, Steered
<1>5. /\ route' \in [config : Route, synced : Route, loaded : Route] /\ pending' \in Flag
      /\ Held' /\ drift \cup Killed(m) \subseteq drift'
      /\ Loads(mode) => Loads(mode)' \/ Parted'
      /\ \A c \in {"config", "synced", "loaded"} :
           \/ route'[c] = route[c]
           \/ managers[m].pc = "apply" /\ route'[c] = want
  <2>1. CASE managers[m].pc = "apply" /\ Stops(m, Killed(m))
    <3>1. /\ route' \in [config : Route, synced : Route, loaded : Route] /\ pending' \in Flag
          /\ Held' /\ drift \cup Killed(m) \subseteq drift'
          /\ \A md : Loads(md) => Loads(md)'
          /\ \A c \in {"config", "synced", "loaded"} : route'[c] = want \/ route'[c] = route[c]
      BY <1>1, <1>2, <1>4, <2>1, StopsLeaves
    <3>2. Loads(mode) => Loads(mode)'
      BY <1>2, <3>1 DEF Loads, Allowed
    <3> QED
      BY <2>1, <3>1, <3>2
  <2>2. CASE /\ managers[m].pc # "apply" /\ route' = route /\ pending' = pending
             /\ drift' = drift \cup Killed(m)
    <3>1. Held' /\ (Loads(mode) => Loads(mode)')
      BY <1>2, <1>4, <2>2 DEF Held, Loads, Allowed
    <3> QED
      BY <1>4, <2>2, <3>1
  <2>3. CASE /\ managers[m].pc = "apply" /\ Rendered(want) /\ pending' = pending
             /\ drift' = drift \cup Killed(m)
    <3>1. /\ route' \in [config : Route, synced : Route, loaded : Route]
          /\ route'.config = want /\ route'.synced = route.synced /\ route'.loaded = route.loaded
      BY <1>4, <2>3 DEF Rendered
    <3>2. Held'
      BY <1>4, <2>3, <3>1 DEF Held
    <3>3. CASE m = "child"
      <4>1. Parted'
        BY <1>4, <2>3, <3>3 DEF Parted
      <4> QED
        BY <1>4, <2>3, <3>1, <3>2, <4>1
    <3>4. CASE m = "cycle"
      <4>1. CASE managers[m].mode # mode
        <5>1. Parted
          BY <1>2, <2>3, <3>4, <4>1 DEF Steered
        <5>2. Parted'
          BY <2>3, <5>1 DEF Parted
        <5> QED
          BY <1>4, <2>3, <3>1, <3>2, <5>2
      <4>2. CASE managers[m].mode = mode
        <5>1. managers[m].to \in Allowed(mode)
          BY <1>2, <2>3, <4>2 DEF Steered
        <5>2. mode \in Modes
          BY <1>2 DEF Shapes
        <5>3. want.to \in Allowed(mode)
          BY <1>4, <2>3, <5>1, <5>2, DirectAllowed
        <5>4. Loads(mode) => Loads(mode)'
          BY <1>2, <2>3, <3>1, <5>3 DEF Loads, Allowed
        <5> QED
          BY <1>4, <2>3, <3>1, <3>2, <5>4
      <4> QED
        BY <4>1, <4>2
    <3> QED
      BY <3>3, <3>4 DEF Managers
  <2> QED
    BY <1>3, <2>1, <2>2, <2>3
<1>6. \A c \in {"config", "synced", "loaded"} : route'[c].to # 0 => Builtin \subseteq route'[c].of
  BY <1>2, <1>4, <1>5 DEF Forced
<1>7. (m = "child" => Parted') /\ (Parted => Parted')
  BY <1>4, <1>5 DEF Parted
<1>8. Steered'
  BY <1>2, <1>5, <1>7, SteeredOver
<1> QED
  BY <1>2, <1>5, <1>6, <1>8, OverStep

\* A manager is killed wherever it is.
LEMMA KillManagerStep ==
  ASSUME Routing, NEW m \in Managers, KillManager(m)
  PROVE  Routing'
BY DiesStep DEF KillManager

\* Reporting fails after the route was applied.
LEMMA ReportingFailsStep ==
  ASSUME Routing, NEW m \in Managers, ReportingFails(m)
  PROVE  Routing'
<1>1. /\ Typed /\ Shapes /\ Forced /\ Steered
      /\ managers[m].pc \in {"record", "report", "book"} /\ Over(m, TRUE)
      /\ UNCHANGED <<hour, turn, visits, opened, rotated, book, catalog, hourly, decided, mode,
                     reach, route, pending, drift>>
  BY DEF Routing, Typed, ReportingFails, timeVars, logVars, noteVars, routeVars
<1>2. /\ \A md : Loads(md) => Loads(md)'
      /\ Loads(mode) => Loads(mode)'
      /\ Parted => Parted'
  BY <1>1 DEF Loads, Allowed, Parted
<1>3. Held'
  BY <1>1 DEF Steered, Held
<1>4. managers[m].pc \notin {"gather", "classify", "apply"} /\ managers[m].pc # "off"
  BY <1>1
<1>5. Steered'
  BY <1>1, <1>2, <1>3, <1>4, SteeredOver
<1>6. /\ route' \in [config : Route, synced : Route, loaded : Route] /\ pending' \in Flag
      /\ \A c \in {"config", "synced", "loaded"} : route'[c].to # 0 => Builtin \subseteq route'[c].of
  <2>1. route' \in [config : Route, synced : Route, loaded : Route] /\ pending' \in Flag
    BY <1>1 DEF Shapes
  <2> QED
    BY <1>1, <2>1 DEF Forced
<1> QED
  BY <1>1, <1>4, <1>5, <1>6, OverStep

\* The report of a run that has gathered is of its window.
LEMMA ReportMade ==
  ASSUME Shapes, Logged, NEW m \in Managers, managers[m].pc \in Gathered
  PROVE  /\ ReportOf(managers[m]) \in Report
         /\ ReportOf(managers[m]).upto <= Len(visits)
         /\ InWindowOf(ReportOf(managers[m]).kept, ReportOf(managers[m]).from)
         /\ KeptSince(ReportOf(managers[m]).kept, ReportOf(managers[m]).from,
                      ReportOf(managers[m]).upto)
<1>1. managers[m] \in Manager /\ managers[m].upto <= Len(visits)
  BY DEF Shapes
<1>2. /\ InWindowOf(managers[m].kept, managers[m].now - 1)
      /\ KeptSince(managers[m].kept, managers[m].now - 1, managers[m].upto)
  BY DEF Logged
<1>3. managers[m].now \in Nat /\ managers[m].upto \in Nat /\ managers[m].kept \in SUBSET Nat
  BY <1>1 DEF Manager
<1>4. PICK w : w = ReportOf(managers[m])
  OBVIOUS
<1>5. w = [from |-> managers[m].now - 1, upto |-> managers[m].upto, kept |-> managers[m].kept]
  BY <1>4 DEF ReportOf
<1>6. /\ w \in Report /\ w.from = managers[m].now - 1 /\ w.upto = managers[m].upto
      /\ w.kept = managers[m].kept
  BY <1>3, <1>5 DEF Report
<1> QED
  BY <1>1, <1>2, <1>4, <1>6

\* The domains of the run and where they were seen go to the database.
LEMMA RecordStep ==
  ASSUME Routing, NEW m \in Managers, Record(m)
  PROVE  Routing'
<1> DEFINE ai == Decided(managers[m].known, "ai")
           now == ai \cap Seen(managers[m].kept)
           before == {o.of : o \in catalog.observed}
           w == ReportOf(managers[m])
           new == {[of |-> d, by |-> w] : d \in now}
<1>1. /\ Shapes /\ Locked /\ Logged /\ Forced /\ Steered
      /\ managers[m].pc = "record" /\ Step(m, "report")
      /\ \/ catalog' = [observed |-> catalog.observed \cup new,
                        ai |-> ai \cap (now \cup before \cup catalog.ai)]
         \/ catalog' = catalog
      /\ UNCHANGED <<hour, turn, visits, opened, rotated, book, hourly, decided, mode,
                     reach, route, pending, applying, gate, panel, drift>>
  BY DEF Routing, Typed, Record, timeVars, logVars, routeVars, lockVars
<1>2. ai \in SUBSET Domains
  BY DEF Decided
<1>3. /\ w \in Report /\ w.upto <= Len(visits) /\ InWindowOf(w.kept, w.from)
  BY <1>1, ReportMade DEF Gathered, RunSteps
<1>4. now \in SUBSET Domains
  BY <1>2
<1> HIDE DEF ai, w, now
<1>5. /\ new \in SUBSET [of : Domains, by : Report]
      /\ \A o \in new : o.by = w
      /\ now \subseteq {o.of : o \in new}
  <2>1. \A d \in now : [of |-> d, by |-> w] \in [of : Domains, by : Report]
    BY <1>3, <1>4
  <2>2. \A d \in now : [of |-> d, by |-> w] \in new /\ [of |-> d, by |-> w].of = d
    OBVIOUS
  <2>3. \A o \in new : o.by = w /\ o \in [of : Domains, by : Report]
    BY <2>1
  <2> HIDE DEF new
  <2> QED
    BY <2>2, <2>3
<1> HIDE DEF new
<1>6. /\ catalog'.observed \subseteq catalog.observed \cup new
      /\ catalog' \in [ai : SUBSET Domains, observed : SUBSET [of : Domains, by : Report]]
      /\ catalog'.ai \subseteq {o.of : o \in catalog'.observed}
  <2>1. /\ catalog \in [ai : SUBSET Domains, observed : SUBSET [of : Domains, by : Report]]
        /\ catalog.ai \subseteq before
    BY <1>1 DEF Shapes
  <2>2. CASE catalog' = catalog
    BY <2>1, <2>2
  <2>3. CASE catalog' = [observed |-> catalog.observed \cup new,
                         ai |-> ai \cap (now \cup before \cup catalog.ai)]
    <3>1. catalog'.observed = catalog.observed \cup new /\ catalog'.ai \subseteq now \cup before
      BY <2>1, <2>3
    <3>2. catalog'.ai \in SUBSET Domains
      BY <1>2, <2>3
    <3>3. catalog'.observed \in SUBSET [of : Domains, by : Report]
      BY <1>5, <2>1, <3>1
    <3>4. catalog' \in [ai : SUBSET Domains, observed : SUBSET [of : Domains, by : Report]]
      BY <2>3, <3>2, <3>3
    <3>5. catalog'.ai \subseteq {o.of : o \in catalog'.observed}
      BY <1>5, <3>1
    <3> QED
      BY <3>1, <3>4, <3>5
  <2> QED
    BY <1>1, <2>2, <2>3
<1>7. /\ managers' \in [Managers -> Manager] /\ managers'[m].pc = "report"
      /\ managers'[m].known = managers[m].known
      /\ \A n \in Managers \ {m} : managers'[n] = managers[n]
      /\ \A n \in Managers :
         /\ managers'[n].mode = managers[n].mode
         /\ managers'[n].now = managers[n].now /\ managers'[n].file = managers[n].file
         /\ managers'[n].upto = managers[n].upto /\ managers'[n].kept = managers[n].kept
         /\ managers'[n].to = managers[n].to
  BY <1>1, OneGoes DEF Shapes, RunSteps
<1>8. Shapes'
  BY <1>1, <1>6, <1>7 DEF Shapes
<1>9. Locked'
  BY <1>1, <1>7, LocksStay
<1>10. Logged'
  <2>1. /\ \A i \in 1..Len(visits') : visits'[i].at <= hour'
        /\ book'.kept \subseteq 1..Len(visits')
        /\ KeptSince(book.kept, hour - 1, book.off)' /\ Passed(book.file, book.off)'
    BY <1>1 DEF Logged, KeptSince, Passed
  <2>2. ASSUME NEW n \in Managers, managers'[n].pc \in Gathered
        PROVE  /\ managers'[n].now <= hour' /\ book'.off <= managers'[n].upto
               /\ InWindowOf(managers[n].kept, managers[n].now - 1)'
               /\ KeptSince(managers[n].kept, managers[n].now - 1, managers[n].upto)'
               /\ Passed(managers[n].file, managers[n].upto)'
    <3>1. managers[n].pc \in Gathered
      BY <1>1, <1>7, <2>2 DEF Gathered, RunSteps
    <3> QED
      BY <1>1, <1>7, <3>1 DEF Logged, InWindowOf, KeptSince, Passed
  <2>3. ASSUME NEW r \in hourly' \cup {o.by : o \in catalog'.observed}
        PROVE  r.upto <= Len(visits') /\ InWindowOf(r.kept, r.from)'
    <3>1. r = w \/ r \in hourly \cup {o.by : o \in catalog.observed}
      BY <1>1, <1>5, <1>6, <2>3
    <3> QED
      BY <1>1, <1>3, <3>1 DEF Logged, InWindowOf
  <2>4. ASSUME NEW r \in hourly'
        PROVE  KeptSince(r.kept, r.from, r.upto)'
    BY <1>1, <2>4 DEF Logged, KeptSince
  <2> QED
    BY <2>1, <2>2, <2>3, <2>4 DEF Logged
<1>11. Forced'
  BY <1>1, <1>7, ForcedStays DEF Gathered, RunSteps
<1>12. Steered'
  BY <1>1, <1>7, SteeredGoesOn DEF Managers
<1> QED
  BY <1>8, <1>9, <1>10, <1>11, <1>12 DEF Routing, Typed

\* The report holds what the run has of its window.
LEMMA WriteReportStep ==
  ASSUME Routing, NEW m \in Managers, WriteReport(m)
  PROVE  Routing'
<1>1. PICK w : w = ReportOf(managers[m])
  OBVIOUS
<1>2. /\ Shapes /\ Locked /\ Logged /\ Forced /\ Steered
      /\ managers[m].pc = "report" /\ Step(m, "book")
      /\ hourly' = hourly \cup {w}
      /\ UNCHANGED <<hour, turn, visits, opened, rotated, book, catalog, decided, mode,
                     reach, route, pending, applying, gate, panel, drift>>
  BY <1>1 DEF Routing, Typed, WriteReport, timeVars, logVars, routeVars, lockVars
<1>3. /\ w \in Report /\ w.upto <= Len(visits) /\ InWindowOf(w.kept, w.from)
      /\ KeptSince(w.kept, w.from, w.upto)
  BY <1>1, <1>2, ReportMade DEF Gathered, RunSteps
<1>4. /\ managers' \in [Managers -> Manager] /\ managers'[m].pc = "book"
      /\ managers'[m].known = managers[m].known
      /\ \A n \in Managers \ {m} : managers'[n] = managers[n]
      /\ \A n \in Managers :
         /\ managers'[n].mode = managers[n].mode
         /\ managers'[n].now = managers[n].now /\ managers'[n].file = managers[n].file
         /\ managers'[n].upto = managers[n].upto /\ managers'[n].kept = managers[n].kept
         /\ managers'[n].to = managers[n].to
  BY <1>2, OneGoes DEF Shapes, RunSteps
<1>5. Shapes'
  BY <1>2, <1>3, <1>4 DEF Shapes
<1>6. Locked'
  BY <1>2, <1>4, LocksStay
<1>7. Logged'
  <2>1. /\ \A i \in 1..Len(visits') : visits'[i].at <= hour'
        /\ book'.kept \subseteq 1..Len(visits')
        /\ KeptSince(book.kept, hour - 1, book.off)' /\ Passed(book.file, book.off)'
    BY <1>2 DEF Logged, KeptSince, Passed
  <2>2. ASSUME NEW n \in Managers, managers'[n].pc \in Gathered
        PROVE  /\ managers'[n].now <= hour' /\ book'.off <= managers'[n].upto
               /\ InWindowOf(managers[n].kept, managers[n].now - 1)'
               /\ KeptSince(managers[n].kept, managers[n].now - 1, managers[n].upto)'
               /\ Passed(managers[n].file, managers[n].upto)'
    <3>1. managers[n].pc \in Gathered
      BY <1>2, <1>4, <2>2 DEF Gathered, RunSteps
    <3> QED
      BY <1>2, <1>4, <3>1 DEF Logged, InWindowOf, KeptSince, Passed
  <2>3. ASSUME NEW r \in hourly' \cup {o.by : o \in catalog'.observed}
        PROVE  r.upto <= Len(visits') /\ InWindowOf(r.kept, r.from)'
    <3>1. r = w \/ r \in hourly \cup {o.by : o \in catalog.observed}
      BY <1>2, <2>3
    <3> QED
      BY <1>2, <1>3, <3>1 DEF Logged, InWindowOf
  <2>4. ASSUME NEW r \in hourly'
        PROVE  KeptSince(r.kept, r.from, r.upto)'
    BY <1>2, <1>3, <2>4 DEF Logged, KeptSince
  <2> QED
    BY <2>1, <2>2, <2>3, <2>4 DEF Logged
<1>8. Forced'
  BY <1>2, <1>4, ForcedStays DEF Gathered, RunSteps
<1>9. Steered'
  BY <1>2, <1>4, SteeredGoesOn DEF Managers
<1> QED
  BY <1>5, <1>6, <1>7, <1>8, <1>9 DEF Routing, Typed

\* The book takes over what the run knows of the log: its window is at least
\* the look-back of now, and what lies past it in a file gone by was lost.
LEMMA SaveBookStep ==
  ASSUME Routing, NEW m \in Managers, SaveBook(m)
  PROVE  Routing'
<1>1. PICK r : r = managers[m]
  OBVIOUS
<1>2. /\ Typed /\ Shapes /\ Logged /\ Forced /\ Steered
      /\ managers[m].pc = "book" /\ Over(m, TRUE)
      /\ book' = [file |-> r.file, off |-> r.upto, kept |-> r.kept]
      /\ \/ decided' = [decided EXCEPT !.file = r.known]
         \/ decided' = decided
      /\ UNCHANGED <<hour, turn, visits, opened, rotated, catalog, hourly, mode, reach,
                     route, pending, drift>>
  BY <1>1 DEF Routing, Typed, SaveBook, Booked, timeVars, logVars, routeVars
<1>3. /\ r \in Manager /\ r.upto <= Len(visits) /\ r.upto \in Nat /\ r.file \in Nat
      /\ r.kept \in SUBSET Nat /\ r.known \in Known /\ r.now \in Nat
      /\ hour \in Nat /\ Len(visits) \in Nat
  BY <1>1, <1>2, LenProperties DEF Shapes, Manager
<1>4. /\ r.now <= hour /\ InWindowOf(r.kept, r.now - 1)
      /\ KeptSince(r.kept, r.now - 1, r.upto) /\ Passed(r.file, r.upto)
  BY <1>1, <1>2 DEF Logged, Gathered, RunSteps
<1>5. /\ managers' \in [Managers -> Manager] /\ managers'[m] = Off
      /\ \A n \in Managers \ {m} : managers'[n] = managers[n] /\ managers[n].pc = "off"
      /\ panel' \in Call /\ Locked'
  BY <1>2, OverLocks
<1>6. \A n \in Managers : managers'[n].pc = "off"
  BY <1>5, OffManager
<1>7. \A n \in Managers : managers'[n].upto <= Len(visits')
  <2>1. Off.upto = 0
    BY DEF Off
  <2> QED
    BY <1>2, <1>3, <1>5, <2>1 DEF Shapes
<1>8. /\ book' \in [file : Nat, off : Nat, kept : SUBSET Nat]
      /\ book'.file = r.file /\ book'.off = r.upto /\ book'.kept = r.kept
  BY <1>2, <1>3
<1>9. decided' \in [file : Known, search : SUBSET [known : Known, of : SUBSET Domains]]
  BY <1>2, <1>3 DEF Shapes
<1>10. Shapes'
  BY <1>2, <1>3, <1>5, <1>7, <1>8, <1>9 DEF Shapes
<1>11. Logged'
  <2>1. \A i \in 1..Len(visits) : visits[i].at \in Nat
    <3>1. visits \in Seq([of : Domains, at : Nat])
      BY <1>2 DEF Shapes
    <3>2. \A i \in 1..Len(visits) : visits[i] \in [of : Domains, at : Nat]
      BY <3>1, RowsAre
    <3> QED
      BY <3>2
  <2>2. KeptSince(book.kept, hour - 1, book.off)'
    <3> SUFFICES ASSUME NEW i \in 1..r.upto, visits[i].at >= hour - 1
                 PROVE  i \in r.kept \/ i \in rotated
      BY <1>2, <1>8 DEF KeptSince
    <3>1. visits[i].at \in Nat
      BY <1>3, <2>1
    <3>2. visits[i].at >= r.now - 1
      BY <1>3, <1>4, <3>1
    <3> QED
      BY <1>4, <3>2 DEF KeptSince
  <2>3. book'.kept \subseteq 1..Len(visits')
    BY <1>2, <1>4, <1>8 DEF InWindowOf
  <2>4. Passed(book.file, book.off)'
    BY <1>2, <1>4, <1>8 DEF Passed
  <2>5. \A i \in 1..Len(visits') : visits'[i].at <= hour'
    BY <1>2 DEF Logged
  <2>6. ASSUME NEW w \in hourly' \cup {o.by : o \in catalog'.observed}
        PROVE  w.upto <= Len(visits') /\ InWindowOf(w.kept, w.from)'
    BY <1>2, <2>6 DEF Logged, InWindowOf
  <2>7. ASSUME NEW w \in hourly'
        PROVE  KeptSince(w.kept, w.from, w.upto)'
    BY <1>2, <2>7 DEF Logged, KeptSince
  <2>8. \A n \in Managers : managers'[n].pc \notin Gathered
    BY <1>6 DEF Gathered
  <2> QED
    BY <2>2, <2>3, <2>4, <2>5, <2>6, <2>7, <2>8 DEF Logged
<1>12. Forced'
  BY <1>2, <1>6 DEF Forced, Gathered
<1>13. Steered'
  <2>1. /\ \A md : Loads(md) => Loads(md)'
        /\ Loads(mode) => Loads(mode)'
        /\ Parted => Parted'
    BY <1>2 DEF Loads, Allowed, Parted
  <2>2. Held'
    BY <1>2 DEF Steered, Held
  <2>3. managers[m].pc \notin {"gather", "classify", "apply"} /\ managers[m].pc # "off"
    BY <1>2
  <2> QED
    BY <1>2, <2>1, <2>2, <2>3, SteeredOver
<1> QED
  BY <1>5, <1>10, <1>11, <1>12, <1>13 DEF Routing, Typed

-----------------------------------------------------------------------------
(* The search by hand. *)

\* A copy of the decisions is taken.
LEMMA SearchStartsStep ==
  ASSUME Routing, NEW ds \in SUBSET Domains, SearchStarts(ds)
  PROVE  Routing'
<1>1. /\ Shapes /\ Logged
      /\ decided' = [decided EXCEPT !.search = {[known |-> decided.file, of |-> ds]}]
      /\ UNCHANGED <<hour, turn, visits, opened, rotated, book, catalog, hourly, mode, reach,
                     route, pending, managers, applying, gate, panel, drift>>
  BY DEF Routing, Typed, SearchStarts, timeVars, logVars, noteVars, routeVars, lockVars
<1>2. decided \in [file : Known, search : SUBSET [known : Known, of : SUBSET Domains]]
  BY <1>1 DEF Shapes
<1>3. [known |-> decided.file, of |-> ds] \in [known : Known, of : SUBSET Domains]
  BY <1>2
<1>4. decided' \in [file : Known, search : SUBSET [known : Known, of : SUBSET Domains]]
  BY <1>1, <1>2, <1>3
<1>5. Shapes'
  BY <1>1, <1>4 DEF Shapes
<1>6. Logged'
  BY <1>1, LoggedStays
<1> QED
  BY <1>1, <1>5, <1>6, WorldStep

\* The copy is saved with what was found, whatever has been decided since.
LEMMA SearchEndsStep ==
  ASSUME Routing, SearchEnds
  PROVE  Routing'
<1>1. /\ Shapes /\ Logged
      /\ UNCHANGED <<hour, turn, visits, opened, rotated, book, catalog, hourly, mode, reach,
                     route, pending, managers, applying, gate, panel, drift>>
  BY DEF Routing, Typed, SearchEnds, timeVars, logVars, noteVars, routeVars, lockVars
<1>2. PICK s \in decided.search : \E answers \in [s.of -> Categories] :
        decided' = [search |-> {}, file |-> [d \in Domains |->
            IF d \in s.of /\ answers[d] # "none" THEN answers[d] ELSE s.known[d]]]
  BY DEF SearchEnds, Categories
<1>3. s.known \in Known
  BY <1>1 DEF Shapes
<1>4. PICK answers \in [s.of -> Categories] :
        decided' = [search |-> {}, file |-> [d \in Domains |->
            IF d \in s.of /\ answers[d] # "none" THEN answers[d] ELSE s.known[d]]]
  BY <1>2
<1>5. PICK saved : saved = [d \in Domains |->
            IF d \in s.of /\ answers[d] # "none" THEN answers[d] ELSE s.known[d]]
  OBVIOUS
<1>6. saved \in Known
  BY <1>3, <1>5 DEF Known
<1>7. decided' \in [file : Known, search : SUBSET [known : Known, of : SUBSET Domains]]
  BY <1>4, <1>5, <1>6
<1>8. Shapes'
  BY <1>1, <1>7 DEF Shapes
<1>9. Logged'
  BY <1>1, LoggedStays
<1> QED
  BY <1>1, <1>8, <1>9, WorldStep

-----------------------------------------------------------------------------
(* The panel's request. *)

\* A step of the panel that touches no manager.
LEMMA PanelStep ==
  ASSUME Routing, Locked', Steered', panel' \in Call, mode' \in Modes,
         UNCHANGED <<hour, turn, visits, opened, rotated, book, catalog, hourly, decided, reach,
                     route, pending, managers>>
  PROVE  Routing'
<1>1. Shapes /\ Logged /\ Forced
  BY DEF Routing, Typed
<1>2. Shapes'
  BY <1>1 DEF Shapes
<1>3. Logged'
  BY <1>1, LoggedStays
<1>4. Forced'
  BY <1>1, ForcedStays
<1> QED
  BY <1>2, <1>3, <1>4 DEF Routing, Typed

\* The panel takes the gate.
LEMMA RequestStep ==
  ASSUME Routing, NEW w \in Modes, Request(w)
  PROVE  Routing'
<1>1. /\ Shapes /\ Locked /\ Steered /\ panel.pc = "idle" /\ gate = Free
      /\ gate' = "panel" /\ panel' = [pc |-> "launch", want |-> w, was |-> mode]
      /\ UNCHANGED <<hour, turn, visits, opened, rotated, book, catalog, hourly, decided, mode,
                     reach, route, pending, managers, applying, drift>>
  BY DEF Routing, Typed, Request, timeVars, logVars, noteVars, routeVars
<1>2. panel' \in Call /\ panel'.pc = "launch" /\ panel'.was = mode /\ mode \in Modes
  BY <1>1 DEF Shapes, Call
<1>3. Locked'
  BY <1>1, <1>2 DEF Locked, Free
<1>4. Steered'
  BY <1>1, <1>2 DEF Steered, Loads, Allowed, Held, Parted
<1> QED
  BY <1>1, <1>2, <1>3, <1>4, PanelStep

\* The panel gives up, or is done: nothing is parted unless it is noted.
LEMMA CloseStep ==
  ASSUME Routing, Close, panel.pc # "idle", mode' \in Modes,
         ~Parted' => Loads(mode') /\ managers["child"].pc = "off",
         drift \cap {"unmarked"} \subseteq drift',
         UNCHANGED <<hour, turn, visits, opened, rotated, book, catalog, hourly, decided, reach,
                     route, pending, managers, applying>>
  PROVE  Routing'
<1>1. Shapes /\ Locked /\ Steered
  BY DEF Routing, Typed
<1>2. panel' = Asleep /\ gate' = Free /\ Asleep \in Call /\ Asleep.pc = "idle"
  BY DEF Close, Asleep, Call, Modes
<1>3. gate = "panel" /\ managers["cycle"].pc = "off"
  BY <1>1 DEF Locked
<1>4. Locked'
  BY <1>1, <1>2, <1>3 DEF Locked, Free
<1>5. (Loads(mode)' \/ Parted') /\ Held'
  BY <1>1 DEF Loads, Allowed, Held, Steered
<1>6. Steered'
  BY <1>1, <1>2, <1>3, <1>5 DEF Steered, Managers
<1> QED
  BY <1>2, <1>4, <1>6, PanelStep

\* The panel launches a manager with the mode asked for, or with the old one.
LEMMA LaunchStep ==
  ASSUME Routing, Launch
  PROVE  Routing'
<1>1. /\ Shapes /\ Locked /\ Logged /\ Forced /\ Steered
      /\ panel.pc \in {"launch", "undo"}
      /\ UNCHANGED <<hour, turn, visits, opened, rotated, book, catalog, hourly, decided, mode,
                     reach, route, pending>>
  BY DEF Routing, Typed, Launch, timeVars, logVars, noteVars, routeVars
<1>2. CASE applying = Free
  <2>1. PICK md : md = IF panel.pc = "undo" THEN panel.was ELSE panel.want
    OBVIOUS
  <2>2. PICK r : r = [Off EXCEPT !.pc = "gather", !.mode = md]
    OBVIOUS
  <2>3. /\ applying' = "child" /\ gate' = gate /\ drift' = drift
        /\ managers' = [managers EXCEPT !["child"] = r]
        /\ panel' = [panel EXCEPT !.pc = IF @ = "undo" THEN "rewait" ELSE "wait"]
    BY <1>2, <2>1, <2>2 DEF Launch, Free
  <2>4. panel \in Call /\ md \in Modes
    BY <1>1, <2>1 DEF Shapes, Call
  <2>5. r \in Manager /\ r.pc = "gather" /\ r.mode = md /\ r.upto = 0
    <3>1. Off \in Manager /\ Off.upto = 0
      BY OffManager DEF Off
    <3> QED
      BY <2>2, <2>4, <3>1 DEF Manager, RunSteps
  <2>6. /\ managers' \in [Managers -> Manager] /\ managers'["child"] = r
        /\ managers'["cycle"] = managers["cycle"]
    BY <1>1, <2>3, <2>5, OneMoves DEF Shapes, Managers
  <2>7. managers["cycle"].pc = "off" /\ managers["child"].pc = "off" /\ gate = "panel"
    BY <1>1, <1>2 DEF Locked, Managers, Free
  <2>8. /\ panel' \in Call /\ panel'.want = panel.want /\ panel'.was = panel.was
        /\ panel.pc = "launch" => panel'.pc = "wait"
        /\ panel.pc = "undo" => panel'.pc = "rewait"
    BY <1>1, <2>3, <2>4 DEF Call
  <2>9. \A n \in Managers : managers'[n].upto <= Len(visits')
    <3>1. Len(visits) \in Nat
      BY <1>1, LenProperties DEF Shapes
    <3> QED
      BY <1>1, <2>5, <2>6, <3>1 DEF Shapes, Managers
  <2>10. Shapes'
    BY <1>1, <2>6, <2>8, <2>9 DEF Shapes
  <2>11. Locked'
    BY <1>1, <2>3, <2>5, <2>6, <2>7, <2>8 DEF Locked, Managers
  <2>12. Logged'
    BY <1>1, <2>5, <2>6, <2>7, LoggedStays DEF Gathered, Managers
  <2>13. Forced'
    BY <1>1, <2>5, <2>6, <2>7, ForcedStays DEF Gathered, Managers
  <2>14. Steered'
    <3>1. (\A x : Loads(x)' <=> Loads(x)) /\ (Parted' <=> Parted)
      BY <1>1, <2>3 DEF Loads, Allowed, Parted
    <3>2. panel.was = mode /\ Held'
      BY <1>1, <2>3 DEF Steered, Held
    <3>3. CASE panel.pc = "launch"
      <4>1. panel'.pc = "wait" /\ md = panel.want
        BY <2>1, <2>8, <3>3
      <4>2. Loads(mode) \/ Parted
        BY <1>1, <3>3 DEF Steered
      <4> QED
        BY <1>1, <2>3, <2>5, <2>6, <2>7, <2>8, <3>1, <3>2, <4>1, <4>2 DEF Steered, Managers
    <3>4. CASE panel.pc = "undo"
      <4>1. panel'.pc = "rewait" /\ md = panel.was
        BY <2>1, <2>8, <3>4
      <4> QED
        BY <1>1, <2>3, <2>5, <2>6, <2>7, <2>8, <3>1, <3>2, <4>1 DEF Steered, Managers
    <3> QED
      BY <1>1, <3>3, <3>4
  <2> QED
    BY <2>10, <2>11, <2>12, <2>13, <2>14 DEF Routing, Typed
<1>3. CASE applying # Free
  <2>1. /\ Close /\ applying' = applying /\ managers' = managers
        /\ drift' = drift \cup (IF panel.pc = "undo" THEN {"undo"} ELSE {})
    BY <1>3 DEF Launch
  <2>2. ~Parted' => Loads(mode) /\ managers["child"].pc = "off"
    <3>1. ~Parted' => panel.pc = "launch" /\ ~Parted
      BY <1>1, <2>1 DEF Parted
    <3> QED
      BY <1>1, <3>1 DEF Steered
  <2>3. mode' = mode /\ mode \in Modes
    BY <1>1 DEF Shapes
  <2>4. ~Parted' => Loads(mode')
    BY <2>2, <2>3
  <2> QED
    BY <1>1, <2>1, <2>2, <2>3, <2>4, CloseStep
<1> QED
  BY <1>2, <1>3

\* The panel has waited long enough, and kills the manager if it can.
LEMMA PanelTimesOutStep ==
  ASSUME Routing, PanelTimesOut
  PROVE  Routing'
<1>1. CASE Dies("child") /\ Over("child", FALSE)
  BY <1>1, DiesStep DEF Managers
<1>2. CASE /\ Close
           /\ drift' = drift \cup {"timeout"}
           /\ UNCHANGED <<timeVars, logVars, noteVars, decided, mode, reach, routeVars,
                          managers, applying>>
  <2>1. panel.pc # "idle" /\ Parted'
    BY <1>2 DEF PanelTimesOut, Parted
  <2>2. mode' \in Modes
    BY <1>2 DEF Routing, Typed, Shapes
  <2>3. UNCHANGED <<hour, turn, visits, opened, rotated, book, catalog, hourly, decided, reach,
                    route, pending, managers, applying>>
    BY <1>2 DEF timeVars, logVars, noteVars, routeVars
  <2> QED
    BY <1>2, <2>1, <2>2, <2>3, CloseStep
<1> QED
  BY <1>1, <1>2 DEF PanelTimesOut

\* The mode is stored: the manager that was waited for has applied it.
LEMMA PanelStoresStep ==
  ASSUME Routing, PanelStores
  PROVE  Routing'
<1>1. /\ Shapes /\ Locked /\ Steered /\ panel.pc = "store" /\ Close
      /\ mode' = panel.want /\ drift' = drift \cap {"unmarked"}
      /\ UNCHANGED <<hour, turn, visits, opened, rotated, book, catalog, hourly, decided, reach,
                     route, pending, managers, applying>>
  BY DEF Routing, Typed, PanelStores, timeVars, logVars, noteVars, routeVars
<1>2. mode' \in Modes
  BY <1>1 DEF Shapes, Call
<1>3. Loads(panel.want) /\ managers["child"].pc = "off"
  BY <1>1 DEF Steered, Locked
<1>4. Loads(mode')
  BY <1>1, <1>3
<1> QED
  BY <1>1, <1>2, <1>3, <1>4, CloseStep

\* The store fails: the old mode is applied again, unless it was that one.
LEMMA StoreFailsStep ==
  ASSUME Routing, StoreFails
  PROVE  Routing'
<1>1. /\ Shapes /\ Locked /\ Steered /\ panel.pc = "store"
      /\ \/ panel.was = panel.want /\ Close
         \/ panel.was # panel.want /\ panel' = [panel EXCEPT !.pc = "undo"] /\ gate' = gate
      /\ UNCHANGED <<hour, turn, visits, opened, rotated, book, catalog, hourly, decided, mode,
                     reach, route, pending, managers, applying, drift>>
  BY DEF Routing, Typed, StoreFails, timeVars, logVars, noteVars, routeVars
<1>2. panel \in Call /\ mode' \in Modes
  BY <1>1 DEF Shapes
<1>3. /\ Loads(panel.want) /\ panel.was = mode
      /\ managers["child"].pc = "off"
  BY <1>1 DEF Steered, Locked
<1>4. CASE panel.was = panel.want /\ Close
  <2>1. Loads(mode')
    BY <1>1, <1>3, <1>4
  <2> QED
    BY <1>1, <1>2, <1>3, <1>4, <2>1, CloseStep
<1>5. CASE panel.was # panel.want /\ panel' = [panel EXCEPT !.pc = "undo"] /\ gate' = gate
  <2>1. panel' \in Call /\ panel'.pc = "undo" /\ panel'.was = panel.was
    BY <1>2, <1>5 DEF Call
  <2>2. Locked'
    BY <1>1, <1>3, <1>5, <2>1 DEF Locked
  <2>3. Steered'
    BY <1>1, <1>3, <2>1 DEF Steered, Loads, Allowed, Held, Parted
  <2> QED
    BY <1>1, <1>2, <2>1, <2>2, <2>3, PanelStep
<1> QED
  BY <1>1, <1>4, <1>5

\* The panel dies with a request under way.
LEMMA PanelDiesStep ==
  ASSUME Routing, PanelDies
  PROVE  Routing'
<1>1. /\ Shapes /\ panel.pc # "idle" /\ Close /\ drift' = drift \cup {"panel"}
      /\ UNCHANGED <<hour, turn, visits, opened, rotated, book, catalog, hourly, decided, mode,
                     reach, route, pending, managers, applying>>
  BY DEF Routing, Typed, PanelDies, timeVars, logVars, noteVars, routeVars
<1>2. mode' \in Modes
  BY <1>1 DEF Shapes
<1>3. Parted' /\ drift \cap {"unmarked"} \subseteq drift'
  BY <1>1 DEF Parted
<1> QED
  BY <1>1, <1>2, <1>3, CloseStep

-----------------------------------------------------------------------------
(* The specification. *)

\* Nothing has run yet.
LEMMA RoutingInit ==
  ASSUME AiInit
  PROVE  Routing
<1>1. /\ hour = 0 /\ turn = FALSE /\ visits = <<>> /\ opened = 0 /\ rotated = {}
      /\ book = [file |-> 0, off |-> 0, kept |-> {}]
      /\ decided = [file |-> Unknown, search |-> {}]
      /\ catalog = [ai |-> {}, observed |-> {}]
      /\ hourly = {} /\ mode = "auto" /\ reach = {1, 2}
      /\ route = [config |-> Direct, synced |-> Direct, loaded |-> Direct] /\ pending = FALSE
      /\ managers = [m \in Managers |-> Off]
      /\ gate = Free /\ applying = Free /\ panel = Asleep
  BY DEF AiInit
<1>2. /\ Unknown \in Known /\ Direct \in Route /\ Direct.to = 0 /\ Asleep \in Call
      /\ Asleep.pc = "idle" /\ "auto" \in Modes
  BY DEF Unknown, Known, Categories, Direct, Route, Asleep, Call, Modes
<1>3. visits \in Seq([of : Domains, at : Nat]) /\ Len(visits) = 0
  BY <1>1, EmptySeq
<1>4. Off \in Manager /\ Off.pc = "off" /\ Off.upto = 0
  BY OffManager DEF Off
<1>5. /\ managers \in [Managers -> Manager]
      /\ \A m \in Managers : managers[m].pc = "off" /\ managers[m].upto = 0
  BY <1>1, <1>4
<1>6. Shapes
  <2>1. hour \in Nat /\ turn \in Flag /\ pending \in Flag
    BY <1>1 DEF Flag
  <2>2. opened \in 0 .. Len(visits) /\ rotated \in SUBSET Nat
    BY <1>1, <1>3
  <2>3. book \in [file : Nat, off : Nat, kept : SUBSET Nat] /\ book.off <= Len(visits)
    BY <1>1, <1>3
  <2>4. decided \in [file : Known, search : SUBSET [known : Known, of : SUBSET Domains]]
    BY <1>1, <1>2
  <2>5. /\ catalog \in [ai : SUBSET Domains, observed : SUBSET [of : Domains, by : Report]]
        /\ catalog.ai \subseteq {o.of : o \in catalog.observed}
        /\ hourly \in SUBSET Report
    BY <1>1
  <2>6. /\ mode \in Modes /\ reach \in SUBSET {1, 2} /\ panel \in Call
        /\ route \in [config : Route, synced : Route, loaded : Route]
    BY <1>1, <1>2
  <2>7. \A m \in Managers : managers[m].upto <= Len(visits)
    BY <1>3, <1>5
  <2> QED
    BY <1>3, <1>5, <2>1, <2>2, <2>3, <2>4, <2>5, <2>6, <2>7 DEF Shapes
<1>7. Locked
  BY <1>1, <1>2, <1>5 DEF Locked, Managers, Free
<1>8. Forced
  BY <1>1, <1>2, <1>5 DEF Forced, Gathered
<1>9. Steered
  BY <1>1, <1>2, <1>5 DEF Steered, Loads, Allowed, Held, Managers
<1>10. Logged
  <2>1. /\ book.file = 0 /\ book.off = 0 /\ book.kept = {} /\ opened = 0
        /\ catalog.observed = {} /\ hourly = {}
    BY <1>1
  <2>2. KeptSince(book.kept, hour - 1, book.off) /\ Passed(book.file, book.off)
    BY <2>1 DEF KeptSince, Passed
  <2> QED
    BY <1>3, <1>5, <2>1, <2>2 DEF Logged, Gathered
<1> QED
  BY <1>6, <1>7, <1>8, <1>9, <1>10 DEF Routing, Typed

\* A run's steps.
LEMMA ManagerStepKeeps ==
  ASSUME Routing, NEW m \in Managers, ManagerStep(m)
  PROVE  Routing'
<1>1. CASE Gather(m)
  BY <1>1, GatherStep
<1>2. CASE \E d \in Domains, answer \in Classes : ClassifyBatch(m, d, answer)
  BY <1>2, ClassifyBatchStep
<1>3. CASE ClassifyEnds(m)
  BY <1>3, ClassifyEndsStep
<1>4. CASE ApplyRoute(m)
  BY <1>4, ApplyRouteStep
<1>5. CASE Record(m)
  BY <1>5, RecordStep
<1>6. CASE WriteReport(m)
  BY <1>6, WriteReportStep
<1>7. CASE SaveBook(m)
  BY <1>7, SaveBookStep
<1> QED
  BY <1>1, <1>2, <1>3, <1>4, <1>5, <1>6, <1>7 DEF ManagerStep

\* Every step keeps the invariants.
LEMMA RoutingNext ==
  ASSUME Routing, [AiNext]_aiVars
  PROVE  Routing'
<1>1. CASE HourPasses
  BY <1>1, HourPassesStep
<1>2. CASE Rotate
  BY <1>2, RotateStep
<1>3. CASE ReachChanges
  BY <1>3, ReachChangesStep
<1>4. CASE NodeRestarts
  BY <1>4, NodeRestartsStep
<1>5. CASE \E d \in Domains : Visit(d)
  BY <1>5, VisitStep
<1>6. CASE CycleStep
  BY <1>6, CycleStartsStep, ManagerStepKeeps DEF CycleStep, Managers
<1>7. CASE CycleIsBusy
  BY <1>7, CycleIsBusyStep
<1>8. CASE ManagerStep("child")
  BY <1>8, ManagerStepKeeps DEF Managers
<1>9. CASE \E w \in Modes : Request(w)
  BY <1>9, RequestStep
<1>10. CASE Launch
  BY <1>10, LaunchStep
<1>11. CASE PanelStores
  BY <1>11, PanelStoresStep
<1>12. CASE SearchEnds
  BY <1>12, SearchEndsStep
<1>13. CASE \E ds \in SUBSET Domains : SearchStarts(ds)
  BY <1>13, SearchStartsStep
<1>14. CASE AiFault
  <2>1. CASE \E m \in Managers : ApplyFails(m) \/ ReportingFails(m) \/ KillManager(m)
    BY <2>1, ApplyFailsStep, ReportingFailsStep, KillManagerStep
  <2>2. CASE PanelTimesOut \/ StoreFails \/ PanelDies
    BY <2>2, PanelTimesOutStep, StoreFailsStep, PanelDiesStep
  <2> QED
    BY <1>14, <2>1, <2>2 DEF AiFault
<1>15. CASE UNCHANGED aiVars
  <2>1. UNCHANGED <<hour, turn, visits, opened, rotated, book, catalog, hourly, decided, mode,
                    reach, route, pending, managers, applying, gate, panel, drift>>
    BY <1>15 DEF aiVars, timeVars, logVars, noteVars, routeVars, lockVars
  <2>2. Shapes'
    BY <2>1 DEF Routing, Typed, Shapes
  <2>3. Logged'
    BY <2>1, LoggedStays DEF Routing
  <2> QED
    BY <2>1, <2>2, <2>3, WorldStep
<1> QED
  BY <1>1, <1>2, <1>3, <1>4, <1>5, <1>6, <1>7, <1>8, <1>9, <1>10, <1>11, <1>12, <1>13, <1>14,
     <1>15 DEF AiNext

\* The three invariants hold in every reachable state.
THEOREM RoutingHolds == AiSpec => []Routing
<1>1. AiInit => Routing
  BY RoutingInit
<1>2. Routing /\ [AiNext]_aiVars => Routing'
  BY RoutingNext
<1> QED
  BY <1>1, <1>2, PTL DEF AiSpec

\* The state is what it is declared to be, and at every moment the two locks,
\* the runs and the panel's request agree on who holds what (lock.py, runner.py).
THEOREM RunsTyped == AiSpec => []AiTypeOK
<1>1. Routing => AiTypeOK
  <2> SUFFICES ASSUME Routing PROVE AiTypeOK
    OBVIOUS
  <2>1. Shapes /\ Locked
    BY DEF Routing, Typed
  <2>2. /\ hour \in Nat /\ turn \in BOOLEAN /\ pending \in BOOLEAN
        /\ opened \in 0 .. Len(visits) /\ mode \in Modes /\ reach \subseteq {1, 2}
        /\ catalog.ai \subseteq {o.of : o \in catalog.observed}
    BY <2>1 DEF Shapes, Flag
  <2>3. book.off \in 0 .. Len(visits)
    <3>1. Len(visits) \in Nat
      BY <2>1, LenProperties DEF Shapes
    <3> QED
      BY <2>1, <3>1 DEF Shapes
  <2>4. \A d \in Domains : decided.file[d] \in SearchClasses \cup {"none"}
    BY <2>1 DEF Shapes, Known, Categories
  <2>5. \A c \in DOMAIN route : route[c].to \in 0 .. 2 /\ route[c].of \subseteq Domains
    <3>1. route \in [config : Route, synced : Route, loaded : Route]
      BY <2>1 DEF Shapes
    <3>2. DOMAIN route = {"config", "synced", "loaded"}
      BY <3>1
    <3>3. route.config \in Route /\ route.synced \in Route /\ route.loaded \in Route
      BY <3>1
    <3>4. \A c \in DOMAIN route : route[c] \in Route
      BY <3>2, <3>3
    <3> QED
      BY <3>4 DEF Route
  <2>6. /\ \A m \in Managers : managers[m].pc # "off" <=> applying = m
        /\ gate = "panel" <=> panel.pc # "idle"
        /\ gate = "cycle" <=> managers["cycle"].pc # "off"
        /\ panel.pc \in {"wait", "rewait"} => managers["child"].pc # "off"
    BY <2>1 DEF Locked
  <2> QED
    BY <2>2, <2>3, <2>4, <2>5, <2>6 DEF AiTypeOK
<1> QED
  BY <1>1, RoutingHolds, PTL

\* Between runs and requests the node routes as the stored mode says, unless
\* that is marked or one of the named faults was met; and a route to a
\* candidate has every builtin domain (manager.py, runtime.py).
THEOREM ModeIsFollowed == AiSpec => []RouteFollowsMode
<1>1. Routing => RouteFollowsMode
  <2> SUFFICES ASSUME Routing PROVE RouteFollowsMode
    OBVIOUS
  <2>1. Shapes /\ Forced /\ Steered
    BY DEF Routing, Typed
  <2>2. AiQuiet => /\ route.loaded.to \in Allowed(mode) \/ pending \/ drift # {}
                   /\ route.synced.to \in Allowed(mode) \/ pending \/ drift \ {"unmarked"} # {}
    BY <2>1 DEF AiQuiet, Steered, Loads, Held, Parted
  <2>3. DOMAIN route = {"config", "synced", "loaded"}
    BY <2>1 DEF Shapes
  <2>4. \A c \in DOMAIN route : route[c].to # 0 => Builtin \subseteq route[c].of
    BY <2>1, <2>3 DEF Forced
  <2> QED
    BY <2>2, <2>4 DEF RouteFollowsMode
<1> QED
  BY <1>1, RoutingHolds, PTL

\* No visit that a run read is missing from the hourly report of its window,
\* nor from the analysis of its day, but for a log rotated away unread.
THEOREM NoVisitIsLost == AiSpec => []ReportsComplete
<1>1. Routing => ReportsComplete
  <2> SUFFICES ASSUME Routing PROVE ReportsComplete
    OBVIOUS
  <2>1. Shapes /\ Logged
    BY DEF Routing, Typed
  <2>2. WindowsComplete
    BY <2>1 DEF WindowsComplete, Logged, KeptSince
  <2>3. DaysComplete
    <3> SUFFICES ASSUME NEW r \in hourly \cup {o.by : o \in catalog.observed}, NEW i \in r.kept,
                        r \in hourly \/ [of |-> visits[i].of, by |-> r] \in catalog.observed
                 PROVE  \E hit \in DayHits(visits[i].of, visits[i].at) : hit[2] = i
      BY DEF DaysComplete
    <3>1. PICK d, h : d = visits[i].of /\ h = visits[i].at
      OBVIOUS
    <3>2. i \in 1..Len(visits) /\ h \in {r.from, r.from + 1} /\ r.from \in Int
      <4>1. InWindowOf(r.kept, r.from)
        BY <2>1 DEF Logged
      <4>2. r \in Report
        BY <2>1 DEF Shapes
      <4> QED
        BY <3>1, <4>1, <4>2 DEF InWindowOf, Report
    <3>3. InDay(r, h)
      BY <3>2 DEF InDay
    <3>4. r \in DayRecords(d, h)
      <4>1. CASE r \in hourly
        BY <3>3, <4>1 DEF DayRecords
      <4>2. CASE [of |-> d, by |-> r] \in catalog.observed
        <5>1. PICK o \in catalog.observed : o = [of |-> d, by |-> r]
          BY <4>2
        <5>2. o.of = d /\ o.by = r
          BY <5>1
        <5> QED
          BY <3>3, <5>2 DEF DayRecords, ObservedIn
      <4> QED
        BY <3>1, <4>1, <4>2
    <3>5. <<r, i>> \in DayHits(d, h)
      BY <3>1, <3>2, <3>4 DEF DayHits
    <3> QED
      BY <3>1, <3>5
  <2> QED
    BY <2>2, <2>3 DEF ReportsComplete
<1> QED
  BY <1>1, RoutingHolds, PTL

=============================================================================
