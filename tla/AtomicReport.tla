---------------------------- MODULE AtomicReport ----------------------------
(***************************************************************************)
(* What a replacement of a daily report promises to its readers            *)
(* (DailyReports is the detailed one): the two files of a date change at   *)
(* once, to the report of one run, and until its files are settled back to *)
(* what they were before; a run is recorded as successful only by what the *)
(* readers have then.  Reports are numbers, the later the higher; 0 is     *)
(* none.                                                                   *)
(***************************************************************************)
EXTENDS Naturals

CONSTANT Dates

VARIABLES
  page,      \* per date: the reports whose JSON and Markdown a reader gets
  trial,     \* {}, or the date whose report is new, and what it had before
  recorded,  \* per date: the reports that are recorded as successful
  gone,      \* the dates that are too old
  lost       \* the dates whose files could not be put back

vars == <<page, trial, recorded, gone, lost>>

Pair(n) == [json |-> n, md |-> n]

Init ==
  /\ page = [d \in Dates |-> Pair(0)]
  /\ trial = {}
  /\ recorded = [d \in Dates |-> {}]
  /\ gone = {} /\ lost = {}

\* A report that is newer than the one there is, and than any recorded one.
Publish(d) ==
  /\ trial = {}
  /\ LET n == page'[d].md
     IN /\ n > page[d].md /\ \A m \in recorded[d] : n > m
        /\ page' = [page EXCEPT ![d] = Pair(n)]
  /\ trial' = {[date |-> d, back |-> page[d].md]}
  /\ UNCHANGED <<recorded, gone, lost>>

\* The new report is there to stay, also when its run ends here.
Keep ==
  /\ trial # {} /\ trial' = {}
  /\ UNCHANGED <<page, recorded, gone, lost>>

Withdraw(d) ==
  /\ \E t \in trial : t.date = d /\ page' = [page EXCEPT ![d] = Pair(t.back)]
  /\ trial' = {}
  /\ UNCHANGED <<recorded, gone, lost>>

\* The files are taken away and the ones before cannot be put back.
Lose(d) ==
  /\ \E t \in trial : t.date = d
  /\ page' = [page EXCEPT ![d] = Pair(0)]
  /\ trial' = {}
  /\ lost' = lost \cup {d}
  /\ UNCHANGED <<recorded, gone>>

Record(d) ==
  /\ trial = {} /\ page[d].md # 0
  /\ recorded' = [recorded EXCEPT ![d] = @ \cup {page[d].md}]
  /\ UNCHANGED <<page, trial, gone, lost>>

Age ==
  /\ gone \subseteq gone'
  /\ UNCHANGED <<page, trial, recorded, lost>>

\* The retention takes what is too old, and nothing else.
Expire ==
  /\ trial = {}
  /\ page' = [d \in Dates |-> IF d \in gone THEN Pair(0) ELSE page[d]]
  /\ UNCHANGED <<trial, recorded, gone, lost>>

Next ==
  \/ \E d \in Dates : Publish(d) \/ Withdraw(d) \/ Lose(d) \/ Record(d)
  \/ Keep \/ Age \/ Expire

Spec == Init /\ [][Next]_vars

\* A report that was recorded as successful is what a reader gets of its date, or
\* a later one is, whatever was published and withdrawn since, unless the date is
\* too old or its files could not be put back.
Standing ==
  \A d \in Dates \ (gone \cup lost) :
    \A m \in recorded[d] : page[d].md = m \/ page[d].md > m
=============================================================================
