---------------------------- MODULE AtomicApply ----------------------------
(***************************************************************************)
(* What an apply promises to the customers (XrayApply is the detailed      *)
(* one): a change of the ports on sale is served before it is committed,   *)
(* and is either committed as it is served or withdrawn as if it had never *)
(* been tried.  Nothing else alters what the node serves.                  *)
(***************************************************************************)
CONSTANT Ports

VARIABLES
  sold,     \* the ports that are committed as enabled
  due,      \* those of them past a limit
  served,   \* the ports that the node has loaded
  change,   \* {}, or the ports that the change under way wants sold
  kept      \* nothing has happened that the promise excepts

vars == <<sold, due, served, change, kept>>

\* Every port that is owed is served, and none that is not sold.
Covers(ports, owed) == ports \ owed \subseteq served /\ served \subseteq ports

Init ==
  /\ sold \in SUBSET Ports
  /\ due = {} /\ served = sold /\ change = {} /\ kept = TRUE

Start ==
  /\ change = {}
  /\ \E ports \in SUBSET Ports : change' = {ports}
  /\ UNCHANGED <<sold, due, served>>

\* A port that is due may be left out.
Deploy ==
  /\ \E ports \in change : ports \ due \subseteq served' /\ served' \subseteq ports
  /\ UNCHANGED <<sold, due, change>>

Commit ==
  /\ change = {sold'} /\ due' \subseteq due
  /\ Covers(sold', due')
  /\ change' = {}
  /\ UNCHANGED served

\* The node serves again what it served before.
Withdraw ==
  /\ change # {} /\ change' = {}
  /\ sold \ due \subseteq served' /\ served' \subseteq sold
  /\ UNCHANGED <<sold, due>>

FallsDue ==
  /\ due \subseteq due' /\ due' \subseteq due \cup sold
  /\ UNCHANGED <<sold, served, change>>

Next ==
  \/ kept' = kept /\ (Start \/ Deploy \/ Commit \/ Withdraw \/ FallsDue)
  \/ kept' = FALSE

Spec == Init /\ [][Next]_vars

\* When no change is under way the node serves what is sold.
SoldIsServed == kept /\ change = {} => Covers(sold, due)
=============================================================================
