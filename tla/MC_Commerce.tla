----------------------------- MODULE MC_Commerce -----------------------------
(* Values of the constants of Commerce for TLC. *)
EXTENDS Commerce

MCListens == {1, 2}
MCSale == {1}

Bounds(o, u, p, e, b) ==
  [orders |-> o, proofs |-> u, ports |-> p, edits |-> e, boots |-> b]

\* Renewals after renewals; a purchase, a renewal and an admin; uploads that
\* overlap in one order; ports without customers, and boots.
MCBudgets == {Bounds(3, 2, 1, 0, 1), Bounds(2, 2, 2, 1, 0),
              Bounds(1, 3, 1, 0, 1), Bounds(1, 1, 2, 2, 1)}
MCOneSale == {Bounds(1, 1, 2, 2, 1)}
=============================================================================
