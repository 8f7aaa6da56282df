--------------------------- MODULE MC_DnsFailover ---------------------------
(* Instances of DnsFailover for TLC: one worker, and at most two admins. *)
EXTENDS DnsFailover, TLC

CONSTANTS worker, a1, a2

WorkerOnly == {worker}
WorkerAndAdmin == {worker, a1}
NoAdmins == {}
OneAdmin == {a1}

=============================================================================
