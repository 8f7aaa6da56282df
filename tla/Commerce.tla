------------------------------ MODULE Commerce ------------------------------
(***************************************************************************)
(* What a customer pays for: orders, payment proofs and their review, the  *)
(* services that fulfilled orders open or renew (app/state/commerce.py),   *)
(* the ports behind them (app/state/ports.py), and the traffic charged to  *)
(* those ports (app/state/traffic.py, app/xray/stats.py).                  *)
(*                                                                         *)
(* The write lock makes every transaction one step.  Customers, the admin, *)
(* the maintenance worker, time and the node's traffic interleave between  *)
(* the steps; a proof upload is two steps, for its file is written before  *)
(* the transaction.  The apply transaction is one step here: it succeeds,  *)
(* or leaves nothing but the traffic read before it (XrayApply looks into  *)
(* it).                                                                    *)
(***************************************************************************)
EXTENDS FiniteSets, Integers, Sequences

CONSTANTS
  Listens,     \* listening ports an admin may use
  Sale,        \* COMMERCE_AUTO_PORT_START .. COMMERCE_AUTO_PORT_END
  Limit,       \* units of traffic in a limited port's quota
  Budgets      \* the bounds explored: orders, uploads of payment proofs, ports
               \* made, an admin's edits of ports, and restarts of the panel

Budget == [orders : Nat, proofs : Nat, ports : Nat, edits : Nat, boots : Nat]

ASSUME CommerceAssumption ==
  /\ Listens \subseteq Nat \ {0}
  /\ Sale \subseteq Listens
  /\ Limit \in Nat \ {0}
  /\ Budgets \subseteq Budget

VARIABLES
  orders,    \* rows of orders, each with its payment submissions
  services,  \* rows of service_subscriptions
  ports,     \* rows of ports, a deleted one Gone
  usage,     \* bytes sent and received in traffic_totals, in units up to Limit
  counters,  \* the node's counters since they were last read
  loaded,    \* listening ports in the configuration the node runs
  uploads,   \* submissions whose file is written, before their transaction
  files,     \* payment proofs on disk
  room,      \* what is left of the bounds
  edited,    \* history: open renewals whose port an admin changed since
  stray      \* history: listening ports whose row of traffic lost its port

books == <<orders, services>>
node == <<counters, loaded>>
proofs == <<uploads, files>>
vars == <<orders, services, ports, usage, counters, loaded, uploads, files,
          room, edited, stray>>

Expirable == {"pending_payment", "payment_rejected"}
Open == Expirable \cup {"payment_submitted"}
Final == {"fulfilled", "cancelled", "expired"}

Submission == [proof : Nat, review : {"submitted", "approved", "rejected"}]
Order == [kind : {"new_purchase", "renewal"}, service : Nat,
          status : Open \cup Final, late : BOOLEAN, subs : Seq(Submission)]
Port == [listen : Listens, due : BOOLEAN, limited : BOOLEAN,
         enabled : BOOLEAN, service : Nat]
Gone == [listen |-> 0, due |-> FALSE, limited |-> FALSE,
         enabled |-> FALSE, service |-> 0]

Init ==
  /\ orders = <<>> /\ services = <<>> /\ ports = <<>>
  /\ usage = [l \in Listens |-> 0]
  /\ counters = usage
  /\ loaded = {}
  /\ uploads = {} /\ files = {}
  /\ room \in Budgets
  /\ edited = {} /\ stray = {}

-----------------------------------------------------------------------------
(* What the operations share. *)

Take(items) ==
  /\ \A i \in items : room[i] > 0
  /\ room' = [i \in DOMAIN room |-> IF i \in items THEN room[i] - 1 ELSE room[i]]

Live == {p \in DOMAIN ports : ports[p] # Gone}
InUse == {ports[p].listen : p \in Live}
Served(ps) == {ps[p].listen : p \in {q \in DOMAIN ps : ps[q].enabled}}

\* expire_pending_orders_in_tx, which most transactions on orders begin with.
Expire(os) ==
  [o \in DOMAIN os |->
     IF os[o].status \in Expirable /\ os[o].late
     THEN [os[o] EXCEPT !.status = "expired"] ELSE os[o]]

Spent(port, us) == port.limited /\ us[port.listen] >= Limit
Renewable(port) == port # Gone /\ (port.due \/ Spent(port, usage))

\* Only the latest submission of an order is reviewed.
ReviewedFirst(subs, review) == [subs EXCEPT ![1].review = review]
Reviewed(subs, review) == [subs EXCEPT ![Len(subs)].review = review]

\* Rows of traffic_totals go with the port they count for.
Cleared(us, ls) == [l \in Listens |-> IF l \in ls THEN 0 ELSE us[l]]

\* reset_port_usage_in_tx, and the deletion of the row.
Kept(us, l) == us
ResetUsage(us, l) == Cleared(us, {l})
DeletedTraffic(us, l) == Cleared(us, {l})

Plus(us) ==
  [l \in Listens |-> IF us[l] + counters[l] < Limit THEN us[l] + counters[l]
                                                    ELSE Limit]
Zero == [l \in Listens |-> 0]

\* Reading the counters resets them; the node may be out of reach, or its
\* answer may be lost after the reset.  Failure is swallowed in every case.
StatsReads(us) == {[usage |-> Plus(us), counters |-> Zero],
                   [usage |-> us, counters |-> counters],
                   [usage |-> us, counters |-> Zero]}

CleanableAny(port) == port.due
Cleanable(port) == port.due /\ port.service = 0

\* disable_auto_stopped_ports_in_tx: a due port of no customer is deleted with
\* its traffic, any other that is due or has spent its quota is disabled.
AutoStop(ps, us) ==
  LET cut == {ps[p].listen : p \in {q \in DOMAIN ps : Cleanable(ps[q])}}
      left == Cleared(us, cut)
  IN [usage |-> left,
      ports |-> [p \in DOMAIN ps |->
                   IF Cleanable(ps[p]) THEN Gone
                   ELSE [ps[p] EXCEPT !.enabled = @ /\ ~ps[p].due
                                                    /\ ~Spent(ps[p], left)]]]

\* The end of an apply transaction that succeeds: what fell due goes, and the
\* node restarts with what is enabled, its counters at zero.
Apply(ps, us) ==
  LET stopped == AutoStop(ps, us)
  IN /\ ports' = stopped.ports
     /\ usage' = stopped.usage
     /\ loaded' = Served(stopped.ports)
     /\ counters' = Zero

\* History: rows that an operation deletes are strays no longer.
StillStray(ls) == stray' = {l \in ls : usage'[l] > 0}

-----------------------------------------------------------------------------
(* Orders. *)

\* New purchases have no route of their own any more; the operation, and the
\* orders it has made, are still there.
CreatePurchase ==
  /\ Take({"orders"})
  /\ orders' = Append(Expire(orders),
       [kind |-> "new_purchase", service |-> 0, status |-> "pending_payment",
        late |-> FALSE, subs |-> <<>>])
  /\ UNCHANGED <<services, ports, usage, node, proofs, edited, stray>>

HasRenewalToReview(os, s) ==
  \E o \in DOMAIN os :
    os[o].service = s /\ os[o].status \in {"pending_payment", "payment_submitted"}
HasOpenRenewal(os, s) ==
  \E o \in DOMAIN os : os[o].service = s /\ os[o].status \in Open

AlwaysRenewed(s) == TRUE
RenewalAllowed(s) == Renewable(ports[services[s].port])

CreateRenewal(s) ==
  /\ Take({"orders"})
  /\ RenewalAllowed(s)
  /\ ~HasOpenRenewal(Expire(orders), s)
  /\ orders' = Append(Expire(orders),
       [kind |-> "renewal", service |-> s, status |-> "pending_payment",
        late |-> FALSE, subs |-> <<>>])
  /\ UNCHANGED <<services, ports, usage, node, proofs, edited, stray>>

\* The queries for the customer's and the admin's pages expire orders first.
ExpirePendingOrders ==
  /\ orders' = Expire(orders)
  /\ UNCHANGED <<services, ports, usage, node, proofs, room, edited, stray>>

\* A file name is the time of the upload and a token.
ProofNameOfOrder(o) == o
ProofName(o) == room.proofs

SaveProof(o) ==
  /\ Take({"proofs"})
  /\ uploads' = uploads \cup {[order |-> o, proof |-> ProofName(o)]}
  /\ files' = files \cup {ProofName(o)}
  /\ UNCHANGED <<books, ports, usage, node, edited, stray>>

Submit(u) ==
  /\ Expire(orders)[u.order].status \in Expirable
  /\ orders' = [Expire(orders) EXCEPT
       ![u.order].status = "payment_submitted",
       ![u.order].subs = Append(@, [proof |-> u.proof, review |-> "submitted"])]
  /\ uploads' = uploads \ {u}
  /\ UNCHANGED <<services, ports, usage, node, files, room, edited, stray>>

\* The status forbids it, or the database is busy: the file is unlinked.
SubmitFails(u) ==
  /\ uploads' = uploads \ {u}
  /\ files' = files \ {u.proof}
  /\ UNCHANGED <<books, ports, usage, node, room, edited, stray>>

RejectOrder(o) ==
  /\ orders[o].status = "payment_submitted"
  /\ orders' = [Expire(orders) EXCEPT
       ![o].status = "payment_rejected",
       ![o].subs = Reviewed(@, "rejected")]
  /\ UNCHANGED <<services, ports, usage, node, proofs, room, edited, stray>>

ClosedUnexpired == {"fulfilled", "cancelled"}
Closed == {"fulfilled", "cancelled", "expired"}
CancelOrder(o) ==
  /\ Expire(orders)[o].status \notin Closed
  /\ orders' = [Expire(orders) EXCEPT ![o].status = "cancelled"]
  /\ UNCHANGED <<services, ports, usage, node, proofs, room, edited, stray>>

-----------------------------------------------------------------------------
(* Fulfilment: the counters are read, then one apply transaction. *)

Fulfilled(o, s) ==
  [Expire(orders) EXCEPT ![o].status = "fulfilled", ![o].service = s,
                         ![o].subs = Reviewed(@, "approved")]

\* The lowest free port of the range; without one, nothing is fulfilled.
AutoPorts == {l \in Sale \ InUse : \A k \in Sale \ InUse : l <= k}

ServiceRowSwapped(p, o) == [port |-> o, source |-> p]
ServiceRow(p, o) == [port |-> p, source |-> o]

FulfillPurchase(o) ==
  LET s == Len(services) + 1
      p == Len(ports) + 1
  IN /\ orders[o].kind = "new_purchase"
     /\ orders[o].status = "payment_submitted"
     /\ Take({"ports"})
     /\ \E l \in AutoPorts, read \in StatsReads(usage) :
          Apply(Append(ports, [listen |-> l, due |-> FALSE, limited |-> TRUE,
                               enabled |-> TRUE, service |-> s]),
                read.usage)
     /\ services' = Append(services, ServiceRow(p, o))
     /\ orders' = Fulfilled(o, s)
     /\ StillStray(stray)
     /\ UNCHANGED <<proofs, edited>>

FulfillRenewal(o) ==
  LET s == orders[o].service
      p == services[s].port
  IN /\ orders[o].kind = "renewal"
     /\ orders[o].status = "payment_submitted"
     /\ ports[p] # Gone
     /\ \E read \in StatsReads(usage) :
          Apply([ports EXCEPT ![p].due = FALSE, ![p].limited = TRUE,
                              ![p].enabled = TRUE],
                ResetUsage(read.usage, ports[p].listen))
     /\ orders' = Fulfilled(o, s)
     /\ StillStray(stray)
     /\ UNCHANGED <<services, proofs, room, edited>>

-----------------------------------------------------------------------------
(* The admin's changes of ports: the counters are read, then one apply.  A  *)
(* change that fails leaves what SyncTraffic leaves.                        *)

\* History: open renewals of the service behind port p.
RenewalsOf(p) ==
  {o \in DOMAIN orders : /\ orders[o].kind = "renewal" /\ orders[o].status \in Open
                         /\ services[orders[o].service].port = p}

CreatePort(l) ==
  /\ Take({"edits", "ports"})
  /\ l \notin InUse
  /\ \E read \in StatsReads(usage), limited \in BOOLEAN :
       Apply(Append(ports, [listen |-> l, due |-> FALSE, limited |-> limited,
                            enabled |-> TRUE, service |-> 0]), read.usage)
  /\ StillStray(stray)
  /\ UNCHANGED <<books, proofs, edited>>

\* Traffic stays with the listening port when the port is given another one.
UpdatePort(p, l) ==
  /\ Take({"edits"})
  /\ l = ports[p].listen \/ l \notin InUse
  /\ \E read \in StatsReads(usage), due, limited \in BOOLEAN :
       Apply([ports EXCEPT ![p].listen = l, ![p].due = due, ![p].limited = limited],
             read.usage)
  /\ edited' = edited \cup RenewalsOf(p)
  /\ StillStray(stray \cup ({ports[p].listen} \ {l}))
  /\ UNCHANGED <<books, proofs>>

TogglePort(p) ==
  /\ Take({"edits"})
  /\ \E read \in StatsReads(usage) :
       /\ ports[p].enabled \/ ~(ports[p].due \/ Spent(ports[p], read.usage))
       /\ Apply([ports EXCEPT ![p].enabled = ~@], read.usage)
  /\ StillStray(stray)
  /\ UNCHANGED <<books, proofs, edited>>

DeletePort(p) ==
  /\ Take({"edits"})
  /\ ports[p].service = 0
  /\ \E read \in StatsReads(usage) :
       Apply([ports EXCEPT ![p] = Gone], DeletedTraffic(read.usage, ports[p].listen))
  /\ StillStray(stray)
  /\ UNCHANGED <<books, proofs, edited>>

ResetPortTraffic(p) ==
  /\ Take({"edits"})
  /\ \E read \in StatsReads(usage) :
       Apply([ports EXCEPT ![p].enabled =
                @ \/ (Spent(ports[p], read.usage) /\ ~ports[p].due)],
             ResetUsage(read.usage, ports[p].listen))
  /\ edited' = edited \cup RenewalsOf(p)
  /\ StillStray(stray)
  /\ UNCHANGED <<books, proofs>>

-----------------------------------------------------------------------------
(* The maintenance worker, the restart of the panel, traffic and time. *)

SyncTraffic ==
  /\ \E read \in StatsReads(usage) : usage' = read.usage /\ counters' = read.counters
  /\ UNCHANGED <<books, ports, loaded, proofs, room, edited, stray>>

DisableAutoStopped ==
  /\ AutoStop(ports, usage).ports # ports
  /\ Apply(ports, usage)
  /\ StillStray(stray)
  /\ UNCHANGED <<books, proofs, room, edited>>

\* The process dies, its uploads with it, and boots: due ports of no customer
\* are deleted, only then are the counters read.  Whether the node restarts
\* depends on what the boot's upload finds changed.
Boot ==
  LET cut == {p \in Live : Cleanable(ports[p])}
      cleaned == [p \in DOMAIN ports |-> IF p \in cut THEN Gone ELSE ports[p]]
      cutListens == {ports[p].listen : p \in cut}
  IN /\ Take({"boots"})
     /\ uploads' = {}
     /\ \E read \in StatsReads(Cleared(usage, cutListens)), restart \in BOOLEAN :
          LET stopped == AutoStop(cleaned, read.usage)
          IN /\ ports' = stopped.ports
             /\ usage' = stopped.usage
             /\ loaded' = IF restart THEN Served(stopped.ports) ELSE loaded
             /\ counters' = IF restart THEN Zero ELSE read.counters
     /\ stray' = stray \cup cutListens
     /\ UNCHANGED <<books, files, edited>>

Carry(l) ==
  /\ counters[l] = 0
  /\ counters' = [counters EXCEPT ![l] = 1]
  /\ UNCHANGED <<books, ports, usage, loaded, proofs, room, edited, stray>>

OrderDeadline(o) ==
  /\ orders[o].status \in Open /\ ~orders[o].late
  /\ orders' = [orders EXCEPT ![o].late = TRUE]
  /\ UNCHANGED <<services, ports, usage, node, proofs, room, edited, stray>>

PortFallsDue(p) ==
  /\ ~ports[p].due
  /\ ports' = [ports EXCEPT ![p].due = TRUE]
  /\ UNCHANGED <<books, usage, node, proofs, room, edited, stray>>

Next ==
  \/ CreatePurchase \/ ExpirePendingOrders
  \/ \E s \in DOMAIN services : CreateRenewal(s)
  \/ \E o \in DOMAIN orders : \/ SaveProof(o) \/ RejectOrder(o) \/ CancelOrder(o)
                              \/ FulfillPurchase(o) \/ FulfillRenewal(o)
                              \/ OrderDeadline(o)
  \/ \E u \in uploads : Submit(u) \/ SubmitFails(u)
  \/ \E l \in Listens : CreatePort(l)
  \/ \E p \in Live : \/ TogglePort(p) \/ DeletePort(p) \/ ResetPortTraffic(p)
                     \/ PortFallsDue(p) \/ \E l \in Listens : UpdatePort(p, l)
  \/ \E l \in loaded : Carry(l)
  \/ SyncTraffic \/ DisableAutoStopped \/ Boot

Spec == Init /\ [][Next]_vars
-----------------------------------------------------------------------------
(* Properties. *)

\* The model's variables keep their types: every row of orders, services, ports
\* and traffic_totals, and every proof, is one the schema and the code allow.
TypeOK ==
  /\ orders \in Seq(Order)
  /\ services \in Seq([port : DOMAIN ports, source : DOMAIN orders])
  /\ ports \in Seq(Port \cup {Gone})
  /\ usage \in [Listens -> 0..Limit] /\ counters \in [Listens -> 0..1]
  /\ loaded \subseteq Listens
  /\ uploads \subseteq [order : DOMAIN orders, proof : Nat]
  /\ files \subseteq Nat
  /\ room \in Budget
  /\ edited \subseteq DOMAIN orders
  /\ stray \subseteq Listens

\* A service that was paid for is never lost: its port survives clean-ups,
\* deletions, restarts and edits, still names the service, is no other service's
\* and has a listening port of its own; and each fulfilled order has its service
\* (fulfill_order against delete_port and cleanup_expired_ports_in_tx).
PaidServiceKept ==
  /\ \A s \in DOMAIN services :
       /\ ports[services[s].port] # Gone
       /\ ports[services[s].port].service = s
       /\ orders[services[s].source].kind = "new_purchase"
       /\ orders[services[s].source].status = "fulfilled"
  /\ \A o \in DOMAIN orders :
       /\ orders[o].status = "fulfilled" =>
            /\ orders[o].service \in DOMAIN services
            /\ orders[o].kind = "new_purchase" =>
                 services[orders[o].service].source = o
       /\ orders[o].kind = "renewal" => orders[o].service \in DOMAIN services
  /\ \A p, q \in Live : ports[p].listen = ports[q].listen => p = q

\* What an order's page says agrees with the review of its proofs: whatever the
\* uploads, reviews, deadlines and cancellations that interleave, the latest
\* submission has the order's verdict and all earlier ones were rejected.
ReviewsMatch ==
  \A o \in DOMAIN orders :
    LET subs == orders[o].subs
        last == subs[Len(subs)].review
    IN /\ \A i \in 1..Len(subs) - 1 : subs[i].review = "rejected"
       /\ orders[o].status = "pending_payment" => subs = <<>>
       /\ orders[o].status = "payment_submitted" => subs # <<>> /\ last = "submitted"
       /\ orders[o].status = "payment_rejected" => subs # <<>> /\ last = "rejected"
       /\ orders[o].status = "fulfilled" => subs # <<>> /\ last = "approved"
       /\ orders[o].status = "expired" => subs = <<>> \/ last = "rejected"

\* A customer never has two renewals of one service to pay (create_order).
OneOpenRenewal ==
  \A o, p \in DOMAIN orders :
    /\ {orders[o].kind, orders[p].kind} = {"renewal"}
    /\ orders[o].service = orders[p].service
    /\ {orders[o].status, orders[p].status} \subseteq Open
    => o = p

\* The file of a stored submission is never unlinked: an upload that fails
\* removes its own file only, whichever uploads overlap with it.
ProofKept ==
  \A o \in DOMAIN orders : \A i \in DOMAIN orders[o].subs :
    orders[o].subs[i].proof \in files

\* Traffic is charged to a listening port that no port has only if an admin
\* moved its port away, or a boot deleted the port before it read the counters.
NoStrayUsage == \A l \in Listens \ InUse : usage[l] > 0 => l \in stray

Fulfils(o, kind) ==
  /\ orders[o].kind = kind
  /\ orders[o].status # "fulfilled" /\ orders'[o].status = "fulfilled"

Runs(p) ==
  /\ ports'[p].enabled /\ ~ports'[p].due
  /\ ~(ports'[p].limited /\ usage'[ports'[p].listen] >= Limit)
  /\ ports'[p].listen \in loaded'

\* A renewal that is fulfilled runs at once, on the listening port the customer
\* has, with its quota unused, even though the same transaction stops whatever
\* is due or spent.
RenewalRuns ==
  [][\A o \in DOMAIN orders :
       Fulfils(o, "renewal") =>
         LET p == services[orders[o].service].port
         IN Runs(p) /\ ports'[p].listen = ports[p].listen
                    /\ usage'[ports[p].listen] = 0]_vars

\* A service is only renewed while it is expired or out of quota, which is
\* tested when the order is made and not when it is fulfilled, unless an admin
\* changed its port or reset its traffic in between.
RenewsWhatRanOut ==
  [][\A o \in DOMAIN orders :
       Fulfils(o, "renewal") =>
         o \in edited \/ Renewable(ports[services[orders[o].service].port])]_vars

\* A fulfilled, cancelled or expired order stays so, with its submissions:
\* late uploads, reviews and deadlines come to nothing.
FinalStays ==
  [][\A o \in DOMAIN orders :
       orders[o].status \in Final =>
         orders'[o].status = orders[o].status /\ orders'[o].subs = orders[o].subs]_vars

\* What tests/test_commerce.py asserts of a fulfilled purchase, its service is
\* active.  The code does not keep it for a listening port whose row of traffic
\* was left behind.
PurchaseRuns ==
  [][\A o \in DOMAIN orders :
       Fulfils(o, "new_purchase") => Runs(services'[orders'[o].service].port)]_vars

\* What the admin's API answers to a rejection: the customer may submit again.
\* The code does not keep it when the deadline passed before the review.
RejectedMayResubmit ==
  [][\A o \in DOMAIN orders :
       orders[o].status # "payment_rejected" /\ orders'[o].status = "payment_rejected"
         => Expire(orders')[o].status \in Expirable]_vars
=============================================================================
