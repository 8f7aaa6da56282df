--------------------------- MODULE Commerce_proofs ---------------------------
(***************************************************************************)
(* Proofs about Commerce, for any listening ports, any range for sale, any *)
(* quota and any bounds.                                                   *)
(*                                                                         *)
(* The transactions are long, but each does one of a few things to a row:  *)
(* OrderMoves lists what can happen to an order, PortsMoved what an apply  *)
(* does to the ports.  The lemmas show that every step stays within these; *)
(* the invariants are then kept row by row.                                *)
(***************************************************************************)
EXTENDS Commerce, SequenceTheorems, TLAPS

\* A row of sequences: what SequenceTheorems says of Seq, for a function.
LEMMA RowsOf ==
  ASSUME NEW S, NEW n \in Nat, NEW f \in [1..n -> S]
  PROVE  f \in Seq(S) /\ Len(f) = n /\ DOMAIN f = 1..n
<1>1. f \in Seq(S)
  BY SeqDef
<1> QED BY <1>1, LenProperties

\* A sequence is a function on 1 to its length into the set of its rows.
LEMMA RowsAre ==
  ASSUME NEW S, NEW s \in Seq(S)
  PROVE  /\ Len(s) \in Nat
         /\ DOMAIN s = 1..Len(s)
         /\ s \in [1..Len(s) -> S]
         /\ \A i \in DOMAIN s : s[i] \in S
BY LenProperties

\* An appended row comes after all the others, which stay.
LEMMA RowAdded ==
  ASSUME NEW S, NEW s \in Seq(S), NEW x \in S
  PROVE  /\ Append(s, x) \in Seq(S)
         /\ Len(Append(s, x)) = Len(s) + 1
         /\ Append(s, x)[Len(s) + 1] = x
         /\ \A i \in DOMAIN s : Append(s, x)[i] = s[i]
         /\ DOMAIN Append(s, x) = DOMAIN s \cup {Len(s) + 1}
BY AppendProperties, LenProperties

-----------------------------------------------------------------------------
(* Orders. *)

\* What one step can do to an order.
OrderMoves(a, b) ==
  \/ b = a
  \/ a.status \in Expirable /\ a.late /\ b = [a EXCEPT !.status = "expired"]
  \/ a.status \in Open /\ b = [a EXCEPT !.late = TRUE]
  \/ /\ a.status \in Expirable
     /\ \E n \in Nat : b = [a EXCEPT !.status = "payment_submitted",
          !.subs = Append(@, [proof |-> n, review |-> "submitted"])]
  \/ /\ a.status = "payment_submitted"
     /\ b = [a EXCEPT !.status = "payment_rejected",
                      !.subs = Reviewed(@, "rejected")]
  \/ a.status \notin Final /\ b = [a EXCEPT !.status = "cancelled"]
  \/ /\ a.status = "payment_submitted"
     /\ \E s \in Nat : b = [a EXCEPT !.status = "fulfilled", !.service = s,
                                     !.subs = Reviewed(@, "approved")]

\* What an order is when it is made.
Fresh(a) == a.status = "pending_payment" /\ a.subs = <<>>

\* A review gives its verdict to the latest submission and leaves the others.
LEMMA ReviewedRows ==
  ASSUME NEW subs \in Seq(Submission),
         NEW review \in {"submitted", "approved", "rejected"}
  PROVE  /\ Reviewed(subs, review) \in Seq(Submission)
         /\ Len(Reviewed(subs, review)) = Len(subs)
         /\ \A i \in 1..Len(subs) - 1 : Reviewed(subs, review)[i] = subs[i]
         /\ \A i \in 1..Len(subs) :
              Reviewed(subs, review)[i].proof = subs[i].proof
         /\ subs # <<>> => /\ Reviewed(subs, review) # <<>>
                           /\ Reviewed(subs, review)[Len(subs)].review = review
<1>1. /\ Len(subs) \in Nat
      /\ subs \in [1..Len(subs) -> Submission]
  BY LenProperties
<1>2. Reviewed(subs, review)
        = [i \in 1..Len(subs) |-> IF i = Len(subs)
                                  THEN [subs[i] EXCEPT !.review = review]
                                  ELSE subs[i]]
  BY <1>1 DEF Reviewed
<1>3. \A i \in 1..Len(subs) :
        /\ [subs[i] EXCEPT !.review = review] \in Submission
        /\ [subs[i] EXCEPT !.review = review].proof = subs[i].proof
        /\ [subs[i] EXCEPT !.review = review].review = review
  BY <1>1 DEF Submission
<1>4. Reviewed(subs, review) \in [1..Len(subs) -> Submission]
  BY <1>1, <1>2, <1>3
<1>5. /\ Reviewed(subs, review) \in Seq(Submission)
      /\ Len(Reviewed(subs, review)) = Len(subs)
  BY <1>1, <1>4, RowsOf
<1>6. subs # <<>> => Len(subs) \in 1..Len(subs)
  BY <1>1, EmptySeq
<1> QED BY <1>1, <1>2, <1>3, <1>5, <1>6

\* The fields of an order, and its submissions as a sequence.
LEMMA OrderShape ==
  ASSUME NEW a \in Order
  PROVE  /\ a.kind \in {"new_purchase", "renewal"}
         /\ a.service \in Nat
         /\ a.status \in Open \cup Final
         /\ a.late \in BOOLEAN
         /\ a.subs \in Seq(Submission)
BY DEF Order

\* A move keeps an order an order, of its kind; what is final is not moved.
LEMMA OrderMoved ==
  ASSUME NEW a \in Order, NEW b, OrderMoves(a, b)
  PROVE  /\ b \in Order
         /\ b.kind = a.kind
         /\ b.service # a.service => b.status = "fulfilled"
         /\ a.status \in Final => b = a
         /\ b.status \in Open => a.status \in Open
<1>1. CASE a.status \in Expirable /\ \E n \in Nat :
             b = [a EXCEPT !.status = "payment_submitted",
                !.subs = Append(@, [proof |-> n, review |-> "submitted"])]
  <2>1. PICK n \in Nat : b = [a EXCEPT !.status = "payment_submitted",
                 !.subs = Append(@, [proof |-> n, review |-> "submitted"])]
    BY <1>1
  <2>2. Append(a.subs, [proof |-> n, review |-> "submitted"]) \in Seq(Submission)
    BY OrderShape, RowAdded DEF Submission
  <2> QED BY <1>1, <2>1, <2>2 DEF Order, Open, Expirable, Final
<1>2. CASE /\ a.status = "payment_submitted"
           /\ b = [a EXCEPT !.status = "payment_rejected",
                            !.subs = Reviewed(@, "rejected")]
  <2>1. Reviewed(a.subs, "rejected") \in Seq(Submission)
    BY OrderShape, ReviewedRows
  <2> QED BY <1>2, <2>1 DEF Order, Open, Expirable, Final
<1>3. CASE a.status = "payment_submitted" /\ \E s \in Nat :
             b = [a EXCEPT !.status = "fulfilled", !.service = s,
                           !.subs = Reviewed(@, "approved")]
  <2>1. Reviewed(a.subs, "approved") \in Seq(Submission)
    BY OrderShape, ReviewedRows
  <2> QED BY <1>3, <2>1 DEF Order, Open, Expirable, Final
<1>4. CASE \/ b = a
           \/ a.status \in Expirable /\ a.late
                /\ b = [a EXCEPT !.status = "expired"]
           \/ a.status \in Open /\ b = [a EXCEPT !.late = TRUE]
           \/ a.status \notin Final /\ b = [a EXCEPT !.status = "cancelled"]
  BY <1>4 DEF Order, Open, Expirable, Final
<1> QED BY <1>1, <1>2, <1>3, <1>4 DEF OrderMoves

\* ReviewsMatch, of one order.
ReviewMatches(a) ==
  LET last == a.subs[Len(a.subs)].review
  IN /\ \A i \in 1..Len(a.subs) - 1 : a.subs[i].review = "rejected"
     /\ a.status = "pending_payment" => a.subs = <<>>
     /\ a.status = "payment_submitted" => a.subs # <<>> /\ last = "submitted"
     /\ a.status = "payment_rejected" => a.subs # <<>> /\ last = "rejected"
     /\ a.status = "fulfilled" => a.subs # <<>> /\ last = "approved"
     /\ a.status = "expired" => a.subs = <<>> \/ last = "rejected"

\* Every move of an order keeps its status and its proofs' reviews together.
LEMMA ReviewMoved ==
  ASSUME NEW a \in Order, NEW b, OrderMoves(a, b), ReviewMatches(a)
  PROVE  ReviewMatches(b)
<1>1. /\ Len(a.subs) \in Nat
      /\ DOMAIN a.subs = 1..Len(a.subs)
      /\ a.subs \in Seq(Submission)
      /\ a.subs # <<>> => Len(a.subs) \in Nat \ {0}
  BY OrderShape, RowsAre, EmptySeq
<1>2. CASE a.status \in Expirable /\ \E n \in Nat :
             b = [a EXCEPT !.status = "payment_submitted",
                !.subs = Append(@, [proof |-> n, review |-> "submitted"])]
  <2>1. PICK n \in Nat : b = [a EXCEPT !.status = "payment_submitted",
                 !.subs = Append(@, [proof |-> n, review |-> "submitted"])]
    BY <1>2
  <2> DEFINE new == [proof |-> n, review |-> "submitted"]
  <2>2. b.status = "payment_submitted" /\ b.subs = Append(a.subs, new)
    BY <2>1 DEF Order
  <2>3. new \in Submission /\ new.review = "submitted"
    BY DEF Submission
  <2> HIDE DEF new
  <2>4. /\ Len(b.subs) = Len(a.subs) + 1
        /\ b.subs[Len(a.subs) + 1] = new
        /\ \A i \in 1..Len(a.subs) : b.subs[i] = a.subs[i]
        /\ b.subs \in Seq(Submission)
    BY <1>1, <2>2, <2>3, RowAdded
  <2>5. b.subs # <<>>
    BY <1>1, <2>4, EmptySeq
  <2>6. \A i \in 1..Len(a.subs) : a.subs[i].review = "rejected"
    <3>1. CASE a.subs = <<>>
      BY <3>1, EmptySeq
    <3>2. CASE a.subs # <<>>
      BY <1>1, <1>2, <3>2 DEF ReviewMatches, Expirable
    <3> QED BY <3>1, <3>2
  <2> QED BY <1>1, <2>2, <2>3, <2>4, <2>5, <2>6 DEF ReviewMatches
<1>3. ASSUME NEW verdict \in {"approved", "rejected"},
             a.status = "payment_submitted",
             b.subs = Reviewed(a.subs, verdict),
             b.status = (IF verdict = "approved" THEN "fulfilled"
                                                 ELSE "payment_rejected")
      PROVE  ReviewMatches(b)
  <2>1. /\ Len(b.subs) = Len(a.subs)
        /\ \A i \in 1..Len(a.subs) - 1 : b.subs[i] = a.subs[i]
        /\ b.subs # <<>> /\ b.subs[Len(a.subs)].review = verdict
    BY <1>1, <1>3, ReviewedRows DEF ReviewMatches
  <2> QED BY <1>1, <1>3, <2>1 DEF ReviewMatches
<1>4. CASE /\ a.status = "payment_submitted"
           /\ b = [a EXCEPT !.status = "payment_rejected",
                            !.subs = Reviewed(@, "rejected")]
  BY <1>3, <1>4 DEF Order
<1>5. CASE a.status = "payment_submitted" /\ \E s \in Nat :
             b = [a EXCEPT !.status = "fulfilled", !.service = s,
                           !.subs = Reviewed(@, "approved")]
  BY <1>3, <1>5 DEF Order
<1>6. CASE a.status \in Expirable /\ a.late
             /\ b = [a EXCEPT !.status = "expired"]
  <2>1. b.status = "expired" /\ b.subs = a.subs
    BY <1>6 DEF Order
  <2> QED BY <1>6, <2>1 DEF ReviewMatches, Expirable
<1>7. CASE \/ b = a
           \/ a.status \in Open /\ b = [a EXCEPT !.late = TRUE]
  <2>1. b.status = a.status /\ b.subs = a.subs
    BY <1>7 DEF Order
  <2> QED BY <2>1 DEF ReviewMatches
<1>8. CASE a.status \notin Final /\ b = [a EXCEPT !.status = "cancelled"]
  <2>1. b.status = "cancelled" /\ b.subs = a.subs
    BY <1>8 DEF Order
  <2> QED BY <2>1 DEF ReviewMatches
<1> QED BY <1>2, <1>4, <1>5, <1>6, <1>7, <1>8 DEF OrderMoves

\* The orders after a step: the same rows, each moved, and new ones.
OrdersMove(os, ns) ==
  /\ ns \in Seq(Order)
  /\ DOMAIN os \subseteq DOMAIN ns
  /\ \A o \in DOMAIN os : OrderMoves(os[o], ns[o])
  /\ \A o \in DOMAIN ns \ DOMAIN os : Fresh(ns[o])

\* Expiry moves the late orders that may be paid, and no other row.
LEMMA ExpireRows ==
  ASSUME NEW os \in Seq(Order)
  PROVE  /\ Expire(os) \in Seq(Order)
         /\ DOMAIN Expire(os) = DOMAIN os
         /\ Len(Expire(os)) = Len(os)
         /\ \A o \in DOMAIN os :
              /\ OrderMoves(os[o], Expire(os)[o])
              /\ Expire(os)[o].kind = os[o].kind
              /\ Expire(os)[o].service = os[o].service
              /\ Expire(os)[o].subs = os[o].subs
              /\ Expire(os)[o].status = os[o].status => Expire(os)[o] = os[o]
              /\ Expire(os)[o].status # "expired" => Expire(os)[o] = os[o]
              /\ os[o].status \notin Expirable => Expire(os)[o] = os[o]
<1>1. /\ DOMAIN os = 1..Len(os)
      /\ Len(os) \in Nat
      /\ \A o \in DOMAIN os : os[o] \in Order
  BY RowsAre
<1>2. ASSUME NEW a \in Order, NEW b,
             b = IF a.status \in Expirable /\ a.late
                 THEN [a EXCEPT !.status = "expired"] ELSE a
      PROVE  /\ b \in Order
             /\ OrderMoves(a, b)
             /\ b.kind = a.kind /\ b.service = a.service /\ b.subs = a.subs
             /\ b.status = a.status => b = a
             /\ b.status # "expired" => b = a
             /\ a.status \notin Expirable => b = a
  <2>1. CASE a.status \in Expirable /\ a.late
    <3>1. b = [a EXCEPT !.status = "expired"]
      BY <1>2, <2>1
    <3>2. /\ b \in Order
          /\ b.kind = a.kind /\ b.service = a.service /\ b.subs = a.subs
          /\ b.status = "expired"
      BY <3>1 DEF Order, Final
    <3>3. OrderMoves(a, b)
      BY <2>1, <3>1 DEF OrderMoves
    <3> QED BY <2>1, <3>2, <3>3 DEF Expirable
  <2>2. CASE ~(a.status \in Expirable /\ a.late)
    <3>1. b = a
      BY <1>2, <2>2
    <3> QED BY <3>1 DEF OrderMoves
  <2> QED BY <2>1, <2>2
<1>3. Expire(os) \in [1..Len(os) -> Order]
  BY <1>1, <1>2 DEF Expire
<1>4. /\ Expire(os) \in Seq(Order)
      /\ DOMAIN Expire(os) = DOMAIN os
      /\ Len(Expire(os)) = Len(os)
  BY <1>1, <1>3, RowsOf
<1>5. \A o \in DOMAIN os :
        Expire(os)[o] = IF os[o].status \in Expirable /\ os[o].late
                        THEN [os[o] EXCEPT !.status = "expired"] ELSE os[o]
  BY DEF Expire
<1> QED BY <1>1, <1>2, <1>4, <1>5

\* An operation that expires orders and then moves one that did not expire.
LEMMA OneMoves ==
  ASSUME NEW os \in Seq(Order), NEW o \in DOMAIN os, Expire(os)[o] = os[o],
         NEW r, OrderMoves(os[o], r)
  PROVE  LET ns == [Expire(os) EXCEPT ![o] = r]
         IN /\ OrdersMove(os, ns)
            /\ DOMAIN ns = DOMAIN os
            /\ ns[o] = r
            /\ \A i \in DOMAIN os : i # o => ns[i] = Expire(os)[i]
<1> DEFINE ns == [Expire(os) EXCEPT ![o] = r]
<1>1. /\ DOMAIN os = 1..Len(os)
      /\ Len(os) \in Nat
      /\ os[o] \in Order
  BY RowsAre
<1>2. /\ Expire(os) \in [1..Len(os) -> Order]
      /\ \A i \in DOMAIN os : OrderMoves(os[i], Expire(os)[i])
  BY <1>1, ExpireRows, RowsAre
<1>3. r \in Order
  BY <1>1, OrderMoved
<1>4. ns \in [1..Len(os) -> Order]
  BY <1>1, <1>2, <1>3
<1>5. /\ ns \in Seq(Order)
      /\ DOMAIN ns = DOMAIN os
  BY <1>1, <1>4, RowsOf
<1> QED BY <1>1, <1>2, <1>5 DEF OrdersMove

\* An operation that expires orders and then makes one.
LEMMA OneMade ==
  ASSUME NEW os \in Seq(Order), NEW r \in Order, Fresh(r)
  PROVE  LET ns == Append(Expire(os), r)
         IN /\ OrdersMove(os, ns)
            /\ DOMAIN ns = DOMAIN os \cup {Len(os) + 1}
            /\ Len(os) + 1 \notin DOMAIN os
            /\ ns[Len(os) + 1] = r
            /\ \A i \in DOMAIN os : ns[i] = Expire(os)[i]
<1> DEFINE ns == Append(Expire(os), r)
<1>1. /\ Expire(os) \in Seq(Order)
      /\ DOMAIN Expire(os) = DOMAIN os
      /\ Len(Expire(os)) = Len(os)
      /\ \A i \in DOMAIN os : OrderMoves(os[i], Expire(os)[i])
  BY ExpireRows
<1>2. DOMAIN os = 1..Len(os) /\ Len(os) \in Nat
  BY RowsAre
<1>3. /\ ns \in Seq(Order)
      /\ DOMAIN ns = DOMAIN os \cup {Len(os) + 1}
      /\ ns[Len(os) + 1] = r
      /\ \A i \in DOMAIN os : ns[i] = Expire(os)[i]
  BY <1>1, RowAdded
<1> QED BY <1>1, <1>2, <1>3 DEF OrdersMove

\* Orders that do not change have moved nowhere.
LEMMA NoneMoves ==
  ASSUME NEW os \in Seq(Order)
  PROVE  OrdersMove(os, os) /\ OrdersMove(os, Expire(os))
BY ExpireRows DEF OrdersMove, OrderMoves

\* The actions' nested updates of one row, as an update of the row.
LEMMA RowUpdates ==
  ASSUME NEW os \in Seq(Order), NEW o \in DOMAIN os, NEW st, NEW sv, NEW sb
  PROVE  /\ [os EXCEPT ![o].status = st]
              = [os EXCEPT ![o] = [os[o] EXCEPT !.status = st]]
         /\ [os EXCEPT ![o].late = st]
              = [os EXCEPT ![o] = [os[o] EXCEPT !.late = st]]
         /\ [os EXCEPT ![o].status = st, ![o].subs = Append(@, sb)]
              = [os EXCEPT ![o] = [os[o] EXCEPT !.status = st,
                                                !.subs = Append(@, sb)]]
         /\ [os EXCEPT ![o].status = st, ![o].subs = Reviewed(@, sb)]
              = [os EXCEPT ![o] = [os[o] EXCEPT !.status = st,
                                                !.subs = Reviewed(@, sb)]]
         /\ [os EXCEPT ![o].status = st, ![o].service = sv,
                       ![o].subs = Reviewed(@, sb)]
              = [os EXCEPT ![o] = [os[o] EXCEPT !.status = st, !.service = sv,
                                                !.subs = Reviewed(@, sb)]]
<1>1. os \in [1..Len(os) -> Order]
  BY RowsAre
<1>2. [os EXCEPT ![o].status = st]
        = [os EXCEPT ![o] = [os[o] EXCEPT !.status = st]]
  BY <1>1
<1>3. [os EXCEPT ![o].late = st]
        = [os EXCEPT ![o] = [os[o] EXCEPT !.late = st]]
  BY <1>1
<1>4. [os EXCEPT ![o].status = st, ![o].subs = Append(@, sb)]
              = [os EXCEPT ![o] = [os[o] EXCEPT !.status = st,
                                                !.subs = Append(@, sb)]]
  BY <1>1 DEF Order
<1>5. [os EXCEPT ![o].status = st, ![o].subs = Reviewed(@, sb)]
              = [os EXCEPT ![o] = [os[o] EXCEPT !.status = st,
                                                !.subs = Reviewed(@, sb)]]
  BY <1>1 DEF Order
<1>6. [os EXCEPT ![o].status = st, ![o].service = sv,
                       ![o].subs = Reviewed(@, sb)]
              = [os EXCEPT ![o] = [os[o] EXCEPT !.status = st, !.service = sv,
                                                !.subs = Reviewed(@, sb)]]
  BY <1>1 DEF Order
<1> QED BY <1>2, <1>3, <1>4, <1>5, <1>6

\* No order is fulfilled by the step.
NoneFulfilled(os, ns) ==
  \A o \in DOMAIN ns : ns[o].status = "fulfilled" =>
    o \in DOMAIN os /\ os[o].status = "fulfilled"

\* The steps that make, expire, submit, review, cancel or delay an order.
OrderStep ==
  \/ CreatePurchase \/ ExpirePendingOrders
  \/ \E s \in DOMAIN services : CreateRenewal(s)
  \/ \E o \in DOMAIN orders : RejectOrder(o) \/ CancelOrder(o) \/ OrderDeadline(o)
  \/ \E u \in uploads : Submit(u)

Fulfilment ==
  \E o \in DOMAIN orders : FulfillPurchase(o) \/ FulfillRenewal(o)

\* What TypeOK says of single rows.
LEMMA TypesOf ==
  ASSUME TypeOK
  PROVE  /\ orders \in Seq(Order)
         /\ services \in Seq([port : DOMAIN ports, source : DOMAIN orders])
         /\ ports \in Seq(Port \cup {Gone})
         /\ \A o \in DOMAIN orders : orders[o] \in Order
         /\ \A s \in DOMAIN services : /\ s \in Nat \ {0}
                                       /\ services[s].port \in DOMAIN ports
                                       /\ services[s].source \in DOMAIN orders
         /\ \A p \in DOMAIN ports : ports[p] \in Port \cup {Gone}
         /\ \A u \in uploads : u.order \in DOMAIN orders /\ u.proof \in Nat
         /\ room \in Budget
<1>1. /\ orders \in Seq(Order)
      /\ services \in Seq([port : DOMAIN ports, source : DOMAIN orders])
      /\ ports \in Seq(Port \cup {Gone})
      /\ uploads \subseteq [order : DOMAIN orders, proof : Nat]
      /\ room \in Budget
  BY DEF TypeOK
<1>2. \A s \in DOMAIN services :
        /\ s \in Nat \ {0}
        /\ services[s] \in [port : DOMAIN ports, source : DOMAIN orders]
  <2> DEFINE T == [port : DOMAIN ports, source : DOMAIN orders]
  <2>1. services \in Seq(T)
    BY <1>1
  <2> HIDE DEF T
  <2>2. DOMAIN services = 1..Len(services) /\ Len(services) \in Nat
    BY <2>1, RowsAre
  <2>3. \A s \in DOMAIN services : s \in Nat \ {0} /\ services[s] \in T
    BY <2>1, <2>2, RowsAre
  <2> QED BY <2>3 DEF T
<1>3. /\ \A o \in DOMAIN orders : orders[o] \in Order
      /\ \A p \in DOMAIN ports : ports[p] \in Port \cup {Gone}
  BY <1>1, RowsAre
<1> QED BY <1>1, <1>2, <1>3

\* The steps of orders move each order as one step may, and fulfil none.
LEMMA OrderStepMoves ==
  ASSUME TypeOK, OrderStep
  PROVE  OrdersMove(orders, orders') /\ NoneFulfilled(orders, orders')
<1>0. orders \in Seq(Order) /\ \A i \in DOMAIN orders : orders[i] \in Order
  BY TypesOf
<1>1. NoneFulfilled(orders, Expire(orders))
  BY <1>0, ExpireRows DEF NoneFulfilled, Final
<1>2. ASSUME NEW o \in DOMAIN orders, Expire(orders)[o] = orders[o], NEW r,
             OrderMoves(orders[o], r), r.status # "fulfilled",
             orders' = [Expire(orders) EXCEPT ![o] = r]
      PROVE  OrdersMove(orders, orders') /\ NoneFulfilled(orders, orders')
  BY <1>0, <1>1, <1>2, OneMoves, ExpireRows DEF NoneFulfilled
<1>3. ASSUME NEW r \in Order, Fresh(r),
             orders' = Append(Expire(orders), r)
      PROVE  OrdersMove(orders, orders') /\ NoneFulfilled(orders, orders')
  <2>1. /\ OrdersMove(orders, orders')
        /\ DOMAIN orders' = DOMAIN orders \cup {Len(orders) + 1}
        /\ orders'[Len(orders) + 1] = r
        /\ \A i \in DOMAIN orders : orders'[i] = Expire(orders)[i]
    BY <1>0, <1>3, OneMade
  <2>2. r.status # "fulfilled"
    BY <1>3 DEF Fresh
  <2>3. DOMAIN Expire(orders) = DOMAIN orders
    BY <1>0, ExpireRows
  <2>4. ASSUME NEW i \in DOMAIN orders', orders'[i].status = "fulfilled"
        PROVE  i \in DOMAIN orders /\ orders[i].status = "fulfilled"
    <3>1. i \in DOMAIN orders
      BY <2>1, <2>2, <2>4
    <3> QED BY <1>1, <2>1, <2>3, <2>4, <3>1 DEF NoneFulfilled
  <2> QED BY <2>1, <2>4 DEF NoneFulfilled
<1>4. CASE CreatePurchase
  <2> DEFINE r == [kind |-> "new_purchase", service |-> 0,
                   status |-> "pending_payment", late |-> FALSE, subs |-> <<>>]
  <2>1. r \in Order /\ Fresh(r)
    BY EmptySeq DEF Order, Fresh, Open, Expirable
  <2>2. orders' = Append(Expire(orders), r)
    BY <1>4 DEF CreatePurchase
  <2> HIDE DEF r
  <2> QED BY <1>3, <2>1, <2>2
<1>5. ASSUME NEW s \in DOMAIN services, CreateRenewal(s)
      PROVE  OrdersMove(orders, orders') /\ NoneFulfilled(orders, orders')
  <2> DEFINE r == [kind |-> "renewal", service |-> s,
                   status |-> "pending_payment", late |-> FALSE, subs |-> <<>>]
  <2>1. r \in Order /\ Fresh(r)
    BY EmptySeq DEF Order, Fresh, Open, Expirable
  <2>2. orders' = Append(Expire(orders), r)
    BY <1>5 DEF CreateRenewal
  <2> HIDE DEF r
  <2> QED BY <1>3, <2>1, <2>2
<1>6. CASE ExpirePendingOrders
  BY <1>0, <1>1, <1>6, NoneMoves DEF ExpirePendingOrders
<1>7. ASSUME NEW o \in DOMAIN orders, RejectOrder(o)
      PROVE  OrdersMove(orders, orders') /\ NoneFulfilled(orders, orders')
  <2> DEFINE r == [orders[o] EXCEPT !.status = "payment_rejected",
                                    !.subs = Reviewed(@, "rejected")]
  <2>1. Expire(orders)[o] = orders[o]
    BY <1>0, <1>7, ExpireRows DEF RejectOrder, Expirable
  <2>2. orders' = [Expire(orders) EXCEPT ![o] = r]
    BY <1>0, <1>7, <2>1, RowUpdates, ExpireRows DEF RejectOrder
  <2>3. OrderMoves(orders[o], r)
    BY <1>7 DEF RejectOrder, OrderMoves
  <2>4. r.status # "fulfilled"
    BY <1>0 DEF Order
  <2> HIDE DEF r
  <2> QED BY <1>2, <2>1, <2>2, <2>3, <2>4
<1>8. ASSUME NEW o \in DOMAIN orders, CancelOrder(o)
      PROVE  OrdersMove(orders, orders') /\ NoneFulfilled(orders, orders')
  <2> DEFINE r == [orders[o] EXCEPT !.status = "cancelled"]
  <2>1. Expire(orders)[o] = orders[o]
    BY <1>0, <1>8, ExpireRows DEF CancelOrder, Closed
  <2>2. orders' = [Expire(orders) EXCEPT ![o] = r]
    BY <1>0, <1>8, <2>1, RowUpdates, ExpireRows DEF CancelOrder
  <2>3. OrderMoves(orders[o], r)
    BY <1>8, <2>1 DEF CancelOrder, OrderMoves, Closed, Final
  <2>4. r.status # "fulfilled"
    BY <1>0 DEF Order
  <2> HIDE DEF r
  <2> QED BY <1>2, <2>1, <2>2, <2>3, <2>4
<1>9. ASSUME NEW o \in DOMAIN orders, OrderDeadline(o)
      PROVE  OrdersMove(orders, orders') /\ NoneFulfilled(orders, orders')
  <2> DEFINE r == [orders[o] EXCEPT !.late = TRUE]
  <2>1. orders' = [orders EXCEPT ![o] = r]
    BY <1>0, <1>9, RowUpdates DEF OrderDeadline
  <2>2. OrderMoves(orders[o], r)
    BY <1>9 DEF OrderDeadline, OrderMoves
  <2>3. r \in Order /\ r.status = orders[o].status
    BY <1>0 DEF Order
  <2> HIDE DEF r
  <2>4. /\ orders' \in Seq(Order)
        /\ DOMAIN orders' = DOMAIN orders
        /\ \A i \in DOMAIN orders : orders'[i] = IF i = o THEN r ELSE orders[i]
    BY <1>0, <2>1, <2>3, RowsAre, ExceptSeq
  <2> QED BY <1>0, <2>2, <2>3, <2>4 DEF OrdersMove, NoneFulfilled, OrderMoves
<1>10. ASSUME NEW u \in uploads, Submit(u)
       PROVE  OrdersMove(orders, orders') /\ NoneFulfilled(orders, orders')
  <2> DEFINE o == u.order
             r == [orders[o] EXCEPT !.status = "payment_submitted",
                     !.subs = Append(@, [proof |-> u.proof,
                                         review |-> "submitted"])]
  <2>1. o \in DOMAIN orders /\ Expire(orders)[o] = orders[o]
    <3>1. o \in DOMAIN orders
      BY TypesOf
    <3>2. Expire(orders)[o].status # "expired"
      BY <1>10 DEF Submit, Expirable
    <3> QED BY <1>0, <3>1, <3>2, ExpireRows
  <2>2. orders' = [Expire(orders) EXCEPT ![o] = r]
    BY <1>0, <1>10, <2>1, RowUpdates, ExpireRows DEF Submit
  <2>3. OrderMoves(orders[o], r)
    <3>1. u.proof \in Nat
      BY TypesOf
    <3> QED BY <1>10, <2>1, <3>1 DEF Submit, OrderMoves
  <2>4. r.status # "fulfilled"
    BY <1>0, <2>1 DEF Order
  <2> HIDE DEF r
  <2> QED BY <1>2, <2>1, <2>2, <2>3, <2>4
<1> QED BY <1>4, <1>5, <1>6, <1>7, <1>8, <1>9, <1>10 DEF OrderStep

\* The order that is fulfilled gets its service; the others at most expire.
LEMMA OneFulfilled ==
  ASSUME TypeOK, NEW o \in DOMAIN orders, NEW s \in Nat,
         orders[o].status = "payment_submitted", orders' = Fulfilled(o, s)
  PROVE  /\ OrdersMove(orders, orders')
         /\ DOMAIN orders' = DOMAIN orders
         /\ orders'[o].kind = orders[o].kind
         /\ orders'[o].status = "fulfilled"
         /\ orders'[o].service = s
         /\ \A i \in DOMAIN orders \ {o} : orders'[i] = Expire(orders)[i]
<1>0. orders \in Seq(Order) /\ \A i \in DOMAIN orders : orders[i] \in Order
  BY TypesOf
<1> DEFINE r == [orders[o] EXCEPT !.status = "fulfilled", !.service = s,
                                  !.subs = Reviewed(@, "approved")]
<1>1. Expire(orders)[o] = orders[o]
  BY <1>0, ExpireRows DEF Expirable
<1>2. orders' = [Expire(orders) EXCEPT ![o] = r]
  BY <1>0, <1>1, RowUpdates, ExpireRows DEF Fulfilled
<1>3. OrderMoves(orders[o], r)
  BY DEF OrderMoves
<1>4. r.kind = orders[o].kind /\ r.status = "fulfilled" /\ r.service = s
  BY <1>0 DEF Order
<1> HIDE DEF r
<1> DEFINE ns == [Expire(orders) EXCEPT ![o] = r]
<1>5. /\ OrdersMove(orders, ns)
      /\ DOMAIN ns = DOMAIN orders
      /\ ns[o] = r
      /\ \A i \in DOMAIN orders : i # o => ns[i] = Expire(orders)[i]
  BY <1>0, <1>1, <1>3, OneMoves
<1>6. orders' = ns
  BY <1>2
<1> HIDE DEF ns
<1> QED BY <1>4, <1>5, <1>6

-----------------------------------------------------------------------------
(* Ports and their traffic. *)

PortRow == Port \cup {Gone}
Traffic == [Listens -> 0..Limit]
Listening(ps) == {ps[p].listen : p \in {q \in DOMAIN ps : ps[q] # Gone}}
Apart(ps) == \A p, q \in DOMAIN ps :
  ps[p] # Gone /\ ps[q] # Gone /\ ps[p].listen = ps[q].listen => p = q

\* What the end of an apply does to a port that is not deleted.
SameBut(a, b) ==
  /\ b.listen = a.listen /\ b.due = a.due
  /\ b.limited = a.limited /\ b.service = a.service

\* The fields of a row of ports, and how a port is told from a deleted one.
LEMMA PortShape ==
  ASSUME NEW r \in PortRow
  PROVE  /\ r.service \in Nat
         /\ r.due \in BOOLEAN /\ r.limited \in BOOLEAN /\ r.enabled \in BOOLEAN
         /\ r # Gone => r \in Port /\ r.listen \in Listens
         /\ r \in Port => r # Gone
         /\ Cleanable(r) => r # Gone
<1>1. Gone.listen \notin Listens
  BY CommerceAssumption DEF Gone
<1>2. r \in Port => r # Gone
  BY <1>1 DEF Port
<1>3. r # Gone => r \in Port /\ r.listen \in Listens
  BY DEF PortRow, Port
<1>4. r.service \in Nat
  BY DEF PortRow, Port, Gone
<1>5. r.due \in BOOLEAN /\ r.limited \in BOOLEAN /\ r.enabled \in BOOLEAN
  <2>1. CASE r \in Port
    BY <2>1 DEF Port
  <2>2. CASE r = Gone
    BY <2>2 DEF Gone
  <2> QED BY <2>1, <2>2 DEF PortRow
<1>6. ~Gone.due
  BY DEF Gone
<1> QED BY <1>2, <1>3, <1>4, <1>5, <1>6 DEF Cleanable

\* A port that is stopped changes in nothing else.
LEMMA PortStopped ==
  ASSUME NEW r \in PortRow, NEW on \in BOOLEAN
  PROVE  LET n == [r EXCEPT !.enabled = on]
         IN /\ SameBut(r, n)
            /\ r # Gone => n \in Port
            /\ n.enabled = on
<1>1. r \in Port \/ r = Gone
  BY DEF PortRow
<1>2. CASE r \in Port
  BY <1>2 DEF Port, SameBut
<1>3. CASE r = Gone
  BY <1>3 DEF Gone, SameBut
<1> QED BY <1>1, <1>2, <1>3

\* A deleted row is the same when it is stopped.
LEMMA GoneStays == [Gone EXCEPT !.enabled = FALSE] = Gone
<1> DEFINE T == [listen : {0}, due : {FALSE}, limited : {FALSE},
                 enabled : {FALSE}, service : {0}]
<1>1. Gone \in T
  BY DEF Gone
<1>2. [Gone EXCEPT !.enabled = FALSE] \in T
  BY <1>1
<1> QED BY <1>1, <1>2

\* Rows of traffic that are deleted read as none.
LEMMA ClearedTraffic ==
  ASSUME NEW us \in Traffic, NEW ls
  PROVE  /\ Cleared(us, ls) \in Traffic
         /\ \A l \in Listens : Cleared(us, ls)[l] = IF l \in ls THEN 0 ELSE us[l]
BY CommerceAssumption DEF Cleared, Traffic

\* What the end of an apply does to ports and traffic.
LEMMA Stopped ==
  ASSUME NEW ps \in Seq(PortRow), NEW us \in Traffic
  PROVE  LET st == AutoStop(ps, us)
         IN /\ st.ports \in Seq(PortRow)
            /\ DOMAIN st.ports = DOMAIN ps
            /\ st.usage \in Traffic
            /\ \A p \in DOMAIN ps :
                 /\ Cleanable(ps[p]) => st.ports[p] = Gone
                 /\ ps[p] = Gone => st.ports[p] = Gone
                 /\ ps[p] # Gone /\ ~Cleanable(ps[p]) =>
                      /\ st.ports[p] # Gone
                      /\ SameBut(ps[p], st.ports[p])
                      /\ ps[p].enabled /\ ~ps[p].due /\ ~Spent(ps[p], st.usage)
                           => st.ports[p].enabled
            /\ \A p \in DOMAIN ps :
                 Cleanable(ps[p]) => st.usage[ps[p].listen] = 0
            /\ \A l \in Listens :
                 \/ st.usage[l] = us[l]
                 \/ /\ st.usage[l] = 0
                    /\ \E p \in DOMAIN ps : Cleanable(ps[p]) /\ ps[p].listen = l
<1> DEFINE cut == {ps[p].listen : p \in {q \in DOMAIN ps : Cleanable(ps[q])}}
           left == Cleared(us, cut)
           on(p) == ps[p].enabled /\ ~ps[p].due /\ ~Spent(ps[p], left)
           ns == [p \in DOMAIN ps |-> IF Cleanable(ps[p]) THEN Gone
                                      ELSE [ps[p] EXCEPT !.enabled = on(p)]]
<1>1. AutoStop(ps, us).usage = left
  BY DEF AutoStop
<1>2. AutoStop(ps, us).ports = ns
  BY DEF AutoStop
<1>3. /\ DOMAIN ps = 1..Len(ps)
      /\ Len(ps) \in Nat
      /\ \A p \in DOMAIN ps : ps[p] \in PortRow
  BY RowsAre
<1>4. /\ left \in Traffic
      /\ \A l \in Listens : left[l] = IF l \in cut THEN 0 ELSE us[l]
  BY ClearedTraffic
<1>5. \A p \in DOMAIN ps : on(p) \in BOOLEAN
  OBVIOUS
<1> HIDE DEF on, left
<1>6. ASSUME NEW p \in DOMAIN ps
      PROVE  /\ ns[p] \in PortRow
             /\ Cleanable(ps[p]) => ns[p] = Gone
             /\ ps[p] = Gone => ns[p] = Gone
             /\ ps[p] # Gone /\ ~Cleanable(ps[p]) =>
                  ns[p] # Gone /\ SameBut(ps[p], ns[p]) /\ ns[p].enabled = on(p)
  <2>1. CASE Cleanable(ps[p])
    BY <1>3, <2>1, PortShape DEF PortRow
  <2>2. CASE ~Cleanable(ps[p]) /\ ps[p] # Gone
    <3>1. ns[p] = [ps[p] EXCEPT !.enabled = on(p)]
      BY <2>2
    <3> QED BY <1>3, <1>5, <2>2, <3>1, PortStopped, PortShape DEF PortRow
  <2>3. CASE ps[p] = Gone
    <3>1. ~Cleanable(ps[p]) /\ on(p) = FALSE
      BY <2>3 DEF Cleanable, Gone, on
    <3>2. ns[p] = [Gone EXCEPT !.enabled = FALSE]
      BY <2>3, <3>1
    <3> QED BY <2>3, <3>1, <3>2, GoneStays DEF PortRow
  <2> QED BY <2>1, <2>2, <2>3
<1>7. ns \in Seq(PortRow) /\ DOMAIN ns = DOMAIN ps
  <2>1. ns \in [1..Len(ps) -> PortRow]
    BY <1>3, <1>6
  <2> QED BY <1>3, <2>1, RowsOf
<1>8. \A p \in DOMAIN ps : Cleanable(ps[p]) => left[ps[p].listen] = 0
  BY <1>3, <1>4, PortShape
<1>9. \A p \in DOMAIN ps :
        ps[p].enabled /\ ~ps[p].due /\ ~Spent(ps[p], left) => on(p)
  BY DEF on
<1> HIDE DEF ns
<1>10. \A l \in Listens :
         \/ left[l] = us[l]
         \/ /\ left[l] = 0
            /\ \E p \in DOMAIN ps : Cleanable(ps[p]) /\ ps[p].listen = l
  BY <1>4
<1> HIDE DEF cut
<1> QED BY <1>1, <1>2, <1>4, <1>6, <1>7, <1>8, <1>9, <1>10

\* Served names the listening ports of rows that are enabled, so not gone.
LEMMA ServedListens ==
  ASSUME NEW ps \in Seq(PortRow)
  PROVE  Served(ps) \subseteq Listening(ps) /\ Listening(ps) \subseteq Listens
<1>1. \A p \in DOMAIN ps : ps[p] \in PortRow
  BY RowsAre
<1>2. ~Gone.enabled
  BY DEF Gone
<1>3. Served(ps) \subseteq Listening(ps)
  BY <1>2 DEF Served, Listening
<1>4. Listening(ps) \subseteq Listens
  BY <1>1, PortShape DEF Listening
<1> QED BY <1>3, <1>4

\* Reading the counters charges to a port what the node has counted for it.
LEMMA ReadTraffic ==
  ASSUME NEW us \in Traffic, counters \in [Listens -> 0..1],
         NEW read \in StatsReads(us)
  PROVE  /\ read.usage \in Traffic
         /\ read.counters \in [Listens -> 0..1]
         /\ \A l \in Listens : /\ read.usage[l] >= us[l]
                               /\ read.usage[l] > 0 => us[l] > 0 \/ counters[l] > 0
                               /\ read.counters[l] > 0 => counters[l] > 0
<1>1. Zero \in [Listens -> 0..1] /\ \A l \in Listens : Zero[l] = 0
  BY DEF Zero
<1>2. \A l \in Listens : us[l] \in 0..Limit /\ counters[l] \in 0..1
  BY DEF Traffic
<1>3. /\ Plus(us) \in Traffic
      /\ \A l \in Listens : /\ Plus(us)[l] >= us[l]
                            /\ Plus(us)[l] > 0 => us[l] > 0 \/ counters[l] > 0
  BY <1>2, CommerceAssumption DEF Plus, Traffic
<1>4. /\ read.usage = Plus(us) \/ read.usage = us
      /\ read.counters = Zero \/ read.counters = counters
  BY DEF StatsReads
<1> QED BY <1>1, <1>2, <1>3, <1>4

\* A transaction that makes ps of the ports and us of their traffic before it
\* stops what is due: moved holds the listening ports whose traffic it leaves
\* without a port, touched the ports it changes or resets.
Changes(ps, us, moved, touched) ==
  /\ ps \in Seq(PortRow) /\ us \in Traffic
  /\ DOMAIN ports \subseteq DOMAIN ps
  /\ Apart(ps)
  /\ \A p \in DOMAIN ports : ports[p] # Gone /\ ports[p].service # 0 =>
       ps[p] # Gone /\ ps[p].service = ports[p].service
  /\ \A l \in Listens : us[l] > 0 => usage[l] > 0 \/ counters[l] > 0
  /\ \A l \in Listening(ports) : us[l] > 0 => l \in Listening(ps) \cup moved
  /\ \A p \in DOMAIN ports \ touched :
       ports[p] # Gone /\ ports[p].service # 0 /\ Renewable(ports[p])
         => ps[p].due \/ Spent(ps[p], us)
  /\ ports' = AutoStop(ps, us).ports
  /\ usage' = AutoStop(ps, us).usage

\* What ports and traffic are after such a transaction.
LEMMA ChangesEnd ==
  ASSUME NEW ps, NEW us, NEW moved, NEW touched,
         Changes(ps, us, moved, touched)
  PROVE  /\ ports' \in Seq(PortRow) /\ usage' \in Traffic
         /\ DOMAIN ports' = DOMAIN ps /\ DOMAIN ports \subseteq DOMAIN ports'
         /\ Apart(ports')
         /\ \A p \in DOMAIN ps : ps[p] # Gone /\ ps[p].service # 0 =>
              ports'[p] # Gone /\ ports'[p].service = ps[p].service
         /\ \A l \in Listens \ Listening(ports') : usage'[l] > 0 =>
              \/ l \in moved
              \/ l \notin Listening(ports) /\ (usage[l] > 0 \/ counters[l] > 0)
         /\ \A p \in DOMAIN ports \ touched :
              ports[p] # Gone /\ ports[p].service # 0 /\ Renewable(ports[p])
                => ports'[p].due \/ Spent(ports'[p], usage')
<1>1. /\ ps \in Seq(PortRow) /\ us \in Traffic
      /\ ports' = AutoStop(ps, us).ports
      /\ usage' = AutoStop(ps, us).usage
      /\ DOMAIN ports \subseteq DOMAIN ps
      /\ Apart(ps)
  BY DEF Changes
<1>2. /\ ports' \in Seq(PortRow) /\ usage' \in Traffic
      /\ DOMAIN ports' = DOMAIN ps
      /\ \A p \in DOMAIN ps :
           /\ Cleanable(ps[p]) => ports'[p] = Gone
           /\ ps[p] = Gone => ports'[p] = Gone
           /\ ps[p] # Gone /\ ~Cleanable(ps[p]) =>
                ports'[p] # Gone /\ SameBut(ps[p], ports'[p])
      /\ \A p \in DOMAIN ps : Cleanable(ps[p]) => usage'[ps[p].listen] = 0
      /\ \A l \in Listens :
           \/ usage'[l] = us[l]
           \/ /\ usage'[l] = 0
              /\ \E p \in DOMAIN ps : Cleanable(ps[p]) /\ ps[p].listen = l
  BY <1>1, Stopped
<1>3. \A p \in DOMAIN ps : ps[p] \in PortRow
  BY <1>1, RowsAre
<1>4. Apart(ports')
  BY <1>1, <1>2 DEF Apart, SameBut
<1>5. \A p \in DOMAIN ps : ps[p].service # 0 => ~Cleanable(ps[p])
  BY DEF Cleanable
<1>6. ASSUME NEW l \in Listens, l \notin Listening(ports'), usage'[l] > 0
      PROVE  \/ l \in moved
             \/ l \notin Listening(ports) /\ (usage[l] > 0 \/ counters[l] > 0)
  <2>1. usage'[l] = us[l]
    BY <1>2, <1>6
  <2>2. l \notin Listening(ps)
    BY <1>2, <1>6 DEF Listening, SameBut
  <2> QED BY <1>6, <2>1, <2>2 DEF Changes
<1>7. ASSUME NEW p \in DOMAIN ports \ touched,
             ports[p] # Gone, ports[p].service # 0, Renewable(ports[p])
      PROVE  ports'[p].due \/ Spent(ports'[p], usage')
  <2>1. /\ ps[p] # Gone /\ ps[p].service # 0
        /\ ps[p].due \/ Spent(ps[p], us)
        /\ p \in DOMAIN ps
    BY <1>7 DEF Changes
  <2>2. ~Cleanable(ps[p]) /\ SameBut(ps[p], ports'[p])
    BY <1>2, <1>5, <2>1
  <2>3. ps[p].listen \in Listens
    BY <1>3, <2>1, PortShape
  <2>4. usage'[ps[p].listen] = us[ps[p].listen]
    <3>1. ASSUME NEW q \in DOMAIN ps, Cleanable(ps[q]),
                 ps[q].listen = ps[p].listen
          PROVE  FALSE
      <4>1. ps[q] # Gone
        BY <1>3, <3>1, PortShape
      <4> QED BY <1>1, <2>1, <2>2, <3>1, <4>1 DEF Apart
    <3> QED BY <1>2, <2>3, <3>1
  <2> QED BY <2>1, <2>2, <2>4 DEF SameBut, Spent
<1> QED BY <1>1, <1>2, <1>4, <1>5, <1>6, <1>7 DEF SameBut

\* Two names for the listening ports that ports have.
LEMMA ListeningIsInUse == InUse = Listening(ports)
BY DEF InUse, Live, Listening

\* Rows of traffic and counters, in the form the lemmas use.
LEMMA TrafficTyped ==
  ASSUME TypeOK
  PROVE  usage \in Traffic /\ counters \in [Listens -> 0..1]
BY DEF TypeOK, Traffic

\* A port is made: on a listening port that none has.
LEMMA AddedChanges ==
  ASSUME TypeOK, Apart(ports), NEW r \in Port, r.listen \notin InUse,
         NEW read \in StatsReads(usage),
         ports' = AutoStop(Append(ports, r), read.usage).ports,
         usage' = AutoStop(Append(ports, r), read.usage).usage
  PROVE  /\ Changes(Append(ports, r), read.usage, {}, {})
         /\ Append(ports, r)[Len(ports) + 1] = r
         /\ DOMAIN Append(ports, r) = DOMAIN ports \cup {Len(ports) + 1}
<1> DEFINE ps == Append(ports, r)
           n == Len(ports) + 1
<1>1. ports \in Seq(PortRow) /\ r \in PortRow
  BY TypesOf DEF PortRow
<1>2. /\ ps \in Seq(PortRow)
      /\ ps[n] = r
      /\ DOMAIN ps = DOMAIN ports \cup {n}
      /\ \A p \in DOMAIN ports : ps[p] = ports[p]
  BY <1>1, RowAdded
<1>3. /\ read.usage \in Traffic
      /\ \A l \in Listens : /\ read.usage[l] >= usage[l]
                            /\ read.usage[l] > 0 => usage[l] > 0 \/ counters[l] > 0
  BY ReadTraffic, TrafficTyped
<1>4. \A p \in DOMAIN ports : ports[p] \in PortRow
  BY <1>1, RowsAre
<1> HIDE DEF ps, n
<1>5. \A p \in DOMAIN ports : ports[p] # Gone => ports[p].listen # r.listen
  BY ListeningIsInUse DEF Listening
<1>6. Apart(ps)
  BY <1>2, <1>5 DEF Apart
<1>7. Listening(ports) \subseteq Listening(ps)
  BY <1>2 DEF Listening
<1>8. \A p \in DOMAIN ports :
        ports[p] # Gone /\ Renewable(ports[p])
          => ps[p].due \/ Spent(ps[p], read.usage)
  <2> SUFFICES ASSUME NEW p \in DOMAIN ports, ports[p] # Gone,
                      Renewable(ports[p]), ~ports[p].due
               PROVE  Spent(ps[p], read.usage)
    BY <1>2
  <2>1. ports[p].listen \in Listens
    BY <1>4, PortShape
  <2>2. /\ read.usage[ports[p].listen] \in 0..Limit
        /\ usage[ports[p].listen] \in 0..Limit
    BY <1>3, <2>1, TrafficTyped DEF Traffic
  <2>3. read.usage[ports[p].listen] >= usage[ports[p].listen]
    BY <1>3, <2>1
  <2> QED BY <1>2, <2>2, <2>3, CommerceAssumption DEF Renewable, Spent
<1>9. Changes(ps, read.usage, {}, {})
  BY <1>2, <1>3, <1>6, <1>7, <1>8 DEF Changes, ps
<1> QED BY <1>2, <1>9 DEF ps, n

\* A port is changed or deleted, or its traffic reset.
LEMMA RowChanges ==
  ASSUME TypeOK, Apart(ports), NEW p \in Live, NEW r \in PortRow,
         \/ r = Gone
         \/ r.listen = ports[p].listen
         \/ r.listen \notin InUse,
         ports[p].service # 0 => r # Gone /\ r.service = ports[p].service,
         NEW us \in Traffic, NEW moved, NEW touched,
         \A l \in Listens : us[l] > 0 => usage[l] > 0 \/ counters[l] > 0,
         \A l \in Listens : l # ports[p].listen => us[l] >= usage[l],
         \/ us[ports[p].listen] = 0
         \/ r # Gone /\ r.listen = ports[p].listen
         \/ ports[p].listen \in moved,
         \/ p \in touched
         \/ ports[p].service = 0
         \/ SameBut(ports[p], r) /\ us[ports[p].listen] >= usage[ports[p].listen],
         ports' = AutoStop([ports EXCEPT ![p] = r], us).ports,
         usage' = AutoStop([ports EXCEPT ![p] = r], us).usage
  PROVE  Changes([ports EXCEPT ![p] = r], us, moved, touched)
<1> DEFINE ps == [ports EXCEPT ![p] = r]
<1>1. /\ ports \in Seq(PortRow)
      /\ p \in DOMAIN ports /\ ports[p] # Gone
      /\ DOMAIN ports = 1..Len(ports)
      /\ \A q \in DOMAIN ports : ports[q] \in PortRow
  BY TypesOf, RowsAre DEF PortRow, Live
<1>2. /\ ps \in Seq(PortRow)
      /\ DOMAIN ps = DOMAIN ports
      /\ ps[p] = r
      /\ \A q \in DOMAIN ports : q # p => ps[q] = ports[q]
  <2>1. /\ ps \in Seq(PortRow)
        /\ Len(ps) = Len(ports)
        /\ \A q \in 1..Len(ports) : ps[q] = IF q = p THEN r ELSE ports[q]
    BY <1>1, ExceptSeq
  <2>2. DOMAIN ps = DOMAIN ports
    OBVIOUS
  <2> QED BY <1>1, <2>1, <2>2
<1>3. ports[p].listen \in Listens
  BY <1>1, PortShape
<1>4. Apart(ps)
  <2>1. r # Gone /\ r.listen # ports[p].listen =>
          \A q \in DOMAIN ports : ports[q] # Gone => ports[q].listen # r.listen
    BY ListeningIsInUse DEF Listening
  <2> HIDE DEF ps
  <2> QED BY <1>1, <1>2, <2>1 DEF Apart
<1> HIDE DEF ps
<1>5. ASSUME NEW l \in Listening(ports), us[l] > 0
      PROVE  l \in Listening(ps) \cup moved
  <2>1. PICK q \in DOMAIN ports : ports[q] # Gone /\ ports[q].listen = l
    BY DEF Listening
  <2>2. CASE q # p
    BY <1>2, <2>1, <2>2 DEF Listening
  <2>3. CASE q = p
    BY <1>2, <1>5, <2>1, <2>3 DEF Listening
  <2> QED BY <2>2, <2>3
<1>6. ASSUME NEW q \in DOMAIN ports \ touched,
             ports[q] # Gone, ports[q].service # 0, Renewable(ports[q])
      PROVE  ps[q].due \/ Spent(ps[q], us)
  <2>1. ps[q].due = ports[q].due /\ ps[q].limited = ports[q].limited
        /\ ps[q].listen = ports[q].listen
    BY <1>2, <1>6 DEF SameBut
  <2>2. ports[q].listen \in Listens
    BY <1>1, <1>6, PortShape
  <2>3. us[ports[q].listen] >= usage[ports[q].listen]
    BY <1>1, <1>6, <2>2 DEF Apart
  <2>4. us[ports[q].listen] \in 0..Limit /\ usage[ports[q].listen] \in 0..Limit
    BY <2>2, TrafficTyped DEF Traffic
  <2> QED BY <1>6, <2>1, <2>3, <2>4, CommerceAssumption DEF Renewable, Spent
<1>7. \A q \in DOMAIN ports : ports[q] # Gone /\ ports[q].service # 0 =>
        ps[q] # Gone /\ ps[q].service = ports[q].service
  BY <1>2
<1> QED BY <1>2, <1>4, <1>5, <1>6, <1>7 DEF Changes, ps

\* Nothing is changed but what the traffic and the time have brought.
LEMMA SameChanges ==
  ASSUME TypeOK, Apart(ports),
         ports' = AutoStop(ports, usage).ports,
         usage' = AutoStop(ports, usage).usage
  PROVE  Changes(ports, usage, {}, {})
<1>1. ports \in Seq(PortRow)
  BY TypesOf DEF PortRow
<1>2. \A l \in Listens : usage[l] > 0 => usage[l] > 0 \/ counters[l] > 0
  OBVIOUS
<1> QED BY <1>1, <1>2, TrafficTyped DEF Changes, Renewable

\* What the end of a successful apply makes of ports, traffic and node.
LEMMA Applied ==
  ASSUME NEW ps, NEW us, Apply(ps, us)
  PROVE  /\ ports' = AutoStop(ps, us).ports
         /\ usage' = AutoStop(ps, us).usage
         /\ loaded' = Served(ports')
         /\ counters' = Zero
BY DEF Apply

\* The row of a port under a renewal.
LEMMA PortRenewed ==
  ASSUME NEW r \in Port
  PROVE  LET n == [r EXCEPT !.due = FALSE, !.limited = TRUE, !.enabled = TRUE]
         IN /\ n \in Port /\ n.listen = r.listen /\ n.service = r.service
            /\ n.due = FALSE /\ n.limited = TRUE /\ n.enabled = TRUE
BY DEF Port

\* A port that is not deleted is a row of ports.
LEMMA LivePort ==
  ASSUME TypeOK, NEW p \in Live
  PROVE  /\ p \in DOMAIN ports /\ p \in Nat \ {0}
         /\ ports[p] \in Port
         /\ ports[p].listen \in Listens
         /\ ports \in [DOMAIN ports -> PortRow]
BY TypesOf, RowsAre, PortShape DEF Live, PortRow

\* The changes of ports that no order asks for.
AdminStep ==
  \/ \E l \in Listens : CreatePort(l)
  \/ \E p \in Live : \/ TogglePort(p) \/ DeletePort(p) \/ ResetPortTraffic(p)
                     \/ \E l \in Listens : UpdatePort(p, l)
  \/ DisableAutoStopped

\* What such a change leaves behind.
Leaves(moved, touched) ==
  /\ stray' = {l \in stray \cup moved : usage'[l] > 0}
  /\ loaded' = Served(ports')
  /\ counters' = Zero
  /\ edited' = edited \cup UNION {RenewalsOf(p) : p \in touched}
  /\ UNCHANGED <<books, proofs>>

\* create_port leaves no traffic behind and touches no port.
LEMMA CreateChanges ==
  ASSUME TypeOK, Apart(ports), NEW l \in Listens, CreatePort(l)
  PROVE  \E ps, us : Changes(ps, us, {}, {}) /\ Leaves({}, {})
<1>1. PICK read \in StatsReads(usage), limited \in BOOLEAN :
        Apply(Append(ports, [listen |-> l, due |-> FALSE, limited |-> limited,
                             enabled |-> TRUE, service |-> 0]), read.usage)
  BY DEF CreatePort
<1> DEFINE r == [listen |-> l, due |-> FALSE, limited |-> limited,
                 enabled |-> TRUE, service |-> 0]
<1>2. r \in Port /\ r.listen = l
  BY DEF Port
<1>3. Apply(Append(ports, r), read.usage)
  BY <1>1
<1> HIDE DEF r
<1>4. Changes(Append(ports, r), read.usage, {}, {})
  BY <1>2, <1>3, Applied, AddedChanges DEF CreatePort
<1>5. Leaves({}, {})
  BY <1>3, Applied DEF CreatePort, Leaves, StillStray
<1> QED BY <1>4, <1>5

\* update_port leaves the traffic of a listening port that it gave up.
LEMMA UpdateChanges ==
  ASSUME TypeOK, Apart(ports), NEW p \in Live, NEW l \in Listens,
         UpdatePort(p, l)
  PROVE  \E ps, us : /\ Changes(ps, us, {ports[p].listen} \ {l}, {p})
                     /\ Leaves({ports[p].listen} \ {l}, {p})
<1>1. PICK read \in StatsReads(usage), due \in BOOLEAN, limited \in BOOLEAN :
        Apply([ports EXCEPT ![p].listen = l, ![p].due = due,
                            ![p].limited = limited], read.usage)
  BY DEF UpdatePort
<1> DEFINE r == [ports[p] EXCEPT !.listen = l, !.due = due, !.limited = limited]
<1>2. r \in Port /\ r \in PortRow /\ r.listen = l /\ r.service = ports[p].service
  <2>1. ports[p] \in Port
    BY LivePort
  <2>2. r \in Port /\ r.listen = l /\ r.service = ports[p].service
    BY <2>1, <1>1 DEF Port
  <2> QED BY <2>2 DEF PortRow
<1>3. [ports EXCEPT ![p].listen = l, ![p].due = due, ![p].limited = limited]
        = [ports EXCEPT ![p] = r]
  BY LivePort DEF Port
<1>4. Apply([ports EXCEPT ![p] = r], read.usage)
  BY <1>1, <1>3
<1> HIDE DEF r
<1>5. Changes([ports EXCEPT ![p] = r], read.usage, {ports[p].listen} \ {l}, {p})
  <2>1. r # Gone
    BY <1>2, PortShape
  <2>2. r.listen = ports[p].listen \/ r.listen \notin InUse
    BY <1>2 DEF UpdatePort
  <2>3. /\ read.usage \in Traffic
        /\ \A k \in Listens : /\ read.usage[k] >= usage[k]
                              /\ read.usage[k] > 0 => usage[k] > 0 \/ counters[k] > 0
    BY ReadTraffic, TrafficTyped
  <2>4. \/ read.usage[ports[p].listen] = 0
        \/ r # Gone /\ r.listen = ports[p].listen
        \/ ports[p].listen \in {ports[p].listen} \ {l}
    BY <1>2, <2>1
  <2> QED BY <1>2, <1>4, <2>1, <2>2, <2>3, <2>4, Applied, RowChanges
<1>6. Leaves({ports[p].listen} \ {l}, {p})
  BY <1>4, Applied DEF UpdatePort, Leaves, StillStray
<1> QED BY <1>5, <1>6

\* toggle_port touches no row but its own, and that only in what is served.
LEMMA ToggleChanges ==
  ASSUME TypeOK, Apart(ports), NEW p \in Live, TogglePort(p)
  PROVE  \E ps, us : Changes(ps, us, {}, {}) /\ Leaves({}, {})
<1>1. PICK read \in StatsReads(usage) :
        Apply([ports EXCEPT ![p].enabled = ~@], read.usage)
  BY DEF TogglePort
<1> DEFINE on == ~ports[p].enabled
           r == [ports[p] EXCEPT !.enabled = on]
<1>2. r \in Port /\ r \in PortRow /\ SameBut(ports[p], r)
  BY LivePort, PortStopped, PortShape DEF PortRow
<1>3. [ports EXCEPT ![p].enabled = ~@] = [ports EXCEPT ![p] = r]
  BY LivePort
<1>4. Apply([ports EXCEPT ![p] = r], read.usage)
  BY <1>1, <1>3
<1> HIDE DEF r
<1>5. Changes([ports EXCEPT ![p] = r], read.usage, {}, {})
  <2>1. /\ r # Gone /\ r.service = ports[p].service
        /\ r.listen = ports[p].listen
    BY <1>2, PortShape DEF SameBut
  <2>2. /\ read.usage \in Traffic
        /\ \A k \in Listens : /\ read.usage[k] >= usage[k]
                              /\ read.usage[k] > 0 => usage[k] > 0 \/ counters[k] > 0
    BY ReadTraffic, TrafficTyped
  <2>3. ports[p].listen \in Listens
    BY LivePort
  <2> QED BY <1>2, <1>4, <2>1, <2>2, <2>3, Applied, RowChanges
<1>6. Leaves({}, {})
  BY <1>4, Applied DEF TogglePort, Leaves, StillStray
<1> QED BY <1>5, <1>6

\* delete_port takes the traffic with the port.
LEMMA DeleteChanges ==
  ASSUME TypeOK, Apart(ports), NEW p \in Live, DeletePort(p)
  PROVE  \E ps, us : Changes(ps, us, {}, {}) /\ Leaves({}, {})
<1>1. PICK read \in StatsReads(usage) :
        Apply([ports EXCEPT ![p] = Gone],
              DeletedTraffic(read.usage, ports[p].listen))
  BY DEF DeletePort
<1> DEFINE us == DeletedTraffic(read.usage, ports[p].listen)
<1>2. /\ read.usage \in Traffic
      /\ \A k \in Listens : /\ read.usage[k] >= usage[k]
                            /\ read.usage[k] > 0 => usage[k] > 0 \/ counters[k] > 0
  BY ReadTraffic, TrafficTyped
<1>3. us = Cleared(read.usage, {ports[p].listen})
  BY DEF DeletedTraffic
<1>4. /\ us \in Traffic
      /\ \A l \in Listens : us[l] = IF l \in {ports[p].listen} THEN 0
                                                            ELSE read.usage[l]
  BY <1>2, <1>3, ClearedTraffic
<1> HIDE DEF us
<1>5. Apply([ports EXCEPT ![p] = Gone], us)
  BY <1>1 DEF us
<1>6. Changes([ports EXCEPT ![p] = Gone], us, {}, {})
  <2>1. Gone \in PortRow
    BY DEF PortRow
  <2>2. ports[p].service = 0
    BY DEF DeletePort
  <2>3. \A l \in Listens : us[l] > 0 => usage[l] > 0 \/ counters[l] > 0
    BY <1>2, <1>4
  <2>4. \A l \in Listens : l # ports[p].listen => us[l] >= usage[l]
    BY <1>2, <1>4
  <2>5. us[ports[p].listen] = 0
    BY <1>4, LivePort
  <2> QED BY <1>4, <1>5, <2>1, <2>2, <2>3, <2>4, <2>5, Applied, RowChanges
<1>7. Leaves({}, {})
  BY <1>5, Applied DEF DeletePort, Leaves, StillStray
<1> QED BY <1>6, <1>7

\* reset_port_traffic touches its port.
LEMMA ResetChanges ==
  ASSUME TypeOK, Apart(ports), NEW p \in Live, ResetPortTraffic(p)
  PROVE  \E ps, us : Changes(ps, us, {}, {p}) /\ Leaves({}, {p})
<1>1. PICK read \in StatsReads(usage) :
        Apply([ports EXCEPT ![p].enabled =
                  @ \/ (Spent(ports[p], read.usage) /\ ~ports[p].due)],
              ResetUsage(read.usage, ports[p].listen))
  BY DEF ResetPortTraffic
<1> DEFINE us == ResetUsage(read.usage, ports[p].listen)
           on == ports[p].enabled \/ (Spent(ports[p], read.usage) /\ ~ports[p].due)
           r == [ports[p] EXCEPT !.enabled = on]
<1>2. r \in Port /\ r \in PortRow /\ SameBut(ports[p], r)
  BY LivePort, PortStopped, PortShape DEF PortRow
<1>3. [ports EXCEPT ![p].enabled =
          @ \/ (Spent(ports[p], read.usage) /\ ~ports[p].due)]
        = [ports EXCEPT ![p] = r]
  BY LivePort
<1>4. Apply([ports EXCEPT ![p] = r], us)
  BY <1>1, <1>3
<1> HIDE DEF r
<1>5. /\ read.usage \in Traffic
      /\ \A k \in Listens : /\ read.usage[k] >= usage[k]
                            /\ read.usage[k] > 0 => usage[k] > 0 \/ counters[k] > 0
  BY ReadTraffic, TrafficTyped
<1>6. us = Cleared(read.usage, {ports[p].listen})
  BY DEF ResetUsage
<1>7. /\ us \in Traffic
      /\ \A l \in Listens : us[l] = IF l \in {ports[p].listen} THEN 0
                                                            ELSE read.usage[l]
  BY <1>5, <1>6, ClearedTraffic
<1> HIDE DEF us
<1>8. Changes([ports EXCEPT ![p] = r], us, {}, {p})
  <2>1. /\ r # Gone /\ r.service = ports[p].service
        /\ r.listen = ports[p].listen
    BY <1>2, PortShape DEF SameBut
  <2>2. \A l \in Listens : us[l] > 0 => usage[l] > 0 \/ counters[l] > 0
    BY <1>5, <1>7
  <2>3. \A l \in Listens : l # ports[p].listen => us[l] >= usage[l]
    BY <1>5, <1>7
  <2> QED BY <1>2, <1>4, <1>7, <2>1, <2>2, <2>3, Applied, RowChanges
<1>9. Leaves({}, {p})
  BY <1>4, Applied DEF ResetPortTraffic, Leaves, StillStray
<1> QED BY <1>8, <1>9

\* Every change by an admin or by maintenance is a transaction of that form.
LEMMA AdminChanges ==
  ASSUME TypeOK, Apart(ports), AdminStep
  PROVE  \E ps, us, moved, touched :
           /\ moved \subseteq Listens
           /\ Changes(ps, us, moved, touched)
           /\ Leaves(moved, touched)
<1>1. ASSUME NEW l \in Listens, CreatePort(l)
      PROVE  \E ps, us : Changes(ps, us, {}, {}) /\ Leaves({}, {})
  BY <1>1, CreateChanges
<1>2. ASSUME NEW p \in Live, NEW l \in Listens, UpdatePort(p, l)
      PROVE  \E ps, us, moved : /\ moved \subseteq Listens
                                /\ Changes(ps, us, moved, {p})
                                /\ Leaves(moved, {p})
  BY <1>2, UpdateChanges, LivePort
<1>3. ASSUME NEW p \in Live, TogglePort(p) \/ DeletePort(p)
      PROVE  \E ps, us : Changes(ps, us, {}, {}) /\ Leaves({}, {})
  BY <1>3, ToggleChanges, DeleteChanges
<1>4. ASSUME NEW p \in Live, ResetPortTraffic(p)
      PROVE  \E ps, us : Changes(ps, us, {}, {p}) /\ Leaves({}, {p})
  BY <1>4, ResetChanges
<1>5. ASSUME DisableAutoStopped
      PROVE  Changes(ports, usage, {}, {}) /\ Leaves({}, {})
  <2>1. Apply(ports, usage)
    BY <1>5 DEF DisableAutoStopped
  <2>2. Leaves({}, {})
    BY <1>5, <2>1, Applied DEF DisableAutoStopped, Leaves, StillStray
  <2> QED BY <2>1, <2>2, Applied, SameChanges
<1>6. {} \subseteq Listens
  OBVIOUS
<1> QED BY <1>1, <1>2, <1>3, <1>4, <1>5, <1>6 DEF AdminStep

\* A purchase makes a port that names the new service.
LEMMA PurchaseChanges ==
  ASSUME TypeOK, Apart(ports), NEW o \in DOMAIN orders, FulfillPurchase(o)
  PROVE  \E ps, us :
           /\ Changes(ps, us, {}, {})
           /\ Len(ports) + 1 \in DOMAIN ps
           /\ ps[Len(ports) + 1] # Gone
           /\ ps[Len(ports) + 1].service = Len(services) + 1
           /\ stray' = {l \in stray : usage'[l] > 0}
           /\ loaded' = Served(ports')
           /\ counters' = Zero
<1> DEFINE s == Len(services) + 1
<1>1. PICK l \in AutoPorts, read \in StatsReads(usage) :
        Apply(Append(ports, [listen |-> l, due |-> FALSE, limited |-> TRUE,
                             enabled |-> TRUE, service |-> s]), read.usage)
  BY DEF FulfillPurchase
<1> DEFINE r == [listen |-> l, due |-> FALSE, limited |-> TRUE,
                 enabled |-> TRUE, service |-> s]
<1>2. Len(services) \in Nat
  BY TypesOf, LenProperties
<1>3. l \in Listens /\ l \notin InUse
  BY CommerceAssumption DEF AutoPorts
<1>4. r \in Port /\ r \in PortRow /\ r.listen = l /\ r.service = s
  BY <1>2, <1>3 DEF Port, PortRow
<1>5. Apply(Append(ports, r), read.usage)
  BY <1>1
<1> HIDE DEF r, s
<1>6. /\ Changes(Append(ports, r), read.usage, {}, {})
      /\ Append(ports, r)[Len(ports) + 1] = r
      /\ DOMAIN Append(ports, r) = DOMAIN ports \cup {Len(ports) + 1}
  BY <1>3, <1>4, <1>5, Applied, AddedChanges
<1>7. r # Gone
  BY <1>4, PortShape
<1>8. /\ stray' = {k \in stray : usage'[k] > 0}
      /\ loaded' = Served(ports')
      /\ counters' = Zero
  BY <1>5, Applied DEF FulfillPurchase, StillStray
<1> QED BY <1>4, <1>6, <1>7, <1>8 DEF s

\* A renewal opens the port of its service, whose traffic starts again.
LEMMA RenewalChanges ==
  ASSUME TypeOK, Apart(ports), NEW o \in DOMAIN orders, FulfillRenewal(o),
         orders[o].service \in DOMAIN services
  PROVE  LET p == services[orders[o].service].port
         IN /\ p \in DOMAIN ports
            /\ \E ps, us : Changes(ps, us, {}, {p})
            /\ stray' = {l \in stray : usage'[l] > 0}
            /\ loaded' = Served(ports')
            /\ counters' = Zero
            /\ Runs(p)
            /\ ports'[p].listen = ports[p].listen
            /\ usage'[ports[p].listen] = 0
<1> DEFINE p == services[orders[o].service].port
<1>1. p \in DOMAIN ports
  BY TypesOf
<1>2. p \in Live
  BY <1>1 DEF FulfillRenewal, Live
<1> HIDE DEF p
<1>3. PICK read \in StatsReads(usage) :
        Apply([ports EXCEPT ![p].due = FALSE, ![p].limited = TRUE,
                            ![p].enabled = TRUE],
              ResetUsage(read.usage, ports[p].listen))
  BY DEF FulfillRenewal, p
<1> DEFINE us == ResetUsage(read.usage, ports[p].listen)
           r == [ports[p] EXCEPT !.due = FALSE, !.limited = TRUE,
                                 !.enabled = TRUE]
           ps == [ports EXCEPT ![p] = r]
<1>4. /\ r \in Port /\ r.listen = ports[p].listen /\ r.service = ports[p].service
      /\ r.due = FALSE /\ r.limited = TRUE /\ r.enabled = TRUE
  BY <1>2, LivePort, PortRenewed
<1>5. r \in PortRow /\ r # Gone
  BY <1>4, PortShape DEF PortRow
<1>6. [ports EXCEPT ![p].due = FALSE, ![p].limited = TRUE,
                    ![p].enabled = TRUE] = ps
  BY <1>2, LivePort DEF Port
<1>7. Apply(ps, us)
  BY <1>3, <1>6
<1>8. ps \in Seq(PortRow) /\ p \in DOMAIN ps /\ ps[p] = r
  <2> HIDE DEF r
  <2>1. ports \in Seq(PortRow) /\ p \in DOMAIN ports
    BY <1>2, LivePort, TypesOf DEF PortRow
  <2>2. p \in 1..Len(ports)
    BY <2>1, RowsAre
  <2>3. ps \in Seq(PortRow)
    BY <1>5, <2>1, <2>2, ExceptSeq
  <2> QED BY <2>1, <2>3
<1> HIDE DEF r
<1>9. /\ read.usage \in Traffic
      /\ \A k \in Listens : /\ read.usage[k] >= usage[k]
                            /\ read.usage[k] > 0 => usage[k] > 0 \/ counters[k] > 0
  BY ReadTraffic, TrafficTyped
<1>10. us = Cleared(read.usage, {ports[p].listen})
  BY DEF ResetUsage
<1>11. /\ us \in Traffic
       /\ \A l \in Listens : us[l] = IF l \in {ports[p].listen} THEN 0
                                                             ELSE read.usage[l]
  BY <1>9, <1>10, ClearedTraffic
<1> HIDE DEF us
<1>12. Changes(ps, us, {}, {p})
  <2>1. \A l \in Listens : us[l] > 0 => usage[l] > 0 \/ counters[l] > 0
    BY <1>9, <1>11
  <2>2. \A l \in Listens : l # ports[p].listen => us[l] >= usage[l]
    BY <1>9, <1>11
  <2> QED BY <1>2, <1>4, <1>5, <1>7, <1>11, <2>1, <2>2, Applied, RowChanges
<1>13. /\ stray' = {l \in stray : usage'[l] > 0}
       /\ loaded' = Served(ports')
       /\ counters' = Zero
  BY <1>7, Applied DEF FulfillRenewal, StillStray
<1> HIDE DEF ps
<1>14. us[ports[p].listen] = 0 /\ ports[p].listen \in Listens
  BY <1>2, <1>11, LivePort
<1>15. ~Cleanable(r)
  BY <1>4 DEF Cleanable
<1>16. /\ ports'[p] # Gone
       /\ SameBut(r, ports'[p])
       /\ ~Spent(r, usage') => ports'[p].enabled
       /\ usage'[ports[p].listen] = us[ports[p].listen]
                                      \/ usage'[ports[p].listen] = 0
       /\ DOMAIN ports' = DOMAIN ps
  <2> DEFINE st == AutoStop(ps, us)
  <2>1. ports' = st.ports /\ usage' = st.usage
    BY <1>7, Applied
  <2>2. /\ DOMAIN st.ports = DOMAIN ps
        /\ ps[p] # Gone /\ ~Cleanable(ps[p]) =>
             /\ st.ports[p] # Gone
             /\ SameBut(ps[p], st.ports[p])
             /\ ps[p].enabled /\ ~ps[p].due /\ ~Spent(ps[p], st.usage)
                  => st.ports[p].enabled
        /\ \A l \in Listens : st.usage[l] = us[l] \/ st.usage[l] = 0
    BY <1>8, <1>11, Stopped
  <2> HIDE DEF st
  <2> QED BY <1>4, <1>5, <1>8, <1>14, <1>15, <2>1, <2>2
<1>17. usage'[ports[p].listen] = 0
  BY <1>14, <1>16
<1>18. ~Spent(r, usage')
  BY <1>4, <1>17, CommerceAssumption DEF Spent
<1>19. /\ ports'[p].enabled
       /\ ports'[p].listen = ports[p].listen
       /\ ~ports'[p].due
       /\ ~(ports'[p].limited /\ usage'[ports'[p].listen] >= Limit)
  BY <1>4, <1>16, <1>17, <1>18, CommerceAssumption DEF SameBut
<1>20. Runs(p)
  <2>1. ports'[p].listen \in loaded'
    BY <1>8, <1>13, <1>16, <1>19 DEF Served
  <2> QED BY <1>19, <2>1 DEF Runs
<1> QED BY <1>1, <1>12, <1>13, <1>17, <1>19, <1>20 DEF p

\* A boot deletes the due ports of no customer before it reads the counters,
\* and may leave the node running with what it had.
LEMMA BootChanges ==
  ASSUME TypeOK, Apart(ports), Boot
  PROVE  \E ps, us, moved :
           /\ moved \subseteq Listens
           /\ Changes(ps, us, moved, {})
           /\ stray' = stray \cup moved
           /\ Listening(ports) \subseteq Listening(ports') \cup moved
           /\ loaded' = Served(ports') \/ loaded' = loaded
           /\ counters' \in [Listens -> 0..1]
           /\ \A l \in Listens : counters'[l] > 0 => counters[l] > 0
<1> DEFINE cut == {p \in Live : Cleanable(ports[p])}
           ps == [p \in DOMAIN ports |-> IF p \in cut THEN Gone ELSE ports[p]]
           moved == {ports[p].listen : p \in cut}
<1>1. PICK read \in StatsReads(Cleared(usage, moved)), restart \in BOOLEAN :
        /\ ports' = AutoStop(ps, read.usage).ports
        /\ usage' = AutoStop(ps, read.usage).usage
        /\ loaded' = IF restart THEN Served(ports') ELSE loaded
        /\ counters' = IF restart THEN Zero ELSE read.counters
  BY DEF Boot
<1>2. stray' = stray \cup moved
  BY DEF Boot
<1>3. /\ Cleared(usage, moved) \in Traffic
      /\ \A l \in Listens :
           Cleared(usage, moved)[l] = IF l \in moved THEN 0 ELSE usage[l]
  BY TrafficTyped, ClearedTraffic
<1>4. /\ read.usage \in Traffic
      /\ read.counters \in [Listens -> 0..1]
      /\ \A l \in Listens :
           /\ read.usage[l] >= Cleared(usage, moved)[l]
           /\ read.usage[l] > 0 => Cleared(usage, moved)[l] > 0 \/ counters[l] > 0
           /\ read.counters[l] > 0 => counters[l] > 0
  BY <1>3, ReadTraffic, TrafficTyped
<1>5. /\ ports \in Seq(PortRow)
      /\ DOMAIN ports = 1..Len(ports) /\ Len(ports) \in Nat
      /\ \A p \in DOMAIN ports : ports[p] \in PortRow
  BY TypesOf, RowsAre DEF PortRow
<1>6. cut \subseteq DOMAIN ports
  BY DEF Live
<1>7. /\ ps \in Seq(PortRow)
      /\ DOMAIN ps = DOMAIN ports
      /\ \A p \in DOMAIN ports : ps[p] = IF p \in cut THEN Gone ELSE ports[p]
  <2>1. ps \in [1..Len(ports) -> PortRow]
    BY <1>5 DEF PortRow
  <2> QED BY <1>5, <2>1, RowsOf
<1>8. moved \subseteq Listens
  BY <1>5, PortShape DEF Live
<1>9. \A p \in DOMAIN ports :
        p \in cut <=> ports[p] # Gone /\ Cleanable(ports[p])
  BY DEF Live
<1>10. \A p \in cut : ports[p].service = 0 /\ ports[p].listen \in moved
  BY DEF Cleanable
<1>11. \A l \in moved : \E p \in cut : ports[p].listen = l
  OBVIOUS
<1> HIDE DEF cut, ps, moved
<1>12. Apart(ps)
  BY <1>7 DEF Apart
<1>13. Listening(ports) \subseteq Listening(ps) \cup moved
  BY <1>7, <1>10 DEF Listening
<1>14. ASSUME NEW p \in DOMAIN ports, ports[p] # Gone, ports[p].service # 0,
              Renewable(ports[p])
       PROVE  ps[p].due \/ Spent(ps[p], read.usage)
  <2>1. ps[p] = ports[p] /\ ports[p].listen \in Listens
    BY <1>5, <1>7, <1>10, <1>14, PortShape
  <2>2. ports[p].listen \notin moved
    BY <1>6, <1>9, <1>10, <1>11, <1>14 DEF Apart
  <2>3. read.usage[ports[p].listen] >= usage[ports[p].listen]
    BY <1>3, <1>4, <2>1, <2>2
  <2>4. /\ read.usage[ports[p].listen] \in 0..Limit
        /\ usage[ports[p].listen] \in 0..Limit
    BY <1>4, <2>1, TrafficTyped DEF Traffic
  <2> QED BY <1>14, <2>1, <2>3, <2>4, CommerceAssumption DEF Renewable, Spent
<1>15. Changes(ps, read.usage, moved, {})
  <2>1. \A l \in Listens : read.usage[l] > 0 => usage[l] > 0 \/ counters[l] > 0
    BY <1>3, <1>4
  <2>2. \A p \in DOMAIN ports : ports[p] # Gone /\ ports[p].service # 0 =>
          ps[p] # Gone /\ ps[p].service = ports[p].service
    BY <1>7, <1>10
  <2> QED BY <1>1, <1>4, <1>7, <1>12, <1>13, <1>14, <2>1, <2>2 DEF Changes
<1>16. Listening(ps) \subseteq Listening(ports')
  <2>1. \A p \in DOMAIN ps : ps[p] # Gone => ~Cleanable(ps[p])
    BY <1>7, <1>9
  <2> DEFINE st == AutoStop(ps, read.usage)
  <2>2. /\ DOMAIN st.ports = DOMAIN ps
        /\ \A p \in DOMAIN ps : ps[p] # Gone /\ ~Cleanable(ps[p]) =>
             st.ports[p] # Gone /\ SameBut(ps[p], st.ports[p])
    BY <1>4, <1>7, Stopped
  <2>3. ports' = st.ports
    BY <1>1
  <2> HIDE DEF st
  <2> QED BY <2>1, <2>2, <2>3 DEF Listening, SameBut
<1>17. /\ counters' \in [Listens -> 0..1]
       /\ \A l \in Listens : counters'[l] > 0 => counters[l] > 0
  <2>1. Zero \in [Listens -> 0..1] /\ \A l \in Listens : Zero[l] = 0
    BY DEF Zero
  <2> QED BY <1>1, <1>4, <2>1
<1>18. loaded' = Served(ports') \/ loaded' = loaded
  BY <1>1
<1> QED BY <1>2, <1>8, <1>13, <1>15, <1>16, <1>17, <1>18

-----------------------------------------------------------------------------
(* Types, and the services that were paid for. *)

\* The steps by what they do.
LEMMA NextKinds ==
  ASSUME Next
  PROVE  \/ OrderStep \/ Fulfilment \/ AdminStep \/ Boot \/ SyncTraffic
         \/ \E l \in loaded : Carry(l)
         \/ \E p \in Live : PortFallsDue(p)
         \/ \E o \in DOMAIN orders : SaveProof(o)
         \/ \E u \in uploads : SubmitFails(u)
BY DEF Next, OrderStep, Fulfilment, AdminStep

\* A bound that is used up by one.
LEMMA RoomTaken ==
  ASSUME room \in Budget, NEW items,
         items \subseteq {"orders", "proofs", "ports", "edits", "boots"},
         Take(items)
  PROVE  /\ room' \in Budget
         /\ room'.proofs = IF "proofs" \in items THEN room.proofs - 1
                                                 ELSE room.proofs
         /\ "proofs" \in items => room.proofs > 0
<1> DEFINE keys == {"orders", "proofs", "ports", "edits", "boots"}
<1>1. DOMAIN room = keys /\ \A i \in keys : room[i] \in Nat
  BY DEF Budget
<1>2. room' = [i \in keys |-> IF i \in items THEN room[i] - 1 ELSE room[i]]
  BY <1>1 DEF Take
<1>3. \A i \in items : room[i] > 0
  BY DEF Take
<1>4. \A i \in keys : /\ room'[i] \in Nat
                      /\ room'[i] = IF i \in items THEN room[i] - 1 ELSE room[i]
  BY <1>1, <1>2, <1>3
<1>5. room' \in Budget
  BY <1>2, <1>4 DEF Budget
<1> QED BY <1>3, <1>4, <1>5

\* The bound on proofs, which gives them their names, only falls.
LEMMA RoomStep ==
  ASSUME TypeOK, Next
  PROVE  /\ room' \in Budget
         /\ room'.proofs <= room.proofs
         /\ \A o \in DOMAIN orders : SaveProof(o) => room'.proofs < room.proofs
<1>1. room \in Budget /\ room.proofs \in Nat
  BY DEF TypeOK, Budget
<1>2. CASE room' = room
  <2>1. ASSUME NEW o \in DOMAIN orders, SaveProof(o)
        PROVE  FALSE
    <3>1. Take({"proofs"})
      BY <2>1 DEF SaveProof
    <3> QED BY <1>1, <1>2, <3>1, RoomTaken
  <2> QED BY <1>1, <1>2, <2>1
<1>3. ASSUME NEW items, Take(items),
             items \subseteq {"orders", "proofs", "ports", "edits", "boots"}
      PROVE  room' \in Budget /\ room'.proofs <= room.proofs
  <2>1. /\ room' \in Budget
        /\ room'.proofs = IF "proofs" \in items THEN room.proofs - 1
                                                ELSE room.proofs
    BY <1>1, <1>3, RoomTaken
  <2> QED BY <1>1, <2>1
<1>4. ASSUME NEW o \in DOMAIN orders, SaveProof(o)
      PROVE  room'.proofs < room.proofs
  BY <1>1, <1>4, RoomTaken DEF SaveProof
<1>5. CASE ~(room' = room)
  BY <1>3, <1>4, <1>5
  DEF Next, CreatePurchase, ExpirePendingOrders, CreateRenewal, SaveProof,
      RejectOrder, CancelOrder, FulfillPurchase, FulfillRenewal,
      OrderDeadline, Submit, SubmitFails, CreatePort, TogglePort, DeletePort,
      ResetPortTraffic, PortFallsDue, UpdatePort, Carry, SyncTraffic,
      DisableAutoStopped, Boot, proofs
<1> QED BY <1>2, <1>5

\* Ports have listening ports of their own.
LEMMA PaidApart ==
  ASSUME PaidServiceKept
  PROVE  Apart(ports)
BY DEF PaidServiceKept, Apart, Live

\* What every step does to the rows of ports and to their traffic.
PortsStep ==
  /\ ports' \in Seq(PortRow) /\ usage' \in Traffic
  /\ DOMAIN ports \subseteq DOMAIN ports'
  /\ Apart(ports')
  /\ \A p \in DOMAIN ports : ports[p] # Gone /\ ports[p].service # 0 =>
       ports'[p] # Gone /\ ports'[p].service = ports[p].service
  /\ counters' \in [Listens -> 0..1]
  /\ loaded' \subseteq Listens /\ stray' \subseteq Listens

\* A transaction that ends so does what every step does to ports.
LEMMA ChangesKeep ==
  ASSUME TypeOK, NEW ps, NEW us, NEW moved, NEW touched,
         Changes(ps, us, moved, touched), moved \subseteq Listens,
         stray' \subseteq stray \cup moved,
         loaded' = Served(ports') \/ loaded' = loaded,
         counters' = Zero \/ counters' \in [Listens -> 0..1]
  PROVE  PortsStep
<1>1. /\ ports' \in Seq(PortRow) /\ usage' \in Traffic
      /\ DOMAIN ports' = DOMAIN ps /\ DOMAIN ports \subseteq DOMAIN ports'
      /\ Apart(ports')
      /\ \A p \in DOMAIN ps : ps[p] # Gone /\ ps[p].service # 0 =>
           ports'[p] # Gone /\ ports'[p].service = ps[p].service
  BY ChangesEnd
<1>2. \A p \in DOMAIN ports : ports[p] # Gone /\ ports[p].service # 0 =>
        ps[p] # Gone /\ ps[p].service = ports[p].service
  BY DEF Changes
<1>3. Served(ports') \subseteq Listens
  BY <1>1, ServedListens
<1>4. loaded \subseteq Listens /\ stray \subseteq Listens
  BY DEF TypeOK
<1>5. Zero \in [Listens -> 0..1]
  BY DEF Zero
<1> QED BY <1>1, <1>2, <1>3, <1>4, <1>5 DEF PortsStep

\* Every step does that to ports.
LEMMA PortsKept ==
  ASSUME TypeOK, PaidServiceKept, Next
  PROVE  PortsStep
<1>1. Apart(ports)
  BY PaidApart
<1>2. /\ ports \in Seq(PortRow) /\ usage \in Traffic
      /\ counters \in [Listens -> 0..1]
      /\ loaded \subseteq Listens /\ stray \subseteq Listens
  BY TrafficTyped DEF TypeOK, PortRow
<1>3. ASSUME ports' = ports, usage' \in Traffic,
             counters' \in [Listens -> 0..1], UNCHANGED <<loaded, stray>>
      PROVE  PortsStep
  BY <1>1, <1>2, <1>3 DEF PortsStep
<1>4. CASE OrderStep
  BY <1>2, <1>3, <1>4
  DEF OrderStep, CreatePurchase, ExpirePendingOrders, CreateRenewal,
      RejectOrder, CancelOrder, OrderDeadline, Submit, node
<1>5. CASE AdminStep
  BY <1>1, <1>5, AdminChanges, ChangesKeep DEF Leaves
<1>6. CASE Boot
  BY <1>1, <1>6, BootChanges, ChangesKeep
<1>7. ASSUME NEW o \in DOMAIN orders, FulfillPurchase(o)
      PROVE  PortsStep
  BY <1>1, <1>7, PurchaseChanges, ChangesKeep
<1>8. ASSUME NEW o \in DOMAIN orders, FulfillRenewal(o)
      PROVE  PortsStep
  <2>1. orders[o].service \in DOMAIN services
    BY <1>8 DEF FulfillRenewal, PaidServiceKept
  <2>2. PICK ps, us :
          Changes(ps, us, {}, {services[orders[o].service].port})
    BY <1>1, <1>8, <2>1, RenewalChanges
  <2>3. /\ stray' = {l \in stray : usage'[l] > 0}
        /\ loaded' = Served(ports')
        /\ counters' = Zero
    BY <1>1, <1>8, <2>1, RenewalChanges
  <2> QED BY <2>2, <2>3, ChangesKeep
<1>9. CASE SyncTraffic
  BY <1>2, <1>3, <1>9, ReadTraffic DEF SyncTraffic
<1>10. ASSUME NEW l \in loaded, Carry(l)
       PROVE  PortsStep
  BY <1>2, <1>3, <1>10 DEF Carry
<1>11. ASSUME NEW p \in Live, PortFallsDue(p)
       PROVE  PortsStep
  <2> DEFINE r == [ports[p] EXCEPT !.due = TRUE]
  <2>1. r \in Port /\ r.listen = ports[p].listen /\ r.service = ports[p].service
    BY LivePort DEF Port
  <2>2. ports' = [ports EXCEPT ![p] = r]
    BY <1>11, LivePort DEF PortFallsDue
  <2>3. r \in PortRow /\ r # Gone
    BY <2>1, PortShape DEF PortRow
  <2> HIDE DEF r
  <2>4. p \in DOMAIN ports /\ ports[p] # Gone /\ p \in 1..Len(ports)
    BY <1>2, LivePort, PortShape, RowsAre DEF Live
  <2>5. /\ ports' \in Seq(PortRow)
        /\ DOMAIN ports' = DOMAIN ports
        /\ \A q \in DOMAIN ports : ports'[q] = IF q = p THEN r ELSE ports[q]
    BY <1>2, <2>2, <2>3, <2>4, ExceptSeq, RowsAre
  <2>6. Apart(ports')
    BY <1>1, <2>1, <2>4, <2>5 DEF Apart
  <2>7. \A q \in DOMAIN ports : ports[q] # Gone /\ ports[q].service # 0 =>
          ports'[q] # Gone /\ ports'[q].service = ports[q].service
    BY <2>1, <2>3, <2>5
  <2> QED BY <1>2, <1>11, <2>5, <2>6, <2>7 DEF PortFallsDue, PortsStep, node
<1>12. ASSUME NEW o \in DOMAIN orders, SaveProof(o)
       PROVE  PortsStep
  BY <1>2, <1>3, <1>12 DEF SaveProof, node
<1>13. ASSUME NEW u \in uploads, SubmitFails(u)
       PROVE  PortsStep
  BY <1>2, <1>3, <1>13 DEF SubmitFails, node
<1> QED BY <1>4, <1>5, <1>6, <1>7, <1>8, <1>9, <1>10, <1>11, <1>12, <1>13,
           NextKinds DEF Fulfilment

\* A renewal that appears was made for a service, and nothing else was.
LEMMA RenewalMade ==
  ASSUME TypeOK, OrderStep, NEW o \in DOMAIN orders' \ DOMAIN orders,
         orders'[o].kind = "renewal"
  PROVE  \E s \in DOMAIN services :
           /\ CreateRenewal(s)
           /\ orders'[o].service = s
           /\ \A i \in DOMAIN orders' \ {o} :
                i \in DOMAIN orders /\ orders'[i] = Expire(orders)[i]
<1>1. orders \in Seq(Order)
  BY TypesOf
<1>2. ASSUME NEW r \in Order, Fresh(r), orders' = Append(Expire(orders), r)
      PROVE  /\ orders'[o] = r
             /\ \A i \in DOMAIN orders' \ {o} :
                  i \in DOMAIN orders /\ orders'[i] = Expire(orders)[i]
  <2>1. /\ DOMAIN orders' = DOMAIN orders \cup {Len(orders) + 1}
        /\ orders'[Len(orders) + 1] = r
        /\ \A i \in DOMAIN orders : orders'[i] = Expire(orders)[i]
    BY <1>1, <1>2, OneMade
  <2> QED BY <2>1
<1>3. ASSUME NEW s \in DOMAIN services, CreateRenewal(s)
      PROVE  /\ orders'[o].service = s
             /\ \A i \in DOMAIN orders' \ {o} :
                  i \in DOMAIN orders /\ orders'[i] = Expire(orders)[i]
  <2> DEFINE r == [kind |-> "renewal", service |-> s,
                   status |-> "pending_payment", late |-> FALSE, subs |-> <<>>]
  <2>1. r \in Order /\ Fresh(r) /\ r.service = s
    BY TypesOf, EmptySeq DEF Order, Fresh, Open, Expirable
  <2>2. orders' = Append(Expire(orders), r)
    BY <1>3 DEF CreateRenewal
  <2> HIDE DEF r
  <2> QED BY <1>2, <2>1, <2>2
<1>4. CASE CreatePurchase
  <2> DEFINE r == [kind |-> "new_purchase", service |-> 0,
                   status |-> "pending_payment", late |-> FALSE, subs |-> <<>>]
  <2>1. r \in Order /\ Fresh(r) /\ r.kind = "new_purchase"
    BY EmptySeq DEF Order, Fresh, Open, Expirable
  <2>2. orders' = Append(Expire(orders), r)
    BY <1>4 DEF CreatePurchase
  <2> HIDE DEF r
  <2>3. orders'[o] = r
    BY <1>2, <2>1, <2>2
  <2> QED BY <2>1, <2>3
<1>5. CASE ExpirePendingOrders
  BY <1>1, <1>5, ExpireRows DEF ExpirePendingOrders
<1>6. ASSUME NEW q \in DOMAIN orders,
             RejectOrder(q) \/ CancelOrder(q) \/ OrderDeadline(q)
      PROVE  DOMAIN orders' = DOMAIN orders
  BY <1>1, <1>6, ExpireRows DEF RejectOrder, CancelOrder, OrderDeadline
<1>7. ASSUME NEW u \in uploads, Submit(u)
      PROVE  DOMAIN orders' = DOMAIN orders
  BY <1>1, <1>7, ExpireRows DEF Submit
<1> QED BY <1>3, <1>4, <1>5, <1>6, <1>7 DEF OrderStep

\* The steps that leave orders and services alone.
LEMMA BooksSame ==
  ASSUME Next, ~OrderStep, ~Fulfilment
  PROVE  UNCHANGED books
BY NextKinds
DEF AdminStep, CreatePort, TogglePort, DeletePort, ResetPortTraffic,
    UpdatePort, DisableAutoStopped, Boot, SyncTraffic, Carry, PortFallsDue,
    SaveProof, SubmitFails, books

\* Every step moves each order as one step may.
LEMMA OrdersKept ==
  ASSUME TypeOK, PaidServiceKept, Next
  PROVE  OrdersMove(orders, orders')
<1>1. orders \in Seq(Order) /\ Len(services) \in Nat
  BY TypesOf, LenProperties
<1>2. CASE OrderStep
  BY <1>2, OrderStepMoves
<1>3. ASSUME NEW o \in DOMAIN orders, FulfillPurchase(o)
      PROVE  OrdersMove(orders, orders')
  <2>1. Len(services) + 1 \in Nat
    BY <1>1
  <2>2. /\ orders' = Fulfilled(o, Len(services) + 1)
        /\ orders[o].status = "payment_submitted"
    BY <1>3 DEF FulfillPurchase
  <2> QED BY <2>1, <2>2, OneFulfilled
<1>4. ASSUME NEW o \in DOMAIN orders, FulfillRenewal(o)
      PROVE  OrdersMove(orders, orders')
  <2>1. orders[o].service \in Nat
    BY TypesOf, OrderShape
  <2>2. /\ orders' = Fulfilled(o, orders[o].service)
        /\ orders[o].status = "payment_submitted"
    BY <1>4 DEF FulfillRenewal
  <2> QED BY <2>1, <2>2, OneFulfilled
<1>5. CASE ~OrderStep /\ ~Fulfilment
  BY <1>1, <1>5, BooksSame, NoneMoves DEF books
<1> QED BY <1>2, <1>3, <1>4, <1>5 DEF Fulfilment

\* What a move leaves of an order, for every order of a step.
LEMMA OrdersStay ==
  ASSUME TypeOK, PaidServiceKept, Next
  PROVE  /\ orders' \in Seq(Order)
         /\ DOMAIN orders \subseteq DOMAIN orders'
         /\ \A o \in DOMAIN orders :
              /\ orders'[o].kind = orders[o].kind
              /\ orders'[o].service # orders[o].service =>
                   orders'[o].status = "fulfilled"
              /\ orders[o].status \in Final => orders'[o] = orders[o]
              /\ orders'[o].status \in Open => orders[o].status \in Open
         /\ \A o \in DOMAIN orders' \ DOMAIN orders :
              orders'[o].status = "pending_payment"
<1>1. OrdersMove(orders, orders')
  BY OrdersKept
<1>2. \A o \in DOMAIN orders : orders[o] \in Order
  BY TypesOf
<1> QED BY <1>1, <1>2, OrderMoved DEF OrdersMove, Fresh

\* Only an approval adds to the services or fulfils an order.
LEMMA OthersFulfilNothing ==
  ASSUME TypeOK, Next, ~Fulfilment
  PROVE  services' = services /\ NoneFulfilled(orders, orders')
<1>1. CASE OrderStep
  BY <1>1, OrderStepMoves
  DEF OrderStep, CreatePurchase, ExpirePendingOrders, CreateRenewal,
      RejectOrder, CancelOrder, OrderDeadline, Submit
<1>2. CASE ~OrderStep
  BY <1>2, BooksSame DEF books, NoneFulfilled
<1> QED BY <1>1, <1>2

\* A fulfilled purchase has opened the service whose source it is.
LEMMA PurchaseFulfilled ==
  ASSUME TypeOK, PaidServiceKept, NEW o \in DOMAIN orders, FulfillPurchase(o)
  PROVE  LET n == Len(services) + 1
         IN /\ n \notin DOMAIN services
            /\ DOMAIN services' = DOMAIN services \cup {n}
            /\ \A s \in DOMAIN services : services'[s] = services[s]
            /\ services'[n] = [port |-> Len(ports) + 1, source |-> o]
            /\ services' \in Seq([port : DOMAIN ports', source : DOMAIN orders])
            /\ ports'[Len(ports) + 1] # Gone
            /\ ports'[Len(ports) + 1].service = n
            /\ orders'[o].kind = "new_purchase"
            /\ orders'[o].status = "fulfilled"
            /\ orders'[o].service = n
            /\ DOMAIN orders' = DOMAIN orders
            /\ \A i \in DOMAIN orders \ {o} : orders'[i] = Expire(orders)[i]
<1> DEFINE n == Len(services) + 1
           T == [port : DOMAIN ports', source : DOMAIN orders]
           row == [port |-> Len(ports) + 1, source |-> o]
<1>1. Len(services) \in Nat /\ DOMAIN services = 1..Len(services)
  BY TypesOf, LenProperties
<1>2. PICK ps, us :
        /\ Changes(ps, us, {}, {})
        /\ Len(ports) + 1 \in DOMAIN ps
        /\ ps[Len(ports) + 1] # Gone
        /\ ps[Len(ports) + 1].service = n
  BY PaidApart, PurchaseChanges
<1>3. /\ DOMAIN ports' = DOMAIN ps /\ DOMAIN ports \subseteq DOMAIN ports'
      /\ \A p \in DOMAIN ps : ps[p] # Gone /\ ps[p].service # 0 =>
           ports'[p] # Gone /\ ports'[p].service = ps[p].service
  BY <1>2, ChangesEnd
<1>4. n # 0
  BY <1>1
<1>5. /\ ports'[Len(ports) + 1] # Gone
      /\ ports'[Len(ports) + 1].service = n
      /\ Len(ports) + 1 \in DOMAIN ports'
  BY <1>2, <1>3, <1>4
<1>6. services \in Seq(T)
  <2>1. [port : DOMAIN ports, source : DOMAIN orders] \subseteq T
    BY <1>3
  <2>2. services \in Seq([port : DOMAIN ports, source : DOMAIN orders])
    BY TypesOf
  <2> DEFINE S == [port : DOMAIN ports, source : DOMAIN orders]
  <2> HIDE DEF S, T
  <2> QED BY <2>1, <2>2, SeqMonotonic DEF S
<1>7. row \in T
  BY <1>5
<1>8. services' = Append(services, row)
  BY DEF FulfillPurchase, ServiceRow
<1>9. /\ services' \in Seq(T)
      /\ services'[n] = row
      /\ DOMAIN services' = DOMAIN services \cup {n}
      /\ \A s \in DOMAIN services : services'[s] = services[s]
  <2> HIDE DEF T, row
  <2> QED BY <1>6, <1>7, <1>8, RowAdded
<1>10. /\ orders' = Fulfilled(o, n)
       /\ orders[o].status = "payment_submitted"
       /\ orders[o].kind = "new_purchase"
  BY DEF FulfillPurchase
<1>11. n \in Nat
  BY <1>1
<1>12. /\ DOMAIN orders' = DOMAIN orders
       /\ orders'[o].kind = orders[o].kind
       /\ orders'[o].status = "fulfilled"
       /\ orders'[o].service = n
       /\ \A i \in DOMAIN orders \ {o} : orders'[i] = Expire(orders)[i]
  <2> HIDE DEF n
  <2> QED BY <1>10, <1>11, OneFulfilled
<1> QED BY <1>1, <1>5, <1>9, <1>10, <1>12

\* A renewal that is fulfilled ends its own order and leaves services alone.
LEMMA RenewalFulfilled ==
  ASSUME TypeOK, PaidServiceKept, NEW o \in DOMAIN orders, FulfillRenewal(o)
  PROVE  /\ orders[o].service \in DOMAIN services
         /\ orders[o].status = "payment_submitted"
         /\ services' = services
         /\ orders'[o].kind = "renewal"
         /\ orders'[o].status = "fulfilled"
         /\ orders'[o].service = orders[o].service
         /\ DOMAIN orders' = DOMAIN orders
         /\ \A i \in DOMAIN orders \ {o} : orders'[i] = Expire(orders)[i]
<1>1. /\ orders' = Fulfilled(o, orders[o].service)
      /\ orders[o].status = "payment_submitted"
      /\ orders[o].kind = "renewal"
      /\ services' = services
  BY DEF FulfillRenewal
<1>2. orders[o].service \in DOMAIN services
  BY <1>1 DEF PaidServiceKept
<1>3. orders[o].service \in Nat
  BY TypesOf, OrderShape
<1>4. /\ DOMAIN orders' = DOMAIN orders
      /\ orders'[o].kind = orders[o].kind
      /\ orders'[o].status = "fulfilled"
      /\ orders'[o].service = orders[o].service
      /\ \A i \in DOMAIN orders \ {o} : orders'[i] = Expire(orders)[i]
  BY <1>1, <1>3, OneFulfilled
<1> QED BY <1>1, <1>2, <1>4

\* No order but the one approved becomes fulfilled.
LEMMA OthersExpire ==
  ASSUME TypeOK, NEW i \in DOMAIN orders, Expire(orders)[i].status = "fulfilled"
  PROVE  orders[i].status = "fulfilled" /\ Expire(orders)[i] = orders[i]
BY TypesOf, ExpireRows

\* Services and their orders, after any step.
LEMMA PaidKept ==
  ASSUME TypeOK, PaidServiceKept, Next
  PROVE  /\ services' \in Seq([port : DOMAIN ports', source : DOMAIN orders'])
         /\ PaidServiceKept'
<1>1. /\ DOMAIN ports \subseteq DOMAIN ports'
      /\ Apart(ports')
      /\ \A p \in DOMAIN ports : ports[p] # Gone /\ ports[p].service # 0 =>
           ports'[p] # Gone /\ ports'[p].service = ports[p].service
  BY PortsKept DEF PortsStep
<1>2. /\ DOMAIN orders \subseteq DOMAIN orders'
      /\ \A o \in DOMAIN orders :
           /\ orders'[o].kind = orders[o].kind
           /\ orders'[o].service # orders[o].service =>
                orders'[o].status = "fulfilled"
           /\ orders[o].status \in Final => orders'[o] = orders[o]
      /\ \A o \in DOMAIN orders' \ DOMAIN orders :
           orders'[o].status = "pending_payment"
  BY OrdersStay
<1>3. \A s \in DOMAIN services : /\ s # 0
                                 /\ services[s].port \in DOMAIN ports
                                 /\ services[s].source \in DOMAIN orders
  BY TypesOf
<1>4. \A p, q \in Live' : ports'[p].listen = ports'[q].listen => p = q
  BY <1>1 DEF Apart, Live
<1>5. \A s \in DOMAIN services :
        /\ ports'[services[s].port] # Gone
        /\ ports'[services[s].port].service = s
        /\ orders'[services[s].source].kind = "new_purchase"
        /\ orders'[services[s].source].status = "fulfilled"
  BY <1>1, <1>2, <1>3 DEF PaidServiceKept, Final
<1>6. \A o \in DOMAIN orders : orders[o].status = "fulfilled" =>
        /\ orders'[o] = orders[o]
        /\ orders'[o].service \in DOMAIN services
        /\ orders'[o].kind = "new_purchase" =>
             services[orders'[o].service].source = o
  BY <1>2 DEF PaidServiceKept, Final
<1>7. \A o \in DOMAIN orders :
        orders[o].kind = "renewal" => orders[o].service \in DOMAIN services
  BY DEF PaidServiceKept
<1>8. DOMAIN orders' = DOMAIN orders \/ OrderStep \/ Fulfilment
  BY BooksSame DEF books
<1>9. \A o \in DOMAIN orders' \ DOMAIN orders :
        orders'[o].kind = "renewal" => orders'[o].service \in DOMAIN services
  <2>1. CASE OrderStep
    BY <2>1, RenewalMade
  <2>2. CASE Fulfilment
    <3>1. DOMAIN orders' = DOMAIN orders
      BY <2>2, PurchaseFulfilled, RenewalFulfilled DEF Fulfilment
    <3> QED BY <3>1
  <2> QED BY <1>8, <2>1, <2>2
<1>10. services \in Seq([port : DOMAIN ports', source : DOMAIN orders'])
  <2> DEFINE S == [port : DOMAIN ports, source : DOMAIN orders]
             T == [port : DOMAIN ports', source : DOMAIN orders']
  <2>1. S \subseteq T
    BY <1>1, <1>2
  <2>2. services \in Seq(S)
    BY TypesOf
  <2> HIDE DEF S, T
  <2>3. services \in Seq(T)
    BY <2>1, <2>2, SeqMonotonic
  <2> QED BY <2>3 DEF T
<1>11. CASE services' = services /\ NoneFulfilled(orders, orders')
  <2>1. \A o \in DOMAIN orders' : orders'[o].status = "fulfilled" =>
          o \in DOMAIN orders /\ orders[o].status = "fulfilled"
    BY <1>11 DEF NoneFulfilled
  <2>2. \A o \in DOMAIN orders' :
          orders'[o].kind = "renewal" => orders'[o].service \in DOMAIN services
    BY <1>2, <1>6, <1>7, <1>9, <2>1
  <2> QED BY <1>4, <1>5, <1>6, <1>10, <1>11, <2>1, <2>2 DEF PaidServiceKept
<1>12. ASSUME NEW o \in DOMAIN orders, FulfillPurchase(o)
       PROVE  /\ services' \in Seq([port : DOMAIN ports', source : DOMAIN orders'])
              /\ PaidServiceKept'
  <2> DEFINE n == Len(services) + 1
  <2>1. /\ n \notin DOMAIN services
        /\ DOMAIN services' = DOMAIN services \cup {n}
        /\ \A s \in DOMAIN services : services'[s] = services[s]
        /\ services'[n] = [port |-> Len(ports) + 1, source |-> o]
        /\ services' \in Seq([port : DOMAIN ports', source : DOMAIN orders])
        /\ ports'[Len(ports) + 1] # Gone
        /\ ports'[Len(ports) + 1].service = n
        /\ orders'[o].kind = "new_purchase"
        /\ orders'[o].status = "fulfilled"
        /\ orders'[o].service = n
        /\ DOMAIN orders' = DOMAIN orders
        /\ \A i \in DOMAIN orders \ {o} : orders'[i] = Expire(orders)[i]
    BY <1>12, PurchaseFulfilled
  <2> HIDE DEF n
  <2>2. \A i \in DOMAIN orders \ {o} : orders'[i].status = "fulfilled" =>
          orders[i].status = "fulfilled"
    BY <2>1, OthersExpire
  <2>3. \A s \in DOMAIN services' :
          /\ ports'[services'[s].port] # Gone
          /\ ports'[services'[s].port].service = s
          /\ orders'[services'[s].source].kind = "new_purchase"
          /\ orders'[services'[s].source].status = "fulfilled"
    BY <1>5, <2>1
  <2>4. \A i \in DOMAIN orders' : orders'[i].status = "fulfilled" =>
          /\ orders'[i].service \in DOMAIN services'
          /\ orders'[i].kind = "new_purchase" =>
               services'[orders'[i].service].source = i
    BY <1>6, <2>1, <2>2
  <2>5. \A i \in DOMAIN orders' : orders'[i].kind = "renewal" =>
          orders'[i].service \in DOMAIN services'
    BY <1>2, <1>7, <2>1, <2>4
  <2> QED BY <1>4, <2>1, <2>3, <2>4, <2>5 DEF PaidServiceKept
<1>13. ASSUME NEW o \in DOMAIN orders, FulfillRenewal(o)
       PROVE  /\ services' \in Seq([port : DOMAIN ports', source : DOMAIN orders'])
              /\ PaidServiceKept'
  <2>1. /\ orders[o].service \in DOMAIN services
        /\ services' = services
        /\ orders'[o].kind = "renewal"
        /\ orders'[o].status = "fulfilled"
        /\ orders'[o].service = orders[o].service
        /\ DOMAIN orders' = DOMAIN orders
        /\ \A i \in DOMAIN orders \ {o} : orders'[i] = Expire(orders)[i]
    BY <1>13, RenewalFulfilled
  <2>2. \A i \in DOMAIN orders \ {o} : orders'[i].status = "fulfilled" =>
          orders[i].status = "fulfilled"
    BY <2>1, OthersExpire
  <2>3. \A i \in DOMAIN orders' : orders'[i].status = "fulfilled" =>
          /\ orders'[i].service \in DOMAIN services'
          /\ orders'[i].kind = "new_purchase" =>
               services'[orders'[i].service].source = i
    BY <1>6, <2>1, <2>2
  <2>4. \A i \in DOMAIN orders' : orders'[i].kind = "renewal" =>
          orders'[i].service \in DOMAIN services'
    BY <1>2, <1>7, <2>1, <2>3
  <2> QED BY <1>4, <1>5, <1>10, <2>1, <2>3, <2>4 DEF PaidServiceKept
<1> QED BY <1>11, <1>12, <1>13, OthersFulfilNothing DEF Fulfilment

\* Only an upload, and one that fails, touch the files; the others at most
\* take uploads away.
LEMMA UploadsStep ==
  ASSUME TypeOK, PaidServiceKept, Next
  PROVE  \/ uploads' \subseteq uploads /\ files' = files
         \/ \E o \in DOMAIN orders : SaveProof(o)
         \/ \E u \in uploads : SubmitFails(u)
<1>1. CASE AdminStep
  BY <1>1, PaidApart, AdminChanges DEF Leaves, proofs
<1>2. CASE OrderStep \/ Fulfilment \/ Boot \/ SyncTraffic
           \/ (\E l \in loaded : Carry(l)) \/ (\E p \in Live : PortFallsDue(p))
  BY <1>2
  DEF OrderStep, CreatePurchase, ExpirePendingOrders, CreateRenewal,
      RejectOrder, CancelOrder, OrderDeadline, Submit, Fulfilment,
      FulfillPurchase, FulfillRenewal, Boot, SyncTraffic, Carry, PortFallsDue,
      proofs
<1> QED BY <1>1, <1>2, NextKinds

\* An admin's change of a port notes its open renewals; nothing forgets one.
LEMMA EditedStep ==
  ASSUME TypeOK, PaidServiceKept, Next
  PROVE  edited \subseteq edited' /\ edited' \subseteq DOMAIN orders
<1>1. edited \subseteq DOMAIN orders
  BY DEF TypeOK
<1>2. CASE AdminStep
  BY <1>1, <1>2, PaidApart, AdminChanges DEF Leaves, RenewalsOf
<1>3. CASE ~AdminStep
  <2>1. edited' = edited
    BY <1>3, NextKinds
    DEF OrderStep, CreatePurchase, ExpirePendingOrders, CreateRenewal,
        RejectOrder, CancelOrder, OrderDeadline, Submit, Fulfilment,
        FulfillPurchase, FulfillRenewal, Boot, SyncTraffic, Carry,
        PortFallsDue, SaveProof, SubmitFails
  <2> QED BY <1>1, <2>1
<1> QED BY <1>2, <1>3

\* Every step keeps the types.
LEMMA TypesKept ==
  ASSUME TypeOK, PaidServiceKept, Next
  PROVE  TypeOK'
<1>1. orders' \in Seq(Order) /\ DOMAIN orders \subseteq DOMAIN orders'
  BY OrdersStay
<1>2. services' \in Seq([port : DOMAIN ports', source : DOMAIN orders'])
  BY PaidKept
<1>3. /\ ports' \in Seq(Port \cup {Gone})
      /\ usage' \in [Listens -> 0..Limit] /\ counters' \in [Listens -> 0..1]
      /\ loaded' \subseteq Listens /\ stray' \subseteq Listens
  BY PortsKept DEF PortsStep, PortRow, Traffic
<1>4. room' \in Budget
  BY RoomStep
<1>5. edited' \subseteq DOMAIN orders'
  BY <1>1, EditedStep
<1>6. /\ uploads' \subseteq [order : DOMAIN orders', proof : Nat]
      /\ files' \subseteq Nat
  <2>1. /\ uploads \subseteq [order : DOMAIN orders', proof : Nat]
        /\ files \subseteq Nat
    BY <1>1 DEF TypeOK
  <2>2. ASSUME NEW o \in DOMAIN orders, SaveProof(o)
        PROVE  /\ uploads' \subseteq [order : DOMAIN orders', proof : Nat]
               /\ files' \subseteq Nat
    <3>1. room.proofs \in Nat
      BY DEF TypeOK, Budget
    <3>2. /\ uploads' = uploads \cup {[order |-> o, proof |-> room.proofs]}
          /\ files' = files \cup {room.proofs}
      BY <2>2 DEF SaveProof, ProofName
    <3>3. [order |-> o, proof |-> room.proofs]
            \in [order : DOMAIN orders', proof : Nat]
      BY <1>1, <3>1
    <3> QED BY <2>1, <3>1, <3>2, <3>3
  <2>3. ASSUME NEW u \in uploads, SubmitFails(u)
        PROVE  uploads' \subseteq uploads /\ files' \subseteq files
    BY <2>3 DEF SubmitFails
  <2> QED BY <2>1, <2>2, <2>3, UploadsStep
<1> QED BY <1>1, <1>2, <1>3, <1>4, <1>5, <1>6 DEF TypeOK

\* The first state has the types.
LEMMA StartsTyped ==
  ASSUME Init
  PROVE  TypeOK /\ PaidServiceKept
<1>1. /\ orders \in Seq(Order) /\ DOMAIN orders = {}
      /\ services \in Seq([port : DOMAIN ports, source : DOMAIN orders])
      /\ DOMAIN services = {}
      /\ ports \in Seq(Port \cup {Gone}) /\ DOMAIN ports = {}
  BY EmptySeq, LenProperties DEF Init
<1>2. usage \in [Listens -> 0..Limit] /\ counters \in [Listens -> 0..1]
  BY CommerceAssumption DEF Init
<1>3. room \in Budget
  BY CommerceAssumption DEF Init
<1>4. TypeOK
  BY <1>1, <1>2, <1>3 DEF Init, TypeOK
<1>5. PaidServiceKept
  BY <1>1 DEF PaidServiceKept, Live
<1> QED BY <1>4, <1>5

\* Types, which need the services (a renewal's order names a service), and the
\* services, which need the types: both hold in every reachable state.
THEOREM PaidServicesAreKept == Spec => [](TypeOK /\ PaidServiceKept)
<1>1. Init => TypeOK /\ PaidServiceKept
  BY StartsTyped
<1>2. TypeOK /\ PaidServiceKept /\ [Next]_vars
        => TypeOK' /\ PaidServiceKept'
  <2> SUFFICES ASSUME TypeOK, PaidServiceKept, [Next]_vars
               PROVE  TypeOK' /\ PaidServiceKept'
    OBVIOUS
  <2>1. CASE Next
    BY <2>1, TypesKept, PaidKept
  <2>2. CASE UNCHANGED vars
    BY <2>2 DEF vars, TypeOK, PaidServiceKept, Live
  <2> QED BY <2>1, <2>2
<1> QED BY <1>1, <1>2, PTL DEF Spec

-----------------------------------------------------------------------------
(* Orders and their reviews. *)

\* Every row stays one that the schema and the code allow.
THEOREM CommerceTyped == Spec => []TypeOK
BY PaidServicesAreKept, PTL

\* What an order's page says agrees with the review of its proofs.
THEOREM ReviewsAgree == Spec => []ReviewsMatch
<1>1. Init => ReviewsMatch
  <2>1. Init => DOMAIN orders = {}
    BY EmptySeq, LenProperties DEF Init
  <2> QED BY <2>1 DEF ReviewsMatch
<1>2. TypeOK /\ PaidServiceKept /\ ReviewsMatch /\ [Next]_vars => ReviewsMatch'
  <2> SUFFICES ASSUME TypeOK, PaidServiceKept, ReviewsMatch, [Next]_vars
               PROVE  ReviewsMatch'
    OBVIOUS
  <2>1. \A o \in DOMAIN orders : ReviewMatches(orders[o])
    BY DEF ReviewsMatch, ReviewMatches
  <2>2. CASE Next
    <3>1. OrdersMove(orders, orders')
      BY <2>2, OrdersKept
    <3>2. \A o \in DOMAIN orders : ReviewMatches(orders'[o])
      BY <2>1, <3>1, ReviewMoved, TypesOf DEF OrdersMove
    <3>3. ASSUME NEW a, Fresh(a)
          PROVE  ReviewMatches(a)
      BY <3>3, EmptySeq DEF Fresh, ReviewMatches
    <3>4. \A o \in DOMAIN orders' : ReviewMatches(orders'[o])
      BY <3>1, <3>2, <3>3 DEF OrdersMove
    <3> QED BY <3>4 DEF ReviewsMatch, ReviewMatches
  <2>3. CASE UNCHANGED vars
    BY <2>3 DEF vars, ReviewsMatch
  <2> QED BY <2>2, <2>3
<1> QED BY <1>1, <1>2, PaidServicesAreKept, PTL DEF Spec

\* A fulfilled, cancelled or expired order is moved by no step.
THEOREM FinalOrdersStay == Spec => FinalStays
<1>1. TypeOK /\ PaidServiceKept /\ [Next]_vars
        => [\A o \in DOMAIN orders :
              orders[o].status \in Final =>
                orders'[o].status = orders[o].status /\ orders'[o].subs = orders[o].subs]_vars
  <2> SUFFICES ASSUME TypeOK, PaidServiceKept, Next, NEW o \in DOMAIN orders,
                      orders[o].status \in Final
               PROVE  orders'[o] = orders[o]
    OBVIOUS
  <2>1. \A i \in DOMAIN orders :
          orders[i].status \in Final => orders'[i] = orders[i]
    BY OrdersStay
  <2> QED BY <2>1
<1> QED BY <1>1, PaidServicesAreKept, PTL DEF Spec, FinalStays

\* A renewal is made only when its service has none that is open, and no order
\* opens again: there is never a second one to pay.
THEOREM OneRenewalAtATime == Spec => []OneOpenRenewal
<1>1. Init => OneOpenRenewal
  <2>1. Init => DOMAIN orders = {}
    BY EmptySeq, LenProperties DEF Init
  <2> QED BY <2>1 DEF OneOpenRenewal
<1>2. TypeOK /\ PaidServiceKept /\ OneOpenRenewal /\ [Next]_vars
        => OneOpenRenewal'
  <2> SUFFICES ASSUME TypeOK, PaidServiceKept, OneOpenRenewal, Next
               PROVE  OneOpenRenewal'
    BY DEF vars, OneOpenRenewal
  <2> SUFFICES ASSUME NEW o \in DOMAIN orders', NEW p \in DOMAIN orders',
                      orders'[o].kind = "renewal", orders'[p].kind = "renewal",
                      orders'[o].service = orders'[p].service,
                      orders'[o].status \in Open, orders'[p].status \in Open
               PROVE  o = p
    BY DEF OneOpenRenewal
  <2>1. \A i \in DOMAIN orders :
          orders'[i].status \in Open =>
            /\ orders[i].status \in Open
            /\ orders'[i].kind = orders[i].kind
            /\ orders'[i].service = orders[i].service
    BY OrdersStay DEF Open, Expirable
  <2>2. CASE o \in DOMAIN orders /\ p \in DOMAIN orders
    BY <2>1, <2>2 DEF OneOpenRenewal
  <2>3. ASSUME NEW i \in DOMAIN orders', NEW j \in DOMAIN orders',
               i \notin DOMAIN orders, i # j,
               orders'[i].kind = "renewal",
               orders'[i].service = orders'[j].service,
               orders'[j].status \in Open
        PROVE  FALSE
    <3>1. OrderStep
      <4>1. orders' # orders
        BY <2>3
      <4>2. CASE Fulfilment
        BY <2>3, <4>2, PurchaseFulfilled, RenewalFulfilled DEF Fulfilment
      <4> QED BY <4>1, <4>2, BooksSame DEF books
    <3>2. PICK s \in DOMAIN services :
            /\ CreateRenewal(s)
            /\ orders'[i].service = s
            /\ \A k \in DOMAIN orders' \ {i} :
                 k \in DOMAIN orders /\ orders'[k] = Expire(orders)[k]
      BY <2>3, <3>1, RenewalMade
    <3>3. /\ j \in DOMAIN Expire(orders)
          /\ Expire(orders)[j].service = s
          /\ Expire(orders)[j].status \in Open
      BY <2>3, <3>2, TypesOf, ExpireRows
    <3> QED BY <3>2, <3>3 DEF CreateRenewal, HasOpenRenewal
  <2> QED BY <2>2, <2>3
<1> QED BY <1>1, <1>2, PaidServicesAreKept, PTL DEF Spec

-----------------------------------------------------------------------------
(* Payment proofs.  ProofKept alone is not inductive: that a failed upload  *)
(* takes no stored file away needs the names to be each other's no more.    *)

ProofNames ==
  /\ \A u \in uploads : u.proof > room.proofs /\ u.proof \in files
  /\ \A u, v \in uploads : u.proof = v.proof => u = v
  /\ \A o \in DOMAIN orders : \A i \in DOMAIN orders[o].subs :
       /\ orders[o].subs[i].proof \in files
       /\ orders[o].subs[i].proof > room.proofs
       /\ \A u \in uploads : u.proof # orders[o].subs[i].proof

\* An order that may be paid becomes a submitted one by a submission alone.
LEMMA SubmittedBy ==
  ASSUME TypeOK, PaidServiceKept, Next, NEW o \in DOMAIN orders,
         orders[o].status \in Expirable,
         orders'[o].status = "payment_submitted"
  PROVE  \E u \in uploads :
           /\ Submit(u)
           /\ orders'[o].subs
                = Append(orders[o].subs, [proof |-> u.proof,
                                          review |-> "submitted"])
<1>1. /\ orders \in Seq(Order)
      /\ \A i \in DOMAIN orders : orders[i] \in Order
  BY TypesOf
<1>2. Expire(orders)[o].status # "payment_submitted"
  BY <1>1, ExpireRows DEF Expirable
<1>3. /\ Expire(orders) \in Seq(Order)
      /\ DOMAIN Expire(orders) = DOMAIN orders
  BY <1>1, ExpireRows
<1>4. CASE Fulfilment
  <2>1. \A q \in DOMAIN orders :
          FulfillPurchase(q) \/ FulfillRenewal(q) =>
            /\ orders'[q].status = "fulfilled"
            /\ \A i \in DOMAIN orders \ {q} : orders'[i] = Expire(orders)[i]
    BY PurchaseFulfilled, RenewalFulfilled
  <2> QED BY <1>2, <1>4, <2>1 DEF Fulfilment
<1>5. CASE ~OrderStep /\ ~Fulfilment
  BY <1>5, BooksSame DEF books, Expirable
<1>6. CASE CreatePurchase \/ (\E s \in DOMAIN services : CreateRenewal(s))
  <2>1. ASSUME NEW r, orders' = Append(Expire(orders), r)
        PROVE  orders'[o] = Expire(orders)[o]
    <3>1. Expire(orders) \in Seq(Order \cup {r})
      BY <1>3, SeqMonotonic
    <3> QED BY <1>3, <2>1, <3>1, RowAdded
  <2> QED BY <1>2, <1>6, <2>1 DEF CreatePurchase, CreateRenewal
<1>7. CASE ExpirePendingOrders
  BY <1>2, <1>7 DEF ExpirePendingOrders
<1>8. ASSUME NEW q \in DOMAIN orders, RejectOrder(q) \/ CancelOrder(q)
      PROVE  FALSE
  <2>1. Expire(orders) \in [DOMAIN orders -> Order]
    BY <1>3, RowsAre
  <2>2. CASE q # o
    BY <1>2, <1>8, <2>1, <2>2 DEF RejectOrder, CancelOrder
  <2>3. CASE q = o
    BY <1>8, <2>1, <2>3 DEF RejectOrder, CancelOrder, Order
  <2> QED BY <2>2, <2>3
<1>9. ASSUME NEW q \in DOMAIN orders, OrderDeadline(q)
      PROVE  FALSE
  <2>1. orders \in [DOMAIN orders -> Order]
    BY <1>1, RowsAre
  <2>2. orders'[o].status = orders[o].status
    BY <1>9, <2>1 DEF OrderDeadline, Order
  <2> QED BY <2>2 DEF Expirable
<1>10. ASSUME NEW u \in uploads, Submit(u)
       PROVE  orders'[o].subs
                = Append(orders[o].subs, [proof |-> u.proof,
                                          review |-> "submitted"])
  <2> DEFINE sub == [proof |-> u.proof, review |-> "submitted"]
  <2>1. /\ Expire(orders) \in [DOMAIN orders -> Order]
        /\ Expire(orders)[o].subs = orders[o].subs
    BY <1>1, <1>3, ExpireRows, RowsAre
  <2>2. orders' = [Expire(orders) EXCEPT ![u.order].status = "payment_submitted",
                                         ![u.order].subs = Append(@, sub)]
    BY <1>10 DEF Submit
  <2> HIDE DEF sub
  <2>3. CASE u.order # o
    <3>1. orders'[o] = Expire(orders)[o]
      <4> DEFINE x == Expire(orders)
      <4>1. x \in [DOMAIN orders -> Order]
        BY <2>1
      <4>2. orders' = [x EXCEPT ![u.order].status = "payment_submitted",
                                ![u.order].subs = Append(@, sub)]
        BY <2>2
      <4> HIDE DEF x
      <4>3. orders'[o] = x[o]
        BY <2>3, <4>1, <4>2
      <4> QED BY <4>3 DEF x
    <3> QED BY <1>2, <3>1
  <2>4. CASE u.order = o
    <3> DEFINE x == Expire(orders)
    <3>1. x \in [DOMAIN orders -> Order] /\ x[o].subs = orders[o].subs
      BY <2>1
    <3>2. orders' = [x EXCEPT ![u.order].status = "payment_submitted",
                              ![u.order].subs = Append(@, sub)]
      BY <2>2
    <3> HIDE DEF x
    <3>3. x[o] \in Order
      BY <3>1
    <3>4. orders'[o] = [x[o] EXCEPT !.status = "payment_submitted",
                                    !.subs = Append(x[o].subs, sub)]
      BY <2>4, <3>1, <3>2, <3>3 DEF Order
    <3>5. orders'[o].subs = Append(x[o].subs, sub)
      BY <3>3, <3>4 DEF Order
    <3> QED BY <3>1, <3>5 DEF sub
  <2> QED BY <2>3, <2>4 DEF sub
<1> QED BY <1>4, <1>5, <1>6, <1>7, <1>8, <1>9, <1>10 DEF OrderStep

\* Otherwise the proofs of an order stay as they are.
LEMMA ProofsMoved ==
  ASSUME NEW a \in Order, NEW b, OrderMoves(a, b)
  PROVE  \/ a.status \in Expirable /\ b.status = "payment_submitted"
         \/ \A i \in DOMAIN b.subs : /\ i \in DOMAIN a.subs
                                     /\ b.subs[i].proof = a.subs[i].proof
<1>1. a.subs \in Seq(Submission) /\ DOMAIN a.subs = 1..Len(a.subs)
  BY OrderShape, RowsAre
<1>2. ASSUME NEW verdict \in {"approved", "rejected"},
             b.subs = Reviewed(a.subs, verdict)
      PROVE  \A i \in DOMAIN b.subs : /\ i \in DOMAIN a.subs
                                      /\ b.subs[i].proof = a.subs[i].proof
  <2>1. /\ b.subs \in Seq(Submission)
        /\ Len(b.subs) = Len(a.subs)
        /\ \A i \in 1..Len(a.subs) : b.subs[i].proof = a.subs[i].proof
    BY <1>1, <1>2, ReviewedRows
  <2>2. DOMAIN b.subs = 1..Len(b.subs)
    BY <2>1, RowsAre
  <2> QED BY <1>1, <2>1, <2>2
<1>3. CASE \/ b = a
           \/ a.status \in Expirable /\ a.late
                /\ b = [a EXCEPT !.status = "expired"]
           \/ a.status \in Open /\ b = [a EXCEPT !.late = TRUE]
           \/ a.status \notin Final /\ b = [a EXCEPT !.status = "cancelled"]
  <2>1. b.subs = a.subs
    BY <1>3 DEF Order
  <2> QED BY <2>1
<1>4. CASE a.status \in Expirable /\ \E n \in Nat :
             b = [a EXCEPT !.status = "payment_submitted",
                !.subs = Append(@, [proof |-> n, review |-> "submitted"])]
  BY <1>4 DEF Order
<1>5. CASE /\ a.status = "payment_submitted"
           /\ b = [a EXCEPT !.status = "payment_rejected",
                            !.subs = Reviewed(@, "rejected")]
  BY <1>2, <1>5 DEF Order
<1>6. CASE a.status = "payment_submitted" /\ \E s \in Nat :
             b = [a EXCEPT !.status = "fulfilled", !.service = s,
                           !.subs = Reviewed(@, "approved")]
  BY <1>2, <1>6 DEF Order
<1> QED BY <1>3, <1>4, <1>5, <1>6 DEF OrderMoves

\* The proofs that are stored before a step stay on disk, and no upload takes
\* the name of one.
LEMMA ProofNamesKept ==
  ASSUME TypeOK, PaidServiceKept, ProofNames, Next
  PROVE  ProofNames'
<1>1. /\ orders \in Seq(Order)
      /\ \A o \in DOMAIN orders : orders[o] \in Order
      /\ \A u \in uploads : u.order \in DOMAIN orders /\ u.proof \in Nat
  BY TypesOf
<1>2. OrdersMove(orders, orders')
  BY OrdersKept
<1>3. /\ room.proofs \in Nat /\ room'.proofs \in Nat
      /\ room'.proofs <= room.proofs
      /\ \A o \in DOMAIN orders : SaveProof(o) => room'.proofs < room.proofs
  BY TypesOf, RoomStep DEF Budget
<1>4. \A o \in DOMAIN orders : \A i \in DOMAIN orders[o].subs :
        orders[o].subs[i].proof \in Nat
  <2>1. \A o \in DOMAIN orders : orders[o].subs \in Seq(Submission)
    BY <1>1, OrderShape
  <2>2. \A o \in DOMAIN orders : \A i \in DOMAIN orders[o].subs :
          orders[o].subs[i] \in Submission
    BY <2>1, RowsAre
  <2> QED BY <2>2 DEF Submission
\* What uploads and files are after the step, orders apart.
<1> DEFINE StillNamed ==
      /\ \A u \in uploads' : u.proof > room'.proofs /\ u.proof \in files'
      /\ \A u, v \in uploads' : u.proof = v.proof => u = v
      /\ \A o \in DOMAIN orders : \A i \in DOMAIN orders[o].subs :
           /\ orders[o].subs[i].proof \in files'
           /\ orders[o].subs[i].proof > room'.proofs
           /\ \A u \in uploads' : u.proof # orders[o].subs[i].proof
<1>5. StillNamed
  <2>1. CASE uploads' \subseteq uploads /\ files' = files
    BY <1>1, <1>3, <1>4, <2>1 DEF ProofNames
  <2>2. ASSUME NEW o \in DOMAIN orders, SaveProof(o)
        PROVE  StillNamed
    <3> DEFINE u == [order |-> o, proof |-> room.proofs]
    <3>1. /\ uploads' = uploads \cup {u}
          /\ files' = files \cup {room.proofs}
      BY <2>2 DEF SaveProof, ProofName
    <3>2. u.proof = room.proofs
      OBVIOUS
    <3> HIDE DEF u
    <3>3. room'.proofs < room.proofs
      BY <1>3, <2>2
    <3> QED BY <1>1, <1>3, <1>4, <3>1, <3>2, <3>3 DEF ProofNames
  <2>3. ASSUME NEW u \in uploads, SubmitFails(u)
        PROVE  StillNamed
    <3>1. uploads' = uploads \ {u} /\ files' = files \ {u.proof}
      BY <2>3 DEF SubmitFails
    <3> QED BY <1>1, <1>3, <1>4, <3>1 DEF ProofNames
  <2> QED BY <2>1, <2>2, <2>3, UploadsStep
\* The orders: only a submission brings a proof in, that of its upload.
<1>6. ASSUME NEW o \in DOMAIN orders', NEW i \in DOMAIN orders'[o].subs
      PROVE  /\ orders'[o].subs[i].proof \in files'
             /\ orders'[o].subs[i].proof > room'.proofs
             /\ \A u \in uploads' : u.proof # orders'[o].subs[i].proof
  <2>1. CASE o \notin DOMAIN orders
    <3>1. orders'[o].subs = <<>>
      BY <1>2, <2>1 DEF OrdersMove, Fresh
    <3> QED BY <1>6, <3>1
  <2>2. CASE /\ o \in DOMAIN orders
             /\ orders[o].status \in Expirable
             /\ orders'[o].status = "payment_submitted"
    <3>1. PICK u \in uploads :
            /\ Submit(u)
            /\ orders'[o].subs
                 = Append(orders[o].subs, [proof |-> u.proof,
                                           review |-> "submitted"])
      BY <2>2, SubmittedBy
    <3>2. uploads' = uploads \ {u} /\ files' = files /\ room' = room
      BY <3>1 DEF Submit
    <3>3. orders[o].subs \in Seq(Submission)
      BY <1>1, <2>2, OrderShape
    <3>4. CASE i \in DOMAIN orders[o].subs
      <4>1. orders'[o].subs[i] = orders[o].subs[i]
        BY <3>1, <3>3, <3>4
      <4> QED BY <1>5, <2>2, <3>4, <4>1
    <3>5. CASE i \notin DOMAIN orders[o].subs
      <4>1. orders'[o].subs[i].proof = u.proof
        BY <1>6, <3>1, <3>3, <3>5
      <4> QED BY <3>2, <4>1 DEF ProofNames
    <3> QED BY <3>4, <3>5
  <2>3. CASE /\ o \in DOMAIN orders
             /\ ~(orders[o].status \in Expirable
                  /\ orders'[o].status = "payment_submitted")
    <3>1. orders[o] \in Order /\ OrderMoves(orders[o], orders'[o])
      BY <1>1, <1>2, <2>3 DEF OrdersMove
    <3>2. /\ i \in DOMAIN orders[o].subs
          /\ orders'[o].subs[i].proof = orders[o].subs[i].proof
      BY <1>6, <2>3, <3>1, ProofsMoved
    <3> QED BY <1>5, <2>3, <3>2
  <2> QED BY <2>1, <2>2, <2>3
<1> QED BY <1>5, <1>6 DEF ProofNames

\* The file of a stored submission is never unlinked, whichever uploads overlap.
THEOREM ProofsAreKept == Spec => []ProofKept
<1>1. Init => ProofNames
  <2>1. Init => DOMAIN orders = {} /\ uploads = {}
    BY EmptySeq, LenProperties DEF Init
  <2> QED BY <2>1 DEF ProofNames
<1>2. TypeOK /\ PaidServiceKept /\ ProofNames /\ [Next]_vars => ProofNames'
  <2>1. CASE UNCHANGED vars
    BY <2>1 DEF vars, proofs, ProofNames
  <2> QED BY <2>1, ProofNamesKept
<1>3. ProofNames => ProofKept
  BY DEF ProofNames, ProofKept
<1> QED BY <1>1, <1>2, <1>3, PaidServicesAreKept, PTL DEF Spec

-----------------------------------------------------------------------------
(* Traffic of listening ports that no port has.  What the node may still    *)
(* count has to be known before the counters are read.                      *)

TrafficKnown ==
  /\ loaded \subseteq InUse \cup stray
  /\ \A l \in Listens \ InUse :
       usage[l] > 0 \/ counters[l] > 0 => l \in stray

\* Every step keeps TrafficKnown.
LEMMA TrafficKnownKept ==
  ASSUME TypeOK, PaidServiceKept, TrafficKnown, Next
  PROVE  TrafficKnown'
<1>1. /\ Apart(ports) /\ ports' \in Seq(PortRow)
      /\ usage' \in Traffic /\ counters' \in [Listens -> 0..1]
  BY PaidApart, PortsKept DEF PortsStep
<1>2. /\ ports \in Seq(PortRow) /\ usage \in Traffic
      /\ counters \in [Listens -> 0..1] /\ loaded \subseteq Listens
  BY TrafficTyped DEF TypeOK, PortRow
<1>3. InUse = Listening(ports) /\ InUse' = Listening(ports')
  BY DEF InUse, Live, Listening
\* Transactions that change ports.
<1>4. ASSUME NEW ps, NEW us, NEW moved, NEW touched,
             Changes(ps, us, moved, touched),
             NEW l \in Listens \ Listening(ports'), usage'[l] > 0
      PROVE  l \in stray \cup moved
  <2>1. \/ l \in moved
        \/ l \notin Listening(ports) /\ (usage[l] > 0 \/ counters[l] > 0)
    BY <1>4, ChangesEnd
  <2> QED BY <1>3, <2>1 DEF TrafficKnown
<1>5. Zero \in [Listens -> 0..1] /\ \A l \in Listens : ~(Zero[l] > 0)
  BY DEF Zero
<1>6. Served(ports') \subseteq Listening(ports')
  BY <1>1, ServedListens
<1>7. ASSUME NEW ps, NEW us, NEW moved, NEW touched,
             Changes(ps, us, moved, touched),
             stray' = {l \in stray \cup moved : usage'[l] > 0},
             loaded' = Served(ports'), counters' = Zero
      PROVE  TrafficKnown'
  BY <1>3, <1>4, <1>5, <1>6, <1>7 DEF TrafficKnown
<1>8. CASE AdminStep
  <2>1. PICK ps, us, moved, touched :
          Changes(ps, us, moved, touched) /\ Leaves(moved, touched)
    BY <1>1, <1>8, AdminChanges
  <2> QED BY <1>7, <2>1 DEF Leaves
<1>9. CASE Fulfilment
  <2>1. ASSUME NEW o \in DOMAIN orders, FulfillPurchase(o)
        PROVE  TrafficKnown'
    <3>1. PICK ps, us :
            /\ Changes(ps, us, {}, {})
            /\ stray' = {l \in stray : usage'[l] > 0}
            /\ loaded' = Served(ports')
            /\ counters' = Zero
      BY <1>1, <2>1, PurchaseChanges
    <3>2. stray' = {l \in stray \cup {} : usage'[l] > 0}
      BY <3>1
    <3> QED BY <1>7, <3>1, <3>2
  <2>2. ASSUME NEW o \in DOMAIN orders, FulfillRenewal(o)
        PROVE  TrafficKnown'
    <3> DEFINE p == services[orders[o].service].port
    <3>1. orders[o].service \in DOMAIN services
      BY <2>2, RenewalFulfilled
    <3>2. /\ \E ps, us : Changes(ps, us, {}, {p})
          /\ stray' = {l \in stray : usage'[l] > 0}
          /\ loaded' = Served(ports')
          /\ counters' = Zero
      BY <1>1, <2>2, <3>1, RenewalChanges
    <3> HIDE DEF p
    <3>3. stray' = {l \in stray \cup {} : usage'[l] > 0}
      BY <3>2
    <3> QED BY <1>7, <3>2, <3>3
  <2> QED BY <1>9, <2>1, <2>2 DEF Fulfilment
<1>10. CASE Boot
  <2>1. PICK ps, us, moved :
          /\ Changes(ps, us, moved, {})
          /\ stray' = stray \cup moved
          /\ Listening(ports) \subseteq Listening(ports') \cup moved
          /\ loaded' = Served(ports') \/ loaded' = loaded
          /\ \A l \in Listens : counters'[l] > 0 => counters[l] > 0
    BY <1>1, <1>10, BootChanges
  <2>2. loaded' \subseteq Listening(ports') \cup stray'
    BY <1>3, <1>6, <2>1 DEF TrafficKnown
  <2>3. ASSUME NEW l \in Listens \ Listening(ports'), counters'[l] > 0
        PROVE  l \in stray'
    BY <1>3, <2>1, <2>3 DEF TrafficKnown
  <2>4. ASSUME NEW l \in Listens \ Listening(ports'), usage'[l] > 0
        PROVE  l \in stray'
    BY <1>4, <2>1, <2>4
  <2> QED BY <1>3, <2>2, <2>3, <2>4 DEF TrafficKnown
\* Steps that make and delete no port.
<1>11. ASSUME InUse' = InUse, UNCHANGED <<loaded, stray>>,
              \A l \in Listens :
                usage'[l] > 0 \/ counters'[l] > 0 =>
                  usage[l] > 0 \/ counters[l] > 0 \/ l \in loaded
       PROVE  TrafficKnown'
  BY <1>11 DEF TrafficKnown
<1>12. CASE SyncTraffic
  <2>1. /\ InUse' = InUse
        /\ UNCHANGED <<loaded, stray>>
    BY <1>3, <1>12 DEF SyncTraffic
  <2>2. PICK read \in StatsReads(usage) :
          usage' = read.usage /\ counters' = read.counters
    BY <1>12 DEF SyncTraffic
  <2>3. \A l \in Listens : /\ read.usage[l] > 0 => usage[l] > 0 \/ counters[l] > 0
                           /\ read.counters[l] > 0 => counters[l] > 0
    BY <1>2, ReadTraffic
  <2> QED BY <1>11, <2>1, <2>2, <2>3
<1>13. ASSUME NEW l \in loaded, Carry(l)
       PROVE  TrafficKnown'
  <2>1. InUse' = InUse /\ UNCHANGED <<loaded, stray, usage>>
    BY <1>3, <1>13 DEF Carry
  <2>2. counters' = [counters EXCEPT ![l] = 1]
    BY <1>13 DEF Carry
  <2>3. \A k \in Listens : counters'[k] > 0 => counters[k] > 0 \/ k \in loaded
    BY <1>2, <2>2
  <2> QED BY <1>11, <2>1, <2>3
<1>14. ASSUME NEW p \in Live, PortFallsDue(p)
       PROVE  TrafficKnown'
  <2>1. UNCHANGED <<usage, counters, loaded, stray>>
    BY <1>14 DEF PortFallsDue, node
  <2>2. Listening(ports') = Listening(ports)
    <3> DEFINE r == [ports[p] EXCEPT !.due = TRUE]
    <3>1. r \in Port /\ r.listen = ports[p].listen
      BY LivePort DEF Port
    <3>2. ports' = [ports EXCEPT ![p] = r]
      BY <1>14, LivePort DEF PortFallsDue
    <3>3. r # Gone /\ ports[p] # Gone /\ p \in DOMAIN ports
      BY <3>1, PortShape, LivePort DEF PortRow
    <3> HIDE DEF r
    <3>4. /\ DOMAIN ports' = DOMAIN ports
          /\ \A q \in DOMAIN ports : ports'[q] = IF q = p THEN r ELSE ports[q]
      BY <3>2, <3>3, LivePort
    <3>5. \A q \in DOMAIN ports : /\ ports'[q] # Gone <=> ports[q] # Gone
                                  /\ ports'[q].listen = ports[q].listen
      BY <3>1, <3>3, <3>4
    <3> QED BY <3>4, <3>5 DEF Listening
  <2> QED BY <1>3, <1>11, <2>1, <2>2
<1>15. CASE UNCHANGED <<ports, usage, counters, loaded, stray>>
  BY <1>3, <1>11, <1>15
<1>16. CASE OrderStep \/ (\E o \in DOMAIN orders : SaveProof(o))
            \/ (\E u \in uploads : SubmitFails(u))
  BY <1>15, <1>16
  DEF OrderStep, CreatePurchase, ExpirePendingOrders, CreateRenewal,
      RejectOrder, CancelOrder, OrderDeadline, Submit, SaveProof, SubmitFails,
      node
<1> QED BY <1>8, <1>9, <1>10, <1>12, <1>13, <1>14, <1>16, NextKinds

\* Traffic is charged to a listening port without a port only where an admin
\* moved its port away, or a boot deleted it before it read the counters.
THEOREM StrayTraffic == Spec => []NoStrayUsage
<1>1. Init => TrafficKnown
  <2>1. Init => /\ loaded = {}
                /\ \A l \in Listens : usage[l] = 0 /\ counters[l] = 0
    BY DEF Init
  <2> QED BY <2>1 DEF TrafficKnown
<1>2. TypeOK /\ PaidServiceKept /\ TrafficKnown /\ [Next]_vars => TrafficKnown'
  <2>1. CASE UNCHANGED vars
    BY <2>1 DEF vars, node, TrafficKnown, InUse, Live
  <2> QED BY <2>1, TrafficKnownKept
<1>3. TrafficKnown => NoStrayUsage
  BY DEF TrafficKnown, NoStrayUsage
<1> QED BY <1>1, <1>2, <1>3, PaidServicesAreKept, PTL DEF Spec

-----------------------------------------------------------------------------
(* Renewals. *)

\* A renewal becomes fulfilled by its own fulfilment alone.
LEMMA RenewalFulfils ==
  ASSUME TypeOK, PaidServiceKept, Next, NEW o \in DOMAIN orders,
         Fulfils(o, "renewal")
  PROVE  FulfillRenewal(o)
<1>1. /\ orders[o].kind = "renewal"
      /\ orders[o].status # "fulfilled"
      /\ orders'[o].status = "fulfilled"
  BY DEF Fulfils
<1>2. DOMAIN orders \subseteq DOMAIN orders'
  BY OrdersStay
<1>3. CASE ~Fulfilment
  BY <1>1, <1>2, <1>3, OthersFulfilNothing DEF NoneFulfilled
<1>4. ASSUME NEW q \in DOMAIN orders, FulfillPurchase(q)
      PROVE  FALSE
  <2>1. q # o
    BY <1>1, <1>4 DEF FulfillPurchase
  <2>2. orders'[o] = Expire(orders)[o]
    BY <1>4, <2>1, PurchaseFulfilled
  <2> QED BY <1>1, <2>2, OthersExpire
<1>5. ASSUME NEW q \in DOMAIN orders, FulfillRenewal(q), q # o
      PROVE  FALSE
  <2>1. orders'[o] = Expire(orders)[o]
    BY <1>5, RenewalFulfilled
  <2> QED BY <1>1, <2>1, OthersExpire
<1> QED BY <1>3, <1>4, <1>5 DEF Fulfilment

\* A renewal that is fulfilled runs at once, on the customer's listening port
\* and with its quota unused, though the same transaction stops what is due.
THEOREM RenewalsRun == Spec => RenewalRuns
<1>1. TypeOK /\ PaidServiceKept /\ [Next]_vars
        => [\A o \in DOMAIN orders :
              Fulfils(o, "renewal") =>
                LET p == services[orders[o].service].port
                IN Runs(p) /\ ports'[p].listen = ports[p].listen
                           /\ usage'[ports[p].listen] = 0]_vars
  <2> SUFFICES ASSUME TypeOK, PaidServiceKept, Next, NEW o \in DOMAIN orders,
                      Fulfils(o, "renewal")
               PROVE  LET p == services[orders[o].service].port
                      IN Runs(p) /\ ports'[p].listen = ports[p].listen
                                 /\ usage'[ports[p].listen] = 0
    OBVIOUS
  <2>1. FulfillRenewal(o)
    BY RenewalFulfils
  <2>2. orders[o].service \in DOMAIN services
    BY <2>1, RenewalFulfilled
  <2> QED BY <2>1, <2>2, PaidApart, RenewalChanges
<1> QED BY <1>1, PaidServicesAreKept, PTL DEF Spec, RenewalRuns

(***************************************************************************)
(* Whether a service has run out is tested when its renewal is made.  That *)
(* it still has when the renewal is fulfilled, much later, holds because   *)
(* nothing in between resets the port unless an admin does: not the other  *)
(* transactions, for what they stop stays due or spent, and not another    *)
(* renewal, for there is none (OneRenewalAtATime).                         *)
(***************************************************************************)
RenewalsRanOut ==
  \A o \in DOMAIN orders :
    orders[o].kind = "renewal" /\ orders[o].status \in Open =>
      o \in edited \/ Renewable(ports[services[orders[o].service].port])

\* A service, once made, is the same row.
LEMMA ServicesStay ==
  ASSUME TypeOK, PaidServiceKept, Next, NEW s \in DOMAIN services
  PROVE  services'[s] = services[s]
<1>1. CASE ~Fulfilment
  BY <1>1, OthersFulfilNothing
<1>2. CASE Fulfilment
  BY <1>2, PurchaseFulfilled, RenewalFulfilled DEF Fulfilment
<1> QED BY <1>1, <1>2

\* A customer's port that has run out stays so, unless a renewal or an admin
\* touched it.
LEMMA RunOutStays ==
  ASSUME TypeOK, PaidServiceKept, Next, NEW p \in DOMAIN ports,
         ports[p].service # 0, Renewable(ports[p])
  PROVE  \/ ports'[p] # Gone /\ (ports'[p].due \/ Spent(ports'[p], usage'))
         \/ RenewalsOf(p) \subseteq edited'
         \/ \E q \in DOMAIN orders :
              FulfillRenewal(q) /\ services[orders[q].service].port = p
<1>0. Apart(ports) /\ ports[p] # Gone
  BY PaidApart DEF Renewable
<1>1. ports'[p] # Gone
  BY <1>0, PortsKept DEF PortsStep
<1>2. ASSUME NEW ps, NEW us, NEW moved, NEW touched,
             Changes(ps, us, moved, touched), p \notin touched
      PROVE  ports'[p].due \/ Spent(ports'[p], usage')
  BY <1>0, <1>2, ChangesEnd
<1>3. CASE AdminStep
  <2>1. PICK ps, us, moved, touched :
          Changes(ps, us, moved, touched) /\ Leaves(moved, touched)
    BY <1>0, <1>3, AdminChanges
  <2>2. p \in touched => RenewalsOf(p) \subseteq edited'
    BY <2>1 DEF Leaves
  <2> QED BY <1>1, <1>2, <2>1, <2>2
<1>4. CASE Boot
  BY <1>0, <1>1, <1>2, <1>4, BootChanges
<1>5. CASE Fulfilment
  <2>1. ASSUME NEW q \in DOMAIN orders, FulfillPurchase(q)
        PROVE  ports'[p].due \/ Spent(ports'[p], usage')
    BY <1>0, <1>2, <2>1, PurchaseChanges
  <2>2. ASSUME NEW q \in DOMAIN orders, FulfillRenewal(q),
               services[orders[q].service].port # p
        PROVE  ports'[p].due \/ Spent(ports'[p], usage')
    <3> DEFINE k == services[orders[q].service].port
    <3>1. orders[q].service \in DOMAIN services
      BY <2>2, RenewalFulfilled
    <3>2. \E ps, us : Changes(ps, us, {}, {k})
      BY <1>0, <2>2, <3>1, RenewalChanges
    <3>3. p # k
      BY <2>2
    <3> HIDE DEF k
    <3> QED BY <1>2, <3>2, <3>3
  <2> QED BY <1>1, <1>5, <2>1, <2>2 DEF Fulfilment
<1>6. CASE SyncTraffic
  <2>1. PICK read \in StatsReads(usage) : usage' = read.usage
    BY <1>6 DEF SyncTraffic
  <2>2. /\ usage \in Traffic /\ usage' \in Traffic
        /\ \A l \in Listens : usage'[l] >= usage[l]
    BY <2>1, TrafficTyped, ReadTraffic
  <2>3. ports' = ports
    BY <1>6 DEF SyncTraffic
  <2>4. ports[p].listen \in Listens
    BY <1>0, LivePort DEF Live
  <2>5. Spent(ports[p], usage) => Spent(ports[p], usage')
    BY <2>2, <2>4, CommerceAssumption DEF Spent, Traffic
  <2> QED BY <1>1, <2>3, <2>5 DEF Renewable
<1>7. CASE UNCHANGED <<ports, usage>>
  BY <1>1, <1>7 DEF Renewable
<1>8. ASSUME NEW q \in Live, PortFallsDue(q)
      PROVE  ports'[p].due \/ Spent(ports'[p], usage')
  <2>1. /\ ports \in [DOMAIN ports -> PortRow]
        /\ ports[q] \in Port /\ q \in DOMAIN ports
    BY LivePort
  <2>2. ports' = [ports EXCEPT ![q] = [ports[q] EXCEPT !.due = TRUE]]
    BY <1>8, <2>1 DEF PortFallsDue
  <2>3. usage' = usage
    BY <1>8 DEF PortFallsDue
  <2>4. CASE q = p
    <3>1. ports'[p] = [ports[q] EXCEPT !.due = TRUE]
      BY <2>1, <2>2, <2>4
    <3> QED BY <2>1, <3>1 DEF Port
  <2>5. CASE q # p
    <3>1. ports'[p] = ports[p]
      BY <2>1, <2>2, <2>5
    <3> QED BY <2>3, <3>1 DEF Renewable
  <2> QED BY <2>4, <2>5
<1>9. CASE OrderStep \/ (\E l \in loaded : Carry(l))
           \/ (\E o \in DOMAIN orders : SaveProof(o))
           \/ (\E u \in uploads : SubmitFails(u))
  BY <1>7, <1>9
  DEF OrderStep, CreatePurchase, ExpirePendingOrders, CreateRenewal,
      RejectOrder, CancelOrder, OrderDeadline, Submit, Carry, SaveProof,
      SubmitFails
<1> QED BY <1>1, <1>3, <1>4, <1>5, <1>6, <1>8, <1>9, NextKinds

\* Every step keeps RenewalsRanOut.
LEMMA RanOutKept ==
  ASSUME TypeOK, PaidServiceKept, OneOpenRenewal, RenewalsRanOut, Next
  PROVE  RenewalsRanOut'
<1> SUFFICES ASSUME NEW o \in DOMAIN orders', orders'[o].kind = "renewal",
                    orders'[o].status \in Open, o \notin edited'
             PROVE  LET r == ports'[services'[orders'[o].service].port]
                    IN r # Gone /\ (r.due \/ Spent(r, usage'))
  BY DEF RenewalsRanOut, Renewable
\* The renewal is made by this step.
<1>1. CASE o \notin DOMAIN orders
  <2>1. OrderStep
    <3>1. orders' # orders
      BY <1>1
    <3>2. CASE Fulfilment
      BY <1>1, <3>2, PurchaseFulfilled, RenewalFulfilled DEF Fulfilment
    <3> QED BY <3>1, <3>2, BooksSame DEF books
  <2>2. PICK s \in DOMAIN services : CreateRenewal(s) /\ orders'[o].service = s
    BY <1>1, <2>1, RenewalMade
  <2>3. /\ UNCHANGED <<services, ports, usage>>
        /\ Renewable(ports[services[s].port])
    BY <2>2 DEF CreateRenewal, RenewalAllowed
  <2> QED BY <2>2, <2>3 DEF Renewable
\* The renewal was open.
<1>2. CASE o \in DOMAIN orders
  <2> DEFINE s == orders[o].service
             p == services[s].port
  <2>1. /\ orders[o].status \in Open
        /\ orders[o].kind = "renewal"
        /\ orders'[o].service = s
    BY <1>2, OrdersStay DEF Open, Expirable
  <2>2. /\ s \in DOMAIN services /\ s \in Nat \ {0}
        /\ p \in DOMAIN ports
        /\ ports[p].service = s
    <3>1. s \in DOMAIN services
      BY <1>2, <2>1 DEF PaidServiceKept
    <3>2. s \in Nat \ {0} /\ p \in DOMAIN ports
      BY <3>1, TypesOf
    <3>3. ports[p].service = s
      BY <3>1 DEF PaidServiceKept
    <3> QED BY <3>1, <3>2, <3>3
  <2>3. services'[s] = services[s]
    BY <2>2, ServicesStay
  <2>4. Renewable(ports[p])
    BY <1>2, <2>1, EditedStep DEF RenewalsRanOut
  <2>5. ~(RenewalsOf(p) \subseteq edited')
    BY <1>2, <2>1 DEF RenewalsOf
  <2>6. ASSUME NEW q \in DOMAIN orders, FulfillRenewal(q),
               services[orders[q].service].port = p
        PROVE  FALSE
    <3>1. /\ orders[q].service \in DOMAIN services
          /\ orders[q].kind = "renewal"
          /\ orders[q].status \in Open
          /\ orders'[q].status = "fulfilled"
      BY <2>6, RenewalFulfilled DEF FulfillRenewal, Open
    <3>2. orders[q].service = s
      BY <2>2, <2>6, <3>1 DEF PaidServiceKept
    <3>3. q = o
      BY <1>2, <2>1, <3>1, <3>2 DEF OneOpenRenewal
    <3> QED BY <3>1, <3>3 DEF Open, Expirable
  <2>7. ports'[p] # Gone /\ (ports'[p].due \/ Spent(ports'[p], usage'))
    <3>1. ports[p].service # 0
      BY <2>2
    <3> HIDE DEF p, s
    <3> QED BY <2>2, <2>4, <2>5, <2>6, <3>1, RunOutStays
  <2> QED BY <2>1, <2>3, <2>7
<1> QED BY <1>1, <1>2

\* A service is renewed only while it is expired or out of quota, unless an
\* admin changed its port or reset its traffic since the renewal was made.
THEOREM RenewedWhenRunOut == Spec => RenewsWhatRanOut
<1>1. Init => RenewalsRanOut
  <2>1. Init => DOMAIN orders = {}
    BY EmptySeq, LenProperties DEF Init
  <2> QED BY <2>1 DEF RenewalsRanOut
<1>2. TypeOK /\ PaidServiceKept /\ OneOpenRenewal /\ RenewalsRanOut /\ [Next]_vars
        => RenewalsRanOut'
  <2>1. CASE UNCHANGED vars
    BY <2>1 DEF vars, RenewalsRanOut, Renewable, Spent
  <2> QED BY <2>1, RanOutKept
<1>3. TypeOK /\ PaidServiceKept /\ RenewalsRanOut /\ [Next]_vars
        => [\A o \in DOMAIN orders :
              Fulfils(o, "renewal") =>
                o \in edited
                  \/ Renewable(ports[services[orders[o].service].port])]_vars
  <2> SUFFICES ASSUME TypeOK, PaidServiceKept, RenewalsRanOut, Next,
                      NEW o \in DOMAIN orders, Fulfils(o, "renewal")
               PROVE  o \in edited
                        \/ Renewable(ports[services[orders[o].service].port])
    OBVIOUS
  <2>1. orders[o].kind = "renewal" /\ orders[o].status = "payment_submitted"
    BY RenewalFulfils DEF FulfillRenewal
  <2> QED BY <2>1 DEF RenewalsRanOut, Open
<1> QED BY <1>1, <1>2, <1>3, PaidServicesAreKept, OneRenewalAtATime,
           PTL DEF Spec, RenewsWhatRanOut

=============================================================================
