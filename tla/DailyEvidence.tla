---------------------------- MODULE DailyEvidence ----------------------------
(***************************************************************************)
(* What the daily report says of a node and what it can know: Prometheus   *)
(* scrapes the panel and the node every step, rules.py classifies the      *)
(* scrapes of the report's window, and the attribution sampler             *)
(* (xray_stats.py) reads Xray's counters now and then into the ops         *)
(* database, from which rules.py attributes the window's traffic.          *)
(*                                                                         *)
(* Time is counted in scrapes: the i-th tick is one SCRAPE_STEP_SECONDS    *)
(* long and holds what was true of the node at its scrape and what the     *)
(* scrape saw of it: whether the service was down, and what the panel told *)
(* of it.  The panel asks the node, or tells the answer before once more,  *)
(* or cannot ask it and tells that it is down.  A counter is one (user or  *)
(* inbound, direction).                                                    *)
(***************************************************************************)
EXTENDS Integers, Sequences, FiniteSets

CONSTANTS
    MaxTick,          \* bound of the history
    Correlation,      \* CORRELATION_WINDOW_SECONDS, in ticks
    Padding,          \* xray_stats_window_padding_seconds, in ticks
    Samplers,         \* sampling processes: the service and an operator's run
    EvidenceBudgets   \* bounds, one record per scenario: tick, down, blind,
                      \* cut, stale, lost, sick, fallback, load, restart,
                      \* sample, fail

ASSUME EvidenceAssumption ==
    MaxTick \in Nat /\ Correlation \in Nat /\ Padding \in Nat

VARIABLES
    ticks,          \* the history, one record a tick
    xray,           \* the counter in Xray, and all the bytes it ever counted
    asked,          \* history: how often it was asked for
    sampler,        \* what each sampling process is doing
    samples,        \* xray_traffic_samples, with the bytes carried when read
    crossed,        \* history: a read was overtaken by one asked for later
    evidenceLeft    \* what is left of the bounds

evidenceVars == <<ticks, xray, asked, sampler, samples, crossed, evidenceLeft>>

Waiting == [pc |-> "wait", at |-> 0, nth |-> 0]
Clock == Len(ticks)

EvidenceInit ==
    /\ evidenceLeft \in EvidenceBudgets
    /\ ticks = <<>>
    /\ xray = [value |-> 0, carried |-> 0]
    /\ asked = 0
    /\ sampler = [p \in Samplers |-> Waiting]
    /\ samples = {}
    /\ crossed = FALSE

SpendEvidence(what) == /\ evidenceLeft[what] > 0
                       /\ evidenceLeft' = [evidenceLeft EXCEPT ![what] = @ - 1]

-----------------------------------------------------------------------------
(* The window's scrapes, as Prometheus answers a range query with both ends. *)

Stamps(first, last) == {i \in DOMAIN ticks : first <= i /\ i <= last}

\* xray_panel_data_plane_running / xray_panel_ai_node_running, from the panel.
Running(start, end) == {i \in Stamps(start, end - 1) : ticks[i].panel}

\* remote_socket_running: not running, or SSH or its answer failed.
Stopped(i) == ticks[i].down \/ ticks[i].told = "failed"

\* _data_plane_running_cached: the tick at which the answer shown at i was asked.
AskedAt(i) == IF ticks[i].told = "cached" THEN i - 1 ELSE i

\* The metric that scrape i saw is 0.
Low(i) == Stopped(AskedAt(i))

\* The node exporter's "up": 0 when its scrape failed.
Target(start, end) == {i \in Stamps(start, end) : ticks[i].node # "absent"}

\* Mutant: a coverage of 0.80 is enough.
SparseAt80(stamps, start, end) == 10 * Cardinality(stamps) < 8 * (end - start)

\* _coverage(points, start, end) < TELEMETRY_MIN_COVERAGE
Sparse(stamps, start, end) == 10 * Cardinality(stamps) < 9 * (end - start)

\* Mutant: a gap between two bad points does not end the interval.
ExtendAcross(acc, i, bad) ==
    IF bad THEN [acc EXCEPT !.open = Append(@, i)]
    ELSE [done |-> IF Len(acc.open) >= 2 THEN Append(acc.done, acc.open) ELSE acc.done,
          open |-> <<>>]

\* One step of _intervals: the points are walked in time; a bad one extends
\* the current interval unless more than one and a half steps lie between.
Extend(acc, i, bad) ==
    LET open == acc.open # <<>>
        near == ~open \/ i - acc.open[Len(acc.open)] <= 1
        kept == IF Len(acc.open) >= 2 THEN Append(acc.done, acc.open) ELSE acc.done
    IN IF bad /\ near THEN [acc EXCEPT !.open = Append(@, i)]
       ELSE [done |-> kept, open |-> IF bad THEN <<i>> ELSE <<>>]

\* _intervals(running, stopped, ...): what it holds after each point of the window.
Walk(start, end) ==
    LET seen == Running(start, end)
        walk[i \in start - 1 .. end - 1] ==
            IF i < start THEN [done |-> <<>>, open |-> <<>>]
            ELSE IF i \notin seen THEN walk[i - 1]
            ELSE Extend(walk[i - 1], i, Low(i))
    IN walk

\* The intervals that it returns, of SERVICE_DOWN_MIN_SAMPLES points at least.
Downtime(start, end) ==
    LET w == Walk(start, end)[end - 1]
        all == IF Len(w.open) >= 2 THEN Append(w.done, w.open) ELSE w.done
    IN {[first |-> all[n][1], last |-> all[n][Len(all[n])], samples |-> Len(all[n])] :
           n \in DOMAIN all}

\* OPS-F003: the panel showed DNS off the primary within CORRELATION_WINDOW of
\* a probe that the panel showed as failed.
DnsFault(start, end) ==
    \E i \in Running(start, end), j \in Stamps(start, end) :
        /\ ticks[i].backup
        /\ ticks[j].panel /\ ticks[j].sick
        /\ i - j <= Correlation /\ j - i <= Correlation

\* OPS-F004, from _route_fallback: the manager's history, which needs no scrape.
RouteFault(start, end) == \E i \in Stamps(start, end - 1) : ticks[i].fallback

\* The sources that do not suffice for a verdict.
Missing(start, end) ==
    LET target == Target(start, end) IN
    (IF Sparse(target \ {end}, start, end) \/ \E i \in target \ {end} : ticks[i].node = "failed"
     THEN {"target_scrape"} ELSE {})
    \cup (IF Sparse(Running(start, end), start, end) THEN {"running"} ELSE {})

\* _classify
Classify(role, start, end) ==
    IF \/ Downtime(start, end) # {}
       \/ role = "normal" /\ DnsFault(start, end)
       \/ role = "ai" /\ RouteFault(start, end)
    THEN "fault"
    ELSE IF Missing(start, end) # {} THEN "unknown"
    ELSE "normal"

\* classify_report: the worst of the nodes.
Overall(start, end) ==
    LET of == {Classify(role, start, end) : role \in {"normal", "ai"}}
    IN IF "fault" \in of THEN "fault" ELSE IF "unknown" \in of THEN "unknown" ELSE "normal"

-----------------------------------------------------------------------------
(* The attribution of the window's traffic.                                 *)

\* What query_xray_traffic_samples returns, in the order of observed_at.
Queried(start, end) ==
    LET in == {s \in samples : start - Padding <= s.at /\ s.at <= end + Padding}
    IN [n \in 1 .. Cardinality(in) |->
          CHOOSE s \in in : Cardinality({t \in in : t.nth < s.nth}) = n - 1]

\* _select_counter_window: the last one before, those inside, the first after.
Selected(start, end) ==
    LET q == Queried(start, end)
        before == {n \in DOMAIN q : q[n].at < start}
        after == {n \in DOMAIN q : q[n].at > end}
    IN {n \in DOMAIN q : /\ \A b \in before : n \in before => b <= n
                         /\ \A a \in after : n \in after => n <= a}

\* Mutant: a reset adds what the counter stood at before.
GrownBack(was, is) == IF is >= was THEN is - was ELSE was

\* From one reading to the next: less than before is a counter that was reset.
Grown(was, is) == IF is >= was THEN is - was ELSE is

\* What the selected point n adds to the one selected before it.
GrownAt(q, selected, n) ==
    LET prior == selected \cap 1 .. n - 1
        last == CHOOSE m \in prior : \A k \in prior : k <= m
    IN IF prior = {} THEN 0 ELSE Grown(q[last].value, q[n].value)

\* _counter_increase_with_resets over the selected points of q.
CounterIncrease(q, selected) ==
    LET sum[n \in 0 .. Len(q)] ==
            IF n = 0 THEN 0
            ELSE sum[n - 1] + (IF n \in selected THEN GrownAt(q, selected, n) ELSE 0)
    IN sum[Len(q)]

\* _xray_attribution, of one counter.
Attributed(start, end) == CounterIncrease(Queried(start, end), Selected(start, end))

-----------------------------------------------------------------------------
(* A tick: what is true of the node, and what the scrapes see of it.        *)

Cost(holds, what, left) == IF holds THEN [left EXCEPT ![what] = @ - 1] ELSE left

Tick(now) ==
    LET one == Cost(now.down, "down", Cost(~now.panel, "blind",
                 Cost(now.told = "failed", "cut", Cost(now.told = "cached", "stale",
                 Cost(now.node # "up", "lost", Cost(now.backup \/ now.sick, "sick",
                 Cost(now.fallback, "fallback", evidenceLeft)))))))
    IN /\ Clock < MaxTick /\ evidenceLeft.tick > 0
       \* An answer is as old as a scrape interval at most: it is shown again once.
       /\ now.told = "cached" => Clock > 0 /\ ticks[Clock].told # "cached"
       /\ \A what \in DOMAIN one : one[what] >= 0
       /\ evidenceLeft' = [one EXCEPT !.tick = @ - 1]
       /\ ticks' = Append(ticks, now)
       /\ UNCHANGED <<xray, asked, sampler, samples, crossed>>

Scrapes == [down : BOOLEAN, told : {"fresh", "cached", "failed"}, panel : BOOLEAN,
            node : {"up", "failed", "absent"}, backup : BOOLEAN, sick : BOOLEAN, fallback : BOOLEAN]

(* Xray's counters, and the sampler, which notes the time, asks over SSH,   *)
(* and stores what it was told.                                             *)

Carry ==
    /\ SpendEvidence("load")
    /\ xray' = [value |-> xray.value + 1, carried |-> xray.carried + 1]
    /\ UNCHANGED <<ticks, asked, sampler, samples, crossed>>

XrayRestarts ==
    /\ SpendEvidence("restart")
    /\ xray' = [xray EXCEPT !.value = 0]
    /\ UNCHANGED <<ticks, asked, sampler, samples, crossed>>

\* observed_at = utc_now()
Observe(p) ==
    /\ sampler[p].pc = "wait"
    /\ SpendEvidence("sample")
    /\ asked' = asked + 1
    /\ sampler' = [sampler EXCEPT ![p] = [pc |-> "ask", at |-> Clock, nth |-> asked + 1]]
    /\ UNCHANGED <<ticks, xray, samples, crossed>>

\* fetch_xray_debug_vars, parse_xray_debug_vars, insert_xray_traffic_samples.
Store(p) ==
    /\ sampler[p].pc = "ask"
    /\ samples' = samples \cup {[at |-> sampler[p].at, nth |-> sampler[p].nth,
                                 value |-> xray.value, carried |-> xray.carried]}
    /\ crossed' = (crossed \/ \E s \in samples : s.nth > sampler[p].nth)
    /\ sampler' = [sampler EXCEPT ![p] = Waiting]
    /\ UNCHANGED <<ticks, xray, asked, evidenceLeft>>

\* SSH, HTTP, JSON or SQLite fails: nothing is stored of this source.
SampleFails(p) ==
    /\ sampler[p].pc = "ask"
    /\ SpendEvidence("fail")
    /\ sampler' = [sampler EXCEPT ![p] = Waiting]
    /\ UNCHANGED <<ticks, xray, asked, samples, crossed>>

EvidenceNext ==
    \/ \E now \in Scrapes : Tick(now)
    \/ Carry
    \/ XrayRestarts
    \/ \E p \in Samplers : Observe(p) \/ Store(p) \/ SampleFails(p)

EvidenceSpec == EvidenceInit /\ [][EvidenceNext]_evidenceVars

-----------------------------------------------------------------------------
EvidenceTypeOK ==
    /\ ticks \in Seq(Scrapes)
    /\ xray.carried \in Nat /\ xray.value \in 0 .. xray.carried
    /\ \A s \in samples : /\ s.at \in 0 .. Clock /\ s.nth \in 1 .. asked
                          /\ s.value \in 0 .. s.carried
    /\ \A s, t \in samples : s.nth = t.nth => s = t
    /\ \A p \in Samplers : sampler[p].pc = "ask" => sampler[p].nth \in 1 .. asked

\* Every downtime the report states was measured, without a gap: each scrape
\* from its first to its last one, none of them lost, showed an answer that the
\* node was asked for then or one scrape before, and the node was down or could
\* not be asked.  (The windows that end now; the others ended earlier.)
DowntimeIsMeasured ==
    \A start \in 1 .. Clock :
        \A d \in Downtime(start, Clock + 1) :
            /\ d.samples = d.last - d.first + 1
            /\ \A i \in d.first .. d.last :
                  /\ ticks[i].panel
                  /\ ticks[AskedAt(i)].told # "cached"
                  /\ ticks[AskedAt(i)].told = "fresh" => ticks[AskedAt(i)].down

\* "normal" is never said of an outage longer than the scrapes that
\* TELEMETRY_MIN_COVERAGE lets a window miss can hide: with m of them, one of
\* 2m + 2 scrapes always shows two in a row, and an answer shown again is one
\* scrape old.
NormalMeansWatched ==
    \A start \in 1 .. Clock :
        LET m == (Clock + 1 - start) \div 10
            Outage(i) == \A j \in i .. i + 2 * m + 2 : ticks[j].down
        IN (\E i \in start .. Clock - 2 * m - 2 : Outage(i)) =>
              "normal" \notin {Classify("normal", start, Clock + 1),
                              Classify("ai", start, Clock + 1), Overall(start, Clock + 1)}

\* The traffic attributed to a window was carried between its first and its
\* last selected reading, over restarts of Xray in between, and is all of it
\* when there was none; unless two samplers' readings crossed.
AttributionSound ==
    \A start \in 0 .. Clock : \A end \in start + 1 .. Clock :
        LET q == Queried(start, end)
            chosen == Selected(start, end)
            Between == {q[n].carried - q[m].carried : m, n \in chosen}
        IN chosen = {} \/ crossed \/
              /\ \E bytes \in Between : Attributed(start, end) <= bytes
              /\ xray.value = xray.carried =>
                    /\ Attributed(start, end) \in Between
                    /\ \A bytes \in Between : bytes <= Attributed(start, end)
=============================================================================
