---------------------------- MODULE DnsFailover ----------------------------
(***************************************************************************)
(* DNS failover of the control panel: app/state/dns_failover.py driven by  *)
(* the worker thread of app/runtime/dns_failover.py, by the admin API's    *)
(* check and switch requests, and by the record refresh at start-up.       *)
(*                                                                         *)
(* Every caller runs a check or a switch in a thread of its own.  The      *)
(* write lock is held only around each database transaction, so a          *)
(* transaction is one step; what lies between two transactions (the TCP    *)
(* probe, the Cloudflare GET and PUT) interleaves with other callers.      *)
(***************************************************************************)
EXTENDS Naturals

CONSTANTS
  Callers,            \* threads that run a check or a switch
  Admins,             \* the callers that serve requests of the admin API
  FailureThreshold,   \* DNS_FAILOVER_FAILURE_THRESHOLD
  RecoveryThreshold,  \* DNS_FAILOVER_RECOVERY_THRESHOLD
  CounterBound,       \* the streak counters saturate here
  PeakEnabled,        \* DNS_FAILOVER_PEAK_ENABLED
  InitialRecords,     \* what the record may hold when the panel first starts
  Faults,             \* the kinds of fault explored
  MaxFaults,          \* bound on the faults of one behaviour
  MaxManual,          \* bound on manual switch requests
  MaxEnv              \* bound on changes of the environment

Targets == {"primary", "backup"}
Contents == Targets \cup {"foreign"}
FaultKinds == {"resolve", "get", "put", "lost", "dbfail", "crash", "edit"}

ASSUME DnsAssumption ==
  /\ Admins \subseteq Callers
  /\ FailureThreshold \in Nat \ {0}
  /\ RecoveryThreshold \in Nat \ {0}
  /\ CounterBound \in Nat
  /\ CounterBound >= FailureThreshold
  /\ CounterBound >= RecoveryThreshold
  /\ PeakEnabled \in BOOLEAN
  /\ InitialRecords \subseteq Contents
  /\ Faults \subseteq FaultKinds
  /\ MaxFaults \in Nat
  /\ MaxManual \in Nat
  /\ MaxEnv \in Nat

VARIABLES
  record,      \* what the Cloudflare record resolves to
  db,          \* the dns_failover_state row
  call,        \* per caller: where its request is, and its locals
  panel,       \* the panel process: down, in its start-up refresh, or up
  seen,        \* the content the start-up refresh has read
  primaryUp,   \* the probed port of the primary data plane answers
  inWindow,    \* the clock is inside the peak window
  resolvable,  \* both record contents can be resolved (status "configured")
  drift,       \* history: what may have let the row and the record come apart
  spacing,     \* history: checks recorded since the last automatic change
  used         \* faults, manual switches and environment changes so far

env == <<primaryUp, inWindow, resolvable>>
history == <<drift, spacing>>
boot == <<panel, seen>>
vars == <<record, db, call, boot, env, history, used>>

Pcs == {"idle", "skip", "probe", "evaluate", "switch", "get", "noop", "put",
        "written", "error"}
PanelStates == {"down", "refresh", "store", "storeError", "up"}
DriftKinds == {"start", "foreign", "edit", "lost", "unrecorded", "overlap"}

Call == [pc : Pcs, probeOk : BOOLEAN, target : Targets, auto : BOOLEAN]
Idle == [pc |-> "idle", probeOk |-> FALSE, target |-> "primary", auto |-> FALSE]

Other(t) == IF t = "primary" THEN "backup" ELSE "primary"

\* A streak counter.  Only its comparison with a threshold is ever used, and
\* CounterBound is at least either threshold.
Bump(n) == IF n < CounterBound THEN n + 1 ELSE n

Init ==
  /\ record \in InitialRecords
  /\ db = [target |-> "primary", failures |-> 0, successes |-> 0,
           error |-> FALSE]
  /\ call = [c \in Callers |-> Idle]
  /\ panel = "refresh"
  /\ seen = "foreign"
  /\ primaryUp \in BOOLEAN
  /\ inWindow \in (IF PeakEnabled THEN BOOLEAN ELSE {FALSE})
  /\ resolvable = TRUE
  /\ drift = {"start"}
  /\ spacing = CounterBound
  /\ used = [faults |-> 0, manual |-> 0, env |-> 0]

-----------------------------------------------------------------------------
(* What the steps below share. *)

Fault(kind) ==
  /\ kind \in Faults
  /\ used.faults < MaxFaults
  /\ used' = [used EXCEPT !.faults = @ + 1]

At(c, pc) == panel = "up" /\ call[c].pc = pc
Goto(c, pc) == call' = [call EXCEPT ![c].pc = pc]
Finish(c) == call' = [call EXCEPT ![c] = Idle]

\* A caller that knows what the record holds and has yet to store it.
Unstored(c) == call[c].pc \in {"noop", "written"}

\* The record and the row agree again once the caller c, alone in its window,
\* has stored what the record really holds.
DriftAfterStore(c) ==
  IF record = call[c].target /\ \A o \in Callers \ {c} : ~Unstored(o)
  THEN {} ELSE drift

\* evaluate_dns_failover_transition, with the preferred target of the window.
Preferred == IF PeakEnabled /\ inWindow THEN "backup" ELSE "primary"

\* Mutants: a switch is tried once only; one success too few is enough.
TransitionAtThreshold(current, failures, successes, ok, preferred) ==
  CASE ok /\ current = Other(preferred) /\ successes = RecoveryThreshold
         -> {preferred}
    [] ~ok /\ current = preferred /\ failures = FailureThreshold
         -> {Other(preferred)}
    [] OTHER -> {}

TransitionOneEarly(current, failures, successes, ok, preferred) ==
  CASE ok /\ current = Other(preferred) /\ successes + 1 >= RecoveryThreshold
         -> {preferred}
    [] ~ok /\ current = preferred /\ failures >= FailureThreshold
         -> {Other(preferred)}
    [] OTHER -> {}

Transition(current, failures, successes, ok, preferred) ==
  CASE ok /\ current = Other(preferred) /\ successes >= RecoveryThreshold
         -> {preferred}
    [] ~ok /\ current = preferred /\ failures >= FailureThreshold
         -> {Other(preferred)}
    [] OTHER -> {}

-----------------------------------------------------------------------------
(* run_dns_failover_check *)

\* The status snapshot decides whether the check is run or skipped.
StartCheck(c) ==
  /\ At(c, "idle")
  /\ Goto(c, IF resolvable THEN "probe" ELSE "skip")
  /\ UNCHANGED <<record, db, boot, env, history, used>>

\* Not configured: the reason goes to last_error and to the history table.
RecordSkip(c) ==
  /\ At(c, "skip")
  /\ db' = [db EXCEPT !.error = TRUE]
  /\ Finish(c)
  /\ UNCHANGED <<record, boot, env, history, used>>

\* probe_once, outside any lock.
Probe(c) ==
  /\ At(c, "probe")
  /\ call' = [call EXCEPT ![c] = [@ EXCEPT !.pc = "evaluate",
                                           !.probeOk = primaryUp]]
  /\ UNCHANGED <<record, db, boot, env, history, used>>

\* The transaction that counts the result and decides on a transition; the
\* switch itself runs after the lock is released.
Evaluate(c) ==
  /\ At(c, "evaluate")
  /\ LET ok == call[c].probeOk
         failures == IF ok THEN 0 ELSE Bump(db.failures)
         successes == IF ok THEN Bump(db.successes) ELSE 0
         decided == Transition(db.target, failures, successes, ok, Preferred)
     IN /\ db' = [db EXCEPT !.failures = failures, !.successes = successes,
                            !.error = FALSE]
        /\ \/ /\ decided = {}
              /\ Finish(c)
           \/ \E t \in decided :
                call' = [call EXCEPT ![c] = [@ EXCEPT !.pc = "switch",
                                                      !.target = t,
                                                      !.auto = TRUE]]
  /\ spacing' = Bump(spacing)
  /\ UNCHANGED <<record, boot, env, drift, used>>

-----------------------------------------------------------------------------
(* switch_dns_target *)

\* An admin request; one that finds no usable configuration raises at once.
ManualSwitch(c) ==
  /\ c \in Admins
  /\ At(c, "idle")
  /\ resolvable
  /\ used.manual < MaxManual
  /\ \E t \in Targets :
       call' = [call EXCEPT ![c] = [@ EXCEPT !.pc = "get", !.target = t,
                                             !.auto = FALSE]]
  /\ used' = [used EXCEPT !.manual = @ + 1]
  /\ UNCHANGED <<record, db, boot, env, history>>

\* The automatic switch reads the status again and raises when it is no
\* longer configured.
StartSwitch(c) ==
  /\ At(c, "switch")
  /\ IF resolvable THEN Goto(c, "get") ELSE Finish(c)
  /\ UNCHANGED <<record, db, boot, env, history, used>>

\* Mutant: the row is believed instead of the record.
GetRecordFromRow(c) ==
  /\ At(c, "get")
  /\ Goto(c, IF db.target = call[c].target THEN "noop" ELSE "put")
  /\ UNCHANGED <<record, db, boot, env, history, used>>

GetRecord(c) ==
  /\ At(c, "get")
  /\ Goto(c, IF record = call[c].target THEN "noop" ELSE "put")
  /\ UNCHANGED <<record, db, boot, env, history, used>>

\* Mutant: the no-op branch forgets current_target.
RecordNoopKeepsTarget(c) ==
  /\ At(c, "noop")
  /\ db' = [db EXCEPT !.error = FALSE]
  /\ Finish(c)
  /\ drift' = DriftAfterStore(c)
  /\ UNCHANGED <<record, boot, env, spacing, used>>

\* The record is at the target already: only the row is brought in line.
RecordNoop(c) ==
  /\ At(c, "noop")
  /\ db' = [db EXCEPT !.target = call[c].target, !.error = FALSE]
  /\ Finish(c)
  /\ drift' = DriftAfterStore(c)
  /\ UNCHANGED <<record, boot, env, spacing, used>>

\* What the history variables keep of a change of the record by c: a change
\* under the eyes of a caller that has yet to store what it saw is an overlap.
NotePut(c, extra) ==
  /\ drift' = drift \cup extra \cup
       (IF \E o \in Callers \ {c} : Unstored(o) THEN {"overlap"} ELSE {})
  /\ spacing' = IF call[c].auto THEN 0 ELSE CounterBound

\* sync_target: the PUT is applied and answered.
PutRecord(c) ==
  /\ At(c, "put")
  /\ record' = call[c].target
  /\ Goto(c, "written")
  /\ NotePut(c, {})
  /\ UNCHANGED <<db, boot, env, used>>

\* The transaction that stores the new target after the PUT.
RecordSwitch(c) ==
  /\ At(c, "written")
  /\ db' = [db EXCEPT !.target = call[c].target, !.error = FALSE]
  /\ Finish(c)
  /\ drift' = DriftAfterStore(c)
  /\ UNCHANGED <<record, boot, env, spacing, used>>

\* The error branch of either API call: last_error and a history line.
RecordError(c) ==
  /\ At(c, "error")
  /\ db' = [db EXCEPT !.error = TRUE]
  /\ Finish(c)
  /\ UNCHANGED <<record, boot, env, history, used>>

-----------------------------------------------------------------------------
(* Faults of a call *)

\* The GET is refused or unreachable, which is stored as an error; a read
\* timeout is no CloudflareApiError and leaves the request at once.
GetFails(c) ==
  /\ At(c, "get")
  /\ Fault("get")
  /\ Goto(c, "error") \/ Finish(c)
  /\ UNCHANGED <<record, db, boot, env, history>>

\* The PUT is refused or never arrives.
PutFails(c) ==
  /\ At(c, "put")
  /\ Fault("put")
  /\ Goto(c, "error") \/ Finish(c)
  /\ UNCHANGED <<record, db, boot, env, history>>

\* The PUT is applied but its answer is lost.
PutLost(c) ==
  /\ At(c, "put")
  /\ Fault("lost")
  /\ record' = call[c].target
  /\ Goto(c, "error") \/ Finish(c)
  /\ NotePut(c, {"lost"})
  /\ UNCHANGED <<db, boot, env>>

\* A transaction of the call raises; worker and request handler drop the call.
DatabaseFails(c) ==
  /\ panel = "up"
  /\ call[c].pc \in {"skip", "evaluate", "noop", "written", "error"}
  /\ Fault("dbfail")
  /\ Finish(c)
  /\ drift' = IF Unstored(c) THEN drift \cup {"unrecorded"} ELSE drift
  /\ UNCHANGED <<record, db, boot, env, spacing>>

-----------------------------------------------------------------------------
(* The panel process: a crash, and refresh_dns_failover_record_snapshot at  *)
(* the end of the bootstrap, before the worker and the web server start.    *)

Crash ==
  /\ panel # "down"
  /\ Fault("crash")
  /\ panel' = "down"
  /\ call' = [c \in Callers |-> Idle]
  /\ drift' = IF \E c \in Callers : Unstored(c)
              THEN drift \cup {"unrecorded"} ELSE drift
  /\ UNCHANGED <<record, db, seen, env, spacing>>

Restart ==
  /\ panel = "down"
  /\ panel' = "refresh"
  /\ UNCHANGED <<record, db, call, seen, env, history, used>>

RefreshRead ==
  /\ panel = "refresh"
  /\ IF resolvable THEN panel' = "store" /\ seen' = record
                   ELSE panel' = "up" /\ UNCHANGED seen
  /\ UNCHANGED <<record, db, call, env, history, used>>

\* A read timeout ends the refresh, and the boot goes on all the same.
RefreshReadFails ==
  /\ panel = "refresh"
  /\ resolvable
  /\ Fault("get")
  /\ panel' \in {"storeError", "up"}
  /\ UNCHANGED <<record, db, call, seen, env, history>>

\* Mutant: the refresh stores what it could not classify.
RefreshStoreAnything ==
  /\ panel = "store"
  /\ db' = [db EXCEPT !.target = seen, !.error = FALSE]
  /\ panel' = "up"
  /\ drift' = IF seen \in Targets /\ seen = record THEN {}
              ELSE drift \cup {"foreign"}
  /\ UNCHANGED <<record, call, seen, env, spacing, used>>

\* Anything that is neither content is stored as the primary.
RefreshStore ==
  /\ panel = "store"
  /\ db' = [db EXCEPT !.target = IF seen \in Targets THEN seen ELSE "primary",
                      !.error = FALSE]
  /\ panel' = "up"
  /\ drift' = IF seen \in Targets /\ seen = record THEN {}
              ELSE drift \cup {"foreign"}
  /\ UNCHANGED <<record, call, seen, env, spacing, used>>

RefreshStoreError ==
  /\ panel = "storeError"
  /\ db' = [db EXCEPT !.error = TRUE]
  /\ panel' = "up"
  /\ UNCHANGED <<record, call, seen, env, history, used>>

\* The refresh's transaction raises: the boot goes on all the same.
RefreshStoreFails ==
  /\ panel \in {"store", "storeError"}
  /\ Fault("dbfail")
  /\ panel' = "up"
  /\ UNCHANGED <<record, db, call, seen, env, history>>

-----------------------------------------------------------------------------
(* The environment *)

EnvStep == /\ used.env < MaxEnv
           /\ used' = [used EXCEPT !.env = @ + 1]

PrimaryFlips ==
  /\ EnvStep
  /\ primaryUp' = ~primaryUp
  /\ UNCHANGED <<record, db, call, boot, inWindow, resolvable, history>>

WindowFlips ==
  /\ PeakEnabled
  /\ EnvStep
  /\ inWindow' = ~inWindow
  /\ spacing' = CounterBound
  /\ UNCHANGED <<record, db, call, boot, primaryUp, resolvable, drift>>

\* A public address that was to be resolved cannot be, for some time.
ResolverFails ==
  /\ resolvable
  /\ Fault("resolve")
  /\ resolvable' = FALSE
  /\ UNCHANGED <<record, db, call, boot, primaryUp, inWindow, history>>

ResolverRecovers ==
  /\ ~resolvable
  /\ resolvable' = TRUE
  /\ UNCHANGED <<record, db, call, boot, primaryUp, inWindow, history, used>>

\* Somebody edits the record in Cloudflare's console.
ExternalEdit ==
  /\ Fault("edit")
  /\ record' \in Contents \ {record}
  /\ drift' = drift \cup {"edit"}
  /\ spacing' = CounterBound
  /\ UNCHANGED <<db, call, boot, env>>

-----------------------------------------------------------------------------
CheckStep(c) == StartCheck(c) \/ RecordSkip(c) \/ Probe(c) \/ Evaluate(c)
SwitchStep(c) == \/ StartSwitch(c) \/ GetRecord(c) \/ RecordNoop(c)
                 \/ PutRecord(c) \/ RecordSwitch(c) \/ RecordError(c)
CallFault(c) == GetFails(c) \/ PutFails(c) \/ PutLost(c) \/ DatabaseFails(c)
Booting == Restart \/ RefreshRead \/ RefreshStore \/ RefreshStoreError
Environment == \/ PrimaryFlips \/ WindowFlips \/ ResolverFails
               \/ ResolverRecovers \/ ExternalEdit

Next ==
  \/ \E c \in Callers :
       CheckStep(c) \/ SwitchStep(c) \/ ManualSwitch(c) \/ CallFault(c)
  \/ Booting
  \/ RefreshReadFails
  \/ RefreshStoreFails
  \/ Crash
  \/ Environment

Spec == Init /\ [][Next]_vars

\* The worker loops for as long as the process lives, a request that was
\* started is carried through, and a dead panel is restarted by its container
\* policy.  Nothing is assumed of admins, of faults or of the environment.
Fairness ==
  /\ \A c \in Callers \ Admins : WF_vars(StartCheck(c))
  /\ \A c \in Callers : WF_vars(SwitchStep(c) \/ RecordSkip(c) \/ Probe(c)
                                 \/ Evaluate(c))
  /\ WF_vars(Booting)

FairSpec == Spec /\ Fairness

-----------------------------------------------------------------------------
(* Properties *)

\* Types of the variables, and no request survives the process it ran in.
TypeOK ==
  /\ record \in Contents
  /\ db \in [target : Targets, failures : 0..CounterBound,
             successes : 0..CounterBound, error : BOOLEAN]
  /\ call \in [Callers -> Call]
  /\ panel \in PanelStates
  /\ seen \in Contents
  /\ primaryUp \in BOOLEAN
  /\ inWindow \in BOOLEAN
  /\ resolvable \in BOOLEAN
  /\ drift \subseteq DriftKinds
  /\ spacing \in 0..CounterBound
  /\ used \in [faults : 0..MaxFaults, manual : 0..MaxManual, env : 0..MaxEnv]
  /\ panel # "up" => \A c \in Callers : call[c] = Idle

\* The target the panel shows and decides on is the one the Cloudflare record
\* has, whenever no call is between seeing the record and storing it - unless
\* one of the six causes of drift was met since they last agreed: the panel
\* never read the record, it held a foreign value, it was edited by hand, the
\* answer to a PUT was lost, a store was lost to a database error or a crash,
\* or two switches overlapped (run_dns_failover_check and switch_dns_target
\* release the write lock around the API calls).
ViewAgrees ==
  drift = {} /\ (\A c \in Callers : ~Unstored(c)) => db.target = record

\* Unless one of those causes was met, a call that is about to store a target
\* stores the one the record has at that moment, however long its transaction
\* had to wait for the write lock.
StoresTruth ==
  drift = {} => \A c \in Callers : Unstored(c) => call[c].target = record

\* An automatic switch away from the preferred target is spaced from the
\* previous automatic one by at least the threshold of recorded checks, even
\* across lost answers, crashes and restarts: the counters in the row cannot
\* make the record flap.
AutoSwitchesSpaced ==
  [][ record' # record /\ spacing' = 0
      => spacing >= (IF record' = "backup" THEN FailureThreshold
                     ELSE RecoveryThreshold) ]_vars

\* The record is not moved automatically to the primary on the strength of a
\* failed probe of the primary (docs/fault-tolerance.md: with the ordinary
\* data plane down, clients go through the DNS backup).
NeverToDeadPrimary ==
  [][ \A c \in Callers :
        call[c].pc = "put" /\ call[c].auto /\ call'[c].pc = "written"
        /\ record' = "primary" => call[c].probeOk ]_vars

\* A PUT took effect whose answer, or whose store, was lost, and the row still
\* has the other target.
Unseen == {"lost", "unrecorded"} \cap drift # {} /\ db.target # record

\* A primary that stays down ends with the record on the backup, and one that
\* stays up with the record on the primary (docs/fault-tolerance.md,
\* acceptance items 2, 6 and 7) - whichever calls are refused, lost or not
\* stored, and wherever the panel dies, but for one outcome: a PUT is lost and
\* the probe turns before the next check has tried again.  The row then has
\* the target that the probe calls for, no transition is due, and nothing but
\* a switch by hand or a restart of the panel reads the record again.
FailsOver == <>[](~primaryUp /\ resolvable) => <>[](record = "backup" \/ Unseen)
Recovers == <>[](primaryUp /\ resolvable) => <>[](record = "primary" \/ Unseen)

=============================================================================
