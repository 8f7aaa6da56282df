------------------------- MODULE DnsFailover_proofs -------------------------
(***************************************************************************)
(* Proofs about DnsFailover, for any set of callers, any thresholds, any   *)
(* kinds and number of faults: the types, and that the panel's view of the *)
(* record can only be wrong for a cause that drift names.                  *)
(***************************************************************************)
EXTENDS DnsFailover, TLAPS

\* A streak counter saturates at its bound.
LEMMA BumpBounded ==
  ASSUME NEW n \in 0..CounterBound
  PROVE  Bump(n) \in 0..CounterBound
BY DnsAssumption DEF Bump

\* The other target is one of the two.
LEMMA OtherTarget ==
  ASSUME NEW t \in Targets
  PROVE  Other(t) \in Targets
BY DEF Other, Targets

\* A decision names a target of the record.
LEMMA TransitionTargets ==
  ASSUME NEW current \in Targets, NEW failures, NEW successes,
         NEW ok \in BOOLEAN, NEW preferred \in Targets
  PROVE  Transition(current, failures, successes, ok, preferred) \subseteq Targets
BY OtherTarget DEF Transition

\* What a fault adds to the count stays within its bound.
LEMMA FaultCounted ==
  ASSUME TypeOK, NEW kind, Fault(kind)
  PROVE  used' \in [faults : 0..MaxFaults, manual : 0..MaxManual, env : 0..MaxEnv]
BY DnsAssumption DEF TypeOK, Fault

\* A thread that runs nothing has a well-formed call.
LEMMA IdleCall == Idle \in Call
BY DEF Idle, Call, Pcs, Targets

\* A call that has probed is well-formed.
LEMMA CallProbed ==
  ASSUME NEW r \in Call, NEW pc \in Pcs, NEW ok \in BOOLEAN
  PROVE  [r EXCEPT !.pc = pc, !.probeOk = ok] \in Call
BY DEF Call

\* A call that has chosen a target is well-formed.
LEMMA CallAimed ==
  ASSUME NEW r \in Call, NEW pc \in Pcs, NEW t \in Targets,
         NEW auto \in BOOLEAN
  PROVE  [r EXCEPT !.pc = pc, !.target = t, !.auto = auto] \in Call
BY DEF Call

\* One thread's call changes and the others' stay.
LEMMA CallChanged ==
  ASSUME NEW f \in [Callers -> Call], NEW c \in Callers, NEW r \in Call
  PROVE  [f EXCEPT ![c] = r] \in [Callers -> Call]
OBVIOUS

\* The transaction ends the check or sends its caller on to the switch.
LEMMA EvaluateCall ==
  ASSUME NEW c \in Callers, Evaluate(c)
  PROVE  \/ call' = [call EXCEPT ![c] = Idle]
         \/ \E t : call' = [call EXCEPT ![c] = [call[c] EXCEPT
                      !.pc = "switch", !.target = t, !.auto = TRUE]]
<1> DEFINE ok == call[c].probeOk
           failures == IF ok THEN 0 ELSE Bump(db.failures)
           successes == IF ok THEN Bump(db.successes) ELSE 0
           decided == Transition(db.target, failures, successes, ok, Preferred)
<1>1. \/ call' = [call EXCEPT ![c] = Idle]
      \/ \E t \in decided :
           call' = [call EXCEPT ![c] = [call[c] EXCEPT
                      !.pc = "switch", !.target = t, !.auto = TRUE]]
  BY DEF Evaluate, Finish
<1> HIDE DEF decided
<1> QED BY <1>1

\* The model is type-correct for any callers, thresholds and bounds, and no
\* request outlives the process it runs in.
THEOREM TypeCorrect == Spec => []TypeOK
<1>1. Init => TypeOK
  <2> SUFFICES ASSUME Init
               PROVE  TypeOK
    OBVIOUS
  <2>1. inWindow \in BOOLEAN /\ primaryUp \in BOOLEAN /\ resolvable \in BOOLEAN
    BY DEF Init
  <2>2. call \in [Callers -> Call] /\ \A c \in Callers : call[c] = Idle
    BY IdleCall DEF Init
  <2>3. used \in [faults : 0..MaxFaults, manual : 0..MaxManual, env : 0..MaxEnv]
    BY DnsAssumption DEF Init
  <2>4. db \in [target : Targets, failures : 0..CounterBound,
                successes : 0..CounterBound, error : BOOLEAN]
    BY DnsAssumption DEF Init, Targets
  <2>5. record \in Contents /\ seen \in Contents
    BY DnsAssumption DEF Init, Contents
  <2>6. spacing \in 0..CounterBound
    BY DnsAssumption DEF Init
  <2> QED
    BY <2>1, <2>2, <2>3, <2>4, <2>5, <2>6
    DEF Init, TypeOK, PanelStates, DriftKinds
<1>2. TypeOK /\ [Next]_vars => TypeOK'
  <2> SUFFICES ASSUME TypeOK, [Next]_vars
               PROVE  TypeOK'
    OBVIOUS
  <2> USE DnsAssumption, IdleCall
  <2> USE DEF TypeOK, Contents, boot, env, history
  <2>1. ASSUME NEW c \in Callers, StartCheck(c)
        PROVE  TypeOK'
    BY <2>1 DEF StartCheck, At, Goto, Call, Pcs
  <2>2. ASSUME NEW c \in Callers, RecordSkip(c)
        PROVE  TypeOK'
    BY <2>2 DEF RecordSkip, At, Finish
  <2>3. ASSUME NEW c \in Callers, Probe(c)
        PROVE  TypeOK'
    <3>1. [call[c] EXCEPT !.pc = "evaluate", !.probeOk = primaryUp] \in Call
      BY CallProbed DEF Pcs
    <3>2. call' = [call EXCEPT ![c] = [call[c] EXCEPT !.pc = "evaluate",
                                                      !.probeOk = primaryUp]]
      BY <2>3 DEF Probe
    <3>3. call' \in [Callers -> Call]
      BY <3>1, <3>2, CallChanged
    <3> QED BY <2>3, <3>3 DEF Probe, At
  <2>4. ASSUME NEW c \in Callers, Evaluate(c)
        PROVE  TypeOK'
    <3> DEFINE ok == call[c].probeOk
               failures == IF ok THEN 0 ELSE Bump(db.failures)
               successes == IF ok THEN Bump(db.successes) ELSE 0
               decided == Transition(db.target, failures, successes, ok,
                                     Preferred)
    <3>1. /\ failures \in 0..CounterBound
          /\ successes \in 0..CounterBound
      BY BumpBounded
    <3>2. ok \in BOOLEAN /\ Preferred \in Targets
      BY DEF Call, Preferred, Targets
    <3>3. decided \subseteq Targets
      <4> HIDE DEF failures, successes, ok
      <4> QED BY <3>2, TransitionTargets
    <3>4. /\ db' = [db EXCEPT !.failures = failures, !.successes = successes,
                              !.error = FALSE]
          /\ \/ call' = [call EXCEPT ![c] = Idle]
             \/ \E t \in decided :
                  call' = [call EXCEPT ![c] = [call[c] EXCEPT
                             !.pc = "switch", !.target = t, !.auto = TRUE]]
          /\ spacing' = Bump(spacing)
          /\ panel = "up"
          /\ UNCHANGED <<record, boot, env, drift, used>>
      BY <2>4 DEF Evaluate, At, Finish
    <3> HIDE DEF failures, successes, decided, ok
    <3>5. call' \in [Callers -> Call]
      <4>1. CASE call' = [call EXCEPT ![c] = Idle]
        BY <4>1, CallChanged
      <4>2. ASSUME NEW t \in decided,
                   call' = [call EXCEPT ![c] = [call[c] EXCEPT
                              !.pc = "switch", !.target = t, !.auto = TRUE]]
            PROVE  call' \in [Callers -> Call]
        <5>1. [call[c] EXCEPT !.pc = "switch", !.target = t, !.auto = TRUE]
                \in Call
          BY <3>3, CallAimed DEF Pcs
        <5> QED BY <4>2, <5>1, CallChanged
      <4> QED BY <3>4, <4>1, <4>2
    <3>6. spacing' \in 0..CounterBound
      BY <3>4, BumpBounded
    <3> QED BY <3>1, <3>4, <3>5, <3>6
  <2>5. ASSUME NEW c \in Callers, StartSwitch(c)
        PROVE  TypeOK'
    BY <2>5 DEF StartSwitch, At, Goto, Finish, Call, Pcs
  <2>6. ASSUME NEW c \in Callers, GetRecord(c)
        PROVE  TypeOK'
    BY <2>6 DEF GetRecord, At, Goto, Call, Pcs
  <2>7. ASSUME NEW c \in Callers, RecordNoop(c)
        PROVE  TypeOK'
    BY <2>7 DEF RecordNoop, At, Finish, DriftAfterStore, Call
  <2>8. ASSUME NEW c \in Callers, PutRecord(c)
        PROVE  TypeOK'
    BY <2>8 DEF PutRecord, At, Goto, NotePut, Call, Pcs, DriftKinds
  <2>9. ASSUME NEW c \in Callers, RecordSwitch(c)
        PROVE  TypeOK'
    BY <2>9 DEF RecordSwitch, At, Finish, DriftAfterStore, Call
  <2>10. ASSUME NEW c \in Callers, RecordError(c)
         PROVE  TypeOK'
    BY <2>10 DEF RecordError, At, Finish
  <2>11. ASSUME NEW c \in Callers, ManualSwitch(c)
         PROVE  TypeOK'
    <3>1. PICK t \in Targets :
            call' = [call EXCEPT ![c] = [call[c] EXCEPT
                       !.pc = "get", !.target = t, !.auto = FALSE]]
      BY <2>11 DEF ManualSwitch
    <3>2. [call[c] EXCEPT !.pc = "get", !.target = t, !.auto = FALSE] \in Call
      BY CallAimed DEF Pcs
    <3>3. call' \in [Callers -> Call]
      BY <3>1, <3>2, CallChanged
    <3> QED BY <2>11, <3>3 DEF ManualSwitch, At
  <2>12. ASSUME NEW c \in Callers, GetFails(c)
         PROVE  TypeOK'
    BY <2>12, FaultCounted DEF GetFails, At, Goto, Finish, Call, Pcs
  <2>13. ASSUME NEW c \in Callers, PutFails(c)
         PROVE  TypeOK'
    BY <2>13, FaultCounted DEF PutFails, At, Goto, Finish, Call, Pcs
  <2>14. ASSUME NEW c \in Callers, PutLost(c)
         PROVE  TypeOK'
    BY <2>14, FaultCounted
    DEF PutLost, At, Goto, Finish, NotePut, Call, Pcs, DriftKinds
  <2>15. ASSUME NEW c \in Callers, DatabaseFails(c)
         PROVE  TypeOK'
    BY <2>15, FaultCounted DEF DatabaseFails, Finish, DriftKinds
  <2>16. CASE Crash
    BY <2>16, FaultCounted DEF Crash, PanelStates, DriftKinds
  <2>17. CASE Restart
    BY <2>17 DEF Restart, PanelStates
  <2>18. CASE RefreshRead
    BY <2>18 DEF RefreshRead, PanelStates
  <2>19. CASE RefreshReadFails
    BY <2>19, FaultCounted DEF RefreshReadFails, PanelStates
  <2>20. CASE RefreshStore
    BY <2>20 DEF RefreshStore, PanelStates, DriftKinds, Targets
  <2>21. CASE RefreshStoreError
    BY <2>21 DEF RefreshStoreError, PanelStates
  <2>22. CASE PrimaryFlips
    BY <2>22 DEF PrimaryFlips, EnvStep
  <2>23. CASE WindowFlips
    BY <2>23 DEF WindowFlips, EnvStep
  <2>24. CASE ResolverFails
    BY <2>24, FaultCounted DEF ResolverFails
  <2>25. CASE ResolverRecovers
    BY <2>25 DEF ResolverRecovers
  <2>26. CASE ExternalEdit
    BY <2>26, FaultCounted DEF ExternalEdit, DriftKinds
  <2>27. CASE RefreshStoreFails
    BY <2>27, FaultCounted DEF RefreshStoreFails, PanelStates
  <2>28. CASE UNCHANGED vars
    BY <2>28 DEF vars
  <2> QED
    BY <2>1, <2>2, <2>3, <2>4, <2>5, <2>6, <2>7, <2>8, <2>9, <2>10, <2>11,
       <2>12, <2>13, <2>14, <2>15, <2>16, <2>17, <2>18, <2>19, <2>20, <2>21,
       <2>22, <2>23, <2>24, <2>25, <2>26, <2>27, <2>28
    DEF Next, CheckStep, SwitchStep, CallFault, Booting, Environment
<1> QED BY <1>1, <1>2, PTL DEF Spec

(***************************************************************************)
(* ViewAgrees alone is not inductive: when a call stores its target, that  *)
(* the target is what the record holds comes from StoresTruth.             *)
(***************************************************************************)
\* A step that leaves the record and the row's target alone, takes no cause of
\* drift away and leaves every unstored call as it was, keeps the agreement.
LEMMA AgreementUndisturbed ==
  ASSUME ViewAgrees, StoresTruth,
         record' = record, db'.target = db.target,
         drift' = {} => drift = {},
         \A c \in Callers : /\ Unstored(c)' <=> Unstored(c)
                            /\ Unstored(c) => call'[c].target = call[c].target
  PROVE  ViewAgrees' /\ StoresTruth'
BY DEF ViewAgrees, StoresTruth

\* Storing what the record holds, while no other caller is in its window,
\* makes row and record agree; otherwise that other caller will.
LEMMA StoreAgrees ==
  ASSUME TypeOK, StoresTruth, NEW c \in Callers, Unstored(c),
         record' = record, db'.target = call[c].target,
         call' = [call EXCEPT ![c] = Idle], drift' = DriftAfterStore(c)
  PROVE  ViewAgrees' /\ StoresTruth'
<1>1. ~Unstored(c)'
  BY DEF Unstored, TypeOK, Idle
<1>2. \A o \in Callers \ {c} : /\ Unstored(o)' <=> Unstored(o)
                               /\ call'[o] = call[o]
  BY DEF Unstored, TypeOK
<1>3. CASE record = call[c].target /\ \A o \in Callers \ {c} : ~Unstored(o)
  BY <1>1, <1>2, <1>3 DEF ViewAgrees, StoresTruth
<1>4. CASE record = call[c].target /\ \E o \in Callers \ {c} : Unstored(o)
  BY <1>1, <1>2, <1>4 DEF ViewAgrees, StoresTruth, DriftAfterStore
<1>5. CASE record # call[c].target
  BY <1>1, <1>2, <1>5 DEF ViewAgrees, StoresTruth, DriftAfterStore
<1> QED BY <1>3, <1>4, <1>5

\* The view of the panel can only be wrong for a cause that drift names, and
\* no transaction stores a target that the record no longer has without one.
THEOREM DriftExplainsDisagreement == Spec => [](ViewAgrees /\ StoresTruth)
<1>1. Init => ViewAgrees /\ StoresTruth
  BY DEF Init, ViewAgrees, StoresTruth
<1>2. TypeOK /\ ViewAgrees /\ StoresTruth /\ [Next]_vars
        => ViewAgrees' /\ StoresTruth'
  <2> SUFFICES ASSUME TypeOK, ViewAgrees, StoresTruth, [Next]_vars
               PROVE  ViewAgrees' /\ StoresTruth'
    OBVIOUS
  <2> USE DEF Unstored
  <2>1. ASSUME NEW c \in Callers, CheckStep(c) \/ StartSwitch(c)
                                  \/ RecordError(c) \/ ManualSwitch(c)
                                  \/ GetFails(c) \/ PutFails(c)
        PROVE  ViewAgrees' /\ StoresTruth'
    <3>1. record' = record /\ drift' = drift
      BY <2>1 DEF CheckStep, StartCheck, RecordSkip, Probe, Evaluate,
                  StartSwitch, RecordError, ManualSwitch, GetFails, PutFails,
                  history
    <3>2. db'.target = db.target
      BY <2>1 DEF CheckStep, StartCheck, RecordSkip, Probe, Evaluate, TypeOK,
                  StartSwitch, RecordError, ManualSwitch, GetFails, PutFails
    <3>3. ~Unstored(c) /\ ~Unstored(c)'
      <4>1. ~Unstored(c)
        BY <2>1 DEF CheckStep, StartCheck, RecordSkip, Probe, Evaluate,
                    StartSwitch, RecordError, ManualSwitch, GetFails, PutFails,
                    At
      <4>2. ASSUME Evaluate(c)
            PROVE  ~Unstored(c)'
        <5>1. ASSUME call' = [call EXCEPT ![c] = Idle]
              PROVE  ~Unstored(c)'
          BY <5>1 DEF Idle, TypeOK
        <5>2. ASSUME NEW t,
                     call' = [call EXCEPT ![c] = [call[c] EXCEPT
                                !.pc = "switch", !.target = t, !.auto = TRUE]]
              PROVE  ~Unstored(c)'
          <6>1. call'[c] = [call[c] EXCEPT !.pc = "switch", !.target = t,
                                           !.auto = TRUE]
            BY <5>2 DEF TypeOK
          <6>2. "pc" \in DOMAIN call[c]
            BY DEF TypeOK, Call
          <6> QED BY <6>1, <6>2
        <5> QED BY <4>2, <5>1, <5>2, EvaluateCall
      <4>3. "pc" \in DOMAIN call[c]
        BY DEF TypeOK, Call
      <4>4. ASSUME Finish(c)
            PROVE  ~Unstored(c)'
        BY <4>4 DEF Finish, Idle, TypeOK
      <4>5. ASSUME NEW pc, Goto(c, pc), pc \notin {"noop", "written"}
            PROVE  ~Unstored(c)'
        BY <4>3, <4>5 DEF Goto, TypeOK
      <4>6. ASSUME Probe(c)
            PROVE  ~Unstored(c)'
        BY <4>3, <4>6 DEF Probe, TypeOK
      <4>7. ASSUME ManualSwitch(c)
            PROVE  ~Unstored(c)'
        BY <4>3, <4>7 DEF ManualSwitch, TypeOK
      <4> QED BY <2>1, <4>1, <4>2, <4>4, <4>5, <4>6, <4>7
              DEF CheckStep, StartCheck, RecordSkip, StartSwitch, RecordError,
                  GetFails, PutFails
    <3>4. \A o \in Callers \ {c} : call'[o] = call[o]
      BY <2>1 DEF CheckStep, StartCheck, RecordSkip, Probe, Evaluate, TypeOK,
                  StartSwitch, RecordError, ManualSwitch, GetFails, PutFails,
                  Goto, Finish
    <3> QED BY <3>1, <3>2, <3>3, <3>4, AgreementUndisturbed
  <2>2. ASSUME NEW c \in Callers, GetRecord(c)
        PROVE  ViewAgrees' /\ StoresTruth'
    <3>1. CASE record = call[c].target
      BY <2>2, <3>1
      DEF GetRecord, At, Goto, TypeOK, Call, ViewAgrees, StoresTruth, history
    <3>2. CASE record # call[c].target
      BY <2>2, <3>2
      DEF GetRecord, At, Goto, TypeOK, Call, ViewAgrees, StoresTruth, history
    <3> QED BY <3>1, <3>2
  <2>3. ASSUME NEW c \in Callers, RecordNoop(c) \/ RecordSwitch(c)
        PROVE  ViewAgrees' /\ StoresTruth'
    BY <2>3, StoreAgrees DEF RecordNoop, RecordSwitch, At, Finish, TypeOK
  <2>4. ASSUME NEW c \in Callers, PutRecord(c)
        PROVE  ViewAgrees' /\ StoresTruth'
    <3>1. CASE \E o \in Callers \ {c} : Unstored(o)
      BY <2>4, <3>1 DEF PutRecord, NotePut, ViewAgrees, StoresTruth
    <3>2. CASE \A o \in Callers \ {c} : ~Unstored(o)
      BY <2>4, <3>2
      DEF PutRecord, NotePut, At, Goto, TypeOK, Call, ViewAgrees, StoresTruth
    <3> QED BY <3>1, <3>2
  <2>5. ASSUME NEW c \in Callers, PutLost(c)
        PROVE  ViewAgrees' /\ StoresTruth'
    BY <2>5 DEF PutLost, NotePut, ViewAgrees, StoresTruth
  <2>6. ASSUME NEW c \in Callers, DatabaseFails(c)
        PROVE  ViewAgrees' /\ StoresTruth'
    <3>1. CASE Unstored(c)
      BY <2>6, <3>1 DEF DatabaseFails, ViewAgrees, StoresTruth
    <3>2. CASE ~Unstored(c)
      <4>1. ~Unstored(c)' /\ \A o \in Callers \ {c} : call'[o] = call[o]
        BY <2>6, <3>2 DEF DatabaseFails, Finish, Idle, TypeOK
      <4> QED BY <2>6, <3>2, <4>1, AgreementUndisturbed DEF DatabaseFails
    <3> QED BY <3>1, <3>2
  <2>7. CASE Crash
    <3>1. \A c \in Callers : ~Unstored(c)'
      BY <2>7 DEF Crash, Idle
    <3> QED BY <2>7, <3>1 DEF Crash, ViewAgrees, StoresTruth
  <2>8. CASE RefreshStore
    <3>1. \A c \in Callers : ~Unstored(c) /\ ~Unstored(c)'
      BY <2>8 DEF RefreshStore, TypeOK, Idle
    <3> QED BY <2>8, <3>1
            DEF RefreshStore, ViewAgrees, StoresTruth, TypeOK, Targets
  <2>9. CASE \/ Restart \/ RefreshRead \/ RefreshReadFails
             \/ RefreshStoreError \/ RefreshStoreFails
    BY <2>9, AgreementUndisturbed
    DEF Restart, RefreshRead, RefreshReadFails, RefreshStoreError,
        RefreshStoreFails, TypeOK, history
  <2>10. CASE ExternalEdit
    BY <2>10 DEF ExternalEdit, ViewAgrees, StoresTruth
  <2>11. CASE PrimaryFlips \/ WindowFlips \/ ResolverFails \/ ResolverRecovers
    BY <2>11, AgreementUndisturbed
    DEF PrimaryFlips, WindowFlips, ResolverFails, ResolverRecovers, history
  <2>12. CASE UNCHANGED vars
    BY <2>12, AgreementUndisturbed DEF vars, history
  <2> QED
    BY <2>1, <2>2, <2>3, <2>4, <2>5, <2>6, <2>7, <2>8, <2>9, <2>10, <2>11,
       <2>12
    DEF Next, SwitchStep, CallFault, Booting, Environment
<1> QED BY <1>1, <1>2, TypeCorrect, PTL DEF Spec

\* StoresTruth by itself: what a call is about to store is what the record has.
THEOREM StoresAreTrue == Spec => []StoresTruth
BY DriftExplainsDisagreement, PTL

(***************************************************************************)
(* AutoSwitchesSpaced, for the worker alone and outside a peak window: the *)
(* streak that a switch needs has been counted since the record was last   *)
(* moved the other way.                                                    *)
(***************************************************************************)
Streaks ==
  /\ db.failures = 0 \/ db.successes = 0
  /\ record = "primary" => db.failures <= spacing
  /\ record = "backup" => db.successes <= spacing
  /\ record = "foreign" => spacing = CounterBound
  /\ \A c \in Callers :
       call[c].pc \in {"switch", "get", "put"} /\ call[c].auto =>
         IF call[c].target = "backup" THEN db.failures >= FailureThreshold
                                      ELSE db.successes >= RecoveryThreshold

\* A step that leaves the counters alone, and what is under way, or ends it.
LEMMA StreaksUndisturbed ==
  ASSUME TypeOK, Streaks, UNCHANGED <<db.failures, db.successes>>,
         (record' = record /\ spacing' = spacing) \/ spacing' = CounterBound,
         record' \in Contents,
         \A c \in Callers :
           \/ call'[c].pc \notin {"switch", "get", "put"} \/ ~call'[c].auto
           \/ /\ call[c].pc \in {"switch", "get", "put"} /\ call[c].auto
              /\ call'[c].target = call[c].target
  PROVE  Streaks'
BY DnsAssumption DEF Streaks, TypeOK, Contents, Targets

\* A recorded check advances the spacing and one streak, and ends the other;
\* it decides on a target only when that target's streak is long enough.
LEMMA StreaksCounted ==
  ASSUME TypeOK, Streaks, NEW w \in Callers, Callers = {w},
         PeakEnabled = FALSE, Evaluate(w)
  PROVE  Streaks'
<1> DEFINE ok == call[w].probeOk
           failures == IF ok THEN 0 ELSE Bump(db.failures)
           successes == IF ok THEN Bump(db.successes) ELSE 0
           decided == Transition(db.target, failures, successes, ok, Preferred)
<1>1. /\ db' = [db EXCEPT !.failures = failures, !.successes = successes,
                          !.error = FALSE]
      /\ \/ call' = [call EXCEPT ![w] = Idle]
         \/ \E t \in decided :
              call' = [call EXCEPT ![w] = [call[w] EXCEPT
                         !.pc = "switch", !.target = t, !.auto = TRUE]]
      /\ spacing' = Bump(spacing)
      /\ record' = record
  BY DEF Evaluate, Finish
<1>2. /\ db.failures \in 0..CounterBound
      /\ db.successes \in 0..CounterBound
      /\ spacing \in 0..CounterBound
      /\ record \in Contents
  BY DEF TypeOK
<1>3. ASSUME NEW t \in decided
      PROVE  /\ t = "backup" => failures >= FailureThreshold
             /\ t # "backup" => successes >= RecoveryThreshold
  <2>1. Preferred = "primary"
    BY DEF Preferred
  <2> HIDE DEF ok, failures, successes
  <2> QED BY <1>3, <2>1 DEF Transition, Other
<1>4. /\ db'.failures = failures
      /\ db'.successes = successes
  <2> HIDE DEF failures, successes, decided
  <2> QED BY <1>1 DEF TypeOK
<1>5. /\ failures = 0 \/ successes = 0
      /\ record = "primary" => failures <= Bump(spacing)
      /\ record = "backup" => successes <= Bump(spacing)
      /\ record = "foreign" => Bump(spacing) = CounterBound
  BY <1>2, DnsAssumption DEF Streaks, Bump
<1> HIDE DEF failures, successes, decided
<1>6. ASSUME NEW c \in Callers,
             call'[c].pc \in {"switch", "get", "put"}, call'[c].auto
      PROVE  IF call'[c].target = "backup" THEN failures >= FailureThreshold
                                           ELSE successes >= RecoveryThreshold
  <2>1. c = w
    OBVIOUS
  <2>2. CASE call' = [call EXCEPT ![w] = Idle]
    BY <1>6, <2>1, <2>2 DEF TypeOK, Idle
  <2>3. ASSUME NEW t \in decided,
               call' = [call EXCEPT ![w] = [call[w] EXCEPT
                          !.pc = "switch", !.target = t, !.auto = TRUE]]
        PROVE  IF call'[c].target = "backup" THEN failures >= FailureThreshold
                                             ELSE successes >= RecoveryThreshold
    <3>1. call'[w] = [call[w] EXCEPT !.pc = "switch", !.target = t,
                                     !.auto = TRUE]
      BY <2>3 DEF TypeOK
    <3>2. call'[w].target = t
      BY <3>1 DEF TypeOK, Call
    <3> QED BY <1>3, <2>1, <3>2
  <2> QED BY <1>1, <2>2, <2>3
<1> QED BY <1>1, <1>4, <1>5, <1>6 DEF Streaks

\* The record is moved on a streak that spans the checks since it was last
\* moved, and its new streak starts from nothing.
LEMMA StreaksMoved ==
  ASSUME TypeOK, Streaks, NEW w \in Callers, Callers = {w},
         call[w].pc = "put", record' = call[w].target, db' = db,
         spacing' = (IF call[w].auto THEN 0 ELSE CounterBound),
         call'[w].pc \notin {"switch", "get", "put"}
  PROVE  /\ Streaks'
         /\ record' # record /\ spacing' = 0
              => spacing >= (IF record' = "backup" THEN FailureThreshold
                             ELSE RecoveryThreshold)
<1>1. /\ db.failures \in 0..CounterBound
      /\ db.successes \in 0..CounterBound
      /\ spacing \in 0..CounterBound
      /\ record \in Contents
      /\ call[w].target \in Targets
  BY DEF TypeOK, Call
<1>2. CASE call[w].auto
  BY <1>1, <1>2, DnsAssumption DEF Streaks, Contents, Targets
<1>3. CASE ~call[w].auto
  <2>1. spacing' = CounterBound /\ CounterBound # 0
    BY <1>3, DnsAssumption
  <2> QED BY <1>1, <2>1 DEF Streaks, Targets
<1> QED BY <1>2, <1>3

\* Every step of the worker alone keeps the streaks and the spacing.
LEMMA StreaksStep ==
  ASSUME TypeOK, TypeOK', Streaks, NEW w \in Callers, Callers = {w},
         PeakEnabled = FALSE, [Next]_vars
  PROVE  /\ Streaks'
         /\ record' # record /\ spacing' = 0
              => spacing >= (IF record' = "backup" THEN FailureThreshold
                             ELSE RecoveryThreshold)
<1>1. CASE Evaluate(w)
  BY <1>1, StreaksCounted DEF Evaluate
<1>2. CASE PutRecord(w) \/ PutLost(w)
  <2>1. call'[w].pc \notin {"switch", "get", "put"}
    BY <1>2 DEF PutRecord, PutLost, Goto, Finish, Idle, TypeOK, Call
  <2> QED BY <1>2, <2>1, StreaksMoved DEF PutRecord, PutLost, At, NotePut
<1>3. CASE \/ StartCheck(w) \/ RecordSkip(w) \/ Probe(w) \/ StartSwitch(w)
           \/ GetRecord(w) \/ RecordNoop(w) \/ RecordSwitch(w)
           \/ RecordError(w) \/ ManualSwitch(w) \/ GetFails(w) \/ PutFails(w)
           \/ DatabaseFails(w)
  <2>1. record' = record /\ spacing' = spacing
    BY <1>3 DEF StartCheck, RecordSkip, Probe, StartSwitch, GetRecord,
                RecordNoop, RecordSwitch, RecordError, ManualSwitch, GetFails,
                PutFails, DatabaseFails, history
  <2>2. UNCHANGED <<db.failures, db.successes>>
    BY <1>3 DEF StartCheck, RecordSkip, Probe, StartSwitch, GetRecord,
                RecordNoop, RecordSwitch, RecordError, ManualSwitch, GetFails,
                PutFails, DatabaseFails, TypeOK
  <2>3. \/ call'[w].pc \notin {"switch", "get", "put"} \/ ~call'[w].auto
        \/ /\ call[w].pc \in {"switch", "get", "put"} /\ call[w].auto
           /\ call'[w].target = call[w].target
    <3>1. call \in [Callers -> Call]
      BY DEF TypeOK
    <3>2. CASE Finish(w)
      BY <3>1, <3>2 DEF Finish, Idle
    <3>3. ASSUME NEW pc, Goto(w, pc), pc \notin {"switch", "get", "put"}
          PROVE  call'[w].pc \notin {"switch", "get", "put"}
      BY <3>1, <3>3 DEF Goto, Call
    <3>4. ASSUME NEW pc, Goto(w, pc), call[w].pc \in {"switch", "get"}
          PROVE  \/ ~call'[w].auto
                 \/ /\ call[w].pc \in {"switch", "get", "put"} /\ call[w].auto
                    /\ call'[w].target = call[w].target
      BY <3>1, <3>4 DEF Goto, Call
    <3>5. CASE Probe(w)
      BY <3>1, <3>5 DEF Probe, Call
    <3>6. CASE ManualSwitch(w)
      BY <3>1, <3>6 DEF ManualSwitch, Call
    <3> QED
      BY <1>3, <3>2, <3>3, <3>4, <3>5, <3>6
      DEF StartCheck, RecordSkip, StartSwitch, GetRecord, RecordNoop,
          RecordSwitch, RecordError, GetFails, PutFails, DatabaseFails, At
  <2> QED BY <2>1, <2>2, <2>3, StreaksUndisturbed DEF TypeOK
<1>4. CASE Crash
  BY <1>4, StreaksUndisturbed DEF Crash, Idle, TypeOK
<1>5. CASE \/ Restart \/ RefreshRead \/ RefreshReadFails \/ RefreshStore
           \/ RefreshStoreError \/ RefreshStoreFails
  <2>1. UNCHANGED <<db.failures, db.successes, record, spacing, call>>
    BY <1>5 DEF Restart, RefreshRead, RefreshReadFails, RefreshStore,
                RefreshStoreError, RefreshStoreFails, TypeOK, history
  <2> QED BY <2>1, StreaksUndisturbed DEF TypeOK
<1>6. CASE PrimaryFlips \/ ResolverFails \/ ResolverRecovers \/ UNCHANGED vars
  BY <1>6, StreaksUndisturbed
  DEF PrimaryFlips, ResolverFails, ResolverRecovers, vars, history, TypeOK
<1>7. CASE ExternalEdit
  <2>1. spacing' = CounterBound /\ CounterBound # 0
    BY <1>7, DnsAssumption DEF ExternalEdit
  <2> QED BY <1>7, <2>1, StreaksUndisturbed DEF ExternalEdit, TypeOK
<1>8. ~WindowFlips
  BY DEF WindowFlips
<1> QED BY <1>1, <1>2, <1>3, <1>4, <1>5, <1>6, <1>7, <1>8
        DEF Next, CheckStep, SwitchStep, CallFault, Booting, Environment

\* With one caller and no peak window, whatever faults, restarts, edits and
\* manual switches there are, two automatic moves of the record are at least
\* the threshold of recorded checks apart.
THEOREM AutoSwitchesAreSpaced ==
  ASSUME NEW w \in Callers, Callers = {w}, PeakEnabled = FALSE
  PROVE  Spec => AutoSwitchesSpaced
<1>1. Init => Streaks
  BY DnsAssumption DEF Init, Streaks, Idle
<1>2. TypeOK /\ TypeOK' /\ Streaks /\ [Next]_vars => Streaks'
  BY StreaksStep
<1>3. TypeOK /\ TypeOK' /\ Streaks /\ [Next]_vars
        => [ record' # record /\ spacing' = 0
             => spacing >= (IF record' = "backup" THEN FailureThreshold
                            ELSE RecoveryThreshold) ]_vars
  BY StreaksStep
<1> QED BY <1>1, <1>2, <1>3, TypeCorrect, PTL DEF Spec, AutoSwitchesSpaced

(***************************************************************************)
(* NeverToDeadPrimary fails inside a peak window (run dns_peak); without   *)
(* one it holds, for any callers: what a call aims at is only the primary  *)
(* when its own probe has succeeded, and it carries both along.            *)
(***************************************************************************)
AimsByProbe ==
  \A c \in Callers :
    call[c].pc \in {"switch", "get", "put"} /\ call[c].auto
    /\ call[c].target = "primary" => call[c].probeOk

\* Steps of a caller that keep what it aims at, or give it up.
LEMMA AimKept ==
  ASSUME TypeOK, AimsByProbe, NEW c \in Callers,
         \/ Finish(c)
         \/ \E pc : /\ Goto(c, pc)
                    /\ \/ pc \notin {"switch", "get", "put"}
                       \/ call[c].pc \in {"switch", "get", "put"}
  PROVE  AimsByProbe'
<1>1. call \in [Callers -> Call]
  BY DEF TypeOK
<1>2. CASE Finish(c)
  BY <1>1, <1>2 DEF Finish, Idle, AimsByProbe
<1>3. ASSUME NEW pc, Goto(c, pc),
             \/ pc \notin {"switch", "get", "put"}
             \/ call[c].pc \in {"switch", "get", "put"}
      PROVE  AimsByProbe'
  <2>1. /\ call'[c].pc = pc
        /\ call'[c].auto = call[c].auto
        /\ call'[c].target = call[c].target
        /\ call'[c].probeOk = call[c].probeOk
        /\ \A o \in Callers \ {c} : call'[o] = call[o]
    BY <1>1, <1>3 DEF Goto, Call
  <2> QED BY <1>3, <2>1 DEF AimsByProbe
<1> QED BY <1>2, <1>3

\* Outside a peak window the decision is for the primary on a success only.
LEMMA AimDecided ==
  ASSUME TypeOK, AimsByProbe, PeakEnabled = FALSE, NEW c \in Callers, Evaluate(c)
  PROVE  AimsByProbe'
<1> DEFINE ok == call[c].probeOk
           failures == IF ok THEN 0 ELSE Bump(db.failures)
           successes == IF ok THEN Bump(db.successes) ELSE 0
           decided == Transition(db.target, failures, successes, ok, Preferred)
<1>1. \/ call' = [call EXCEPT ![c] = Idle]
      \/ \E t \in decided :
           call' = [call EXCEPT ![c] = [call[c] EXCEPT
                      !.pc = "switch", !.target = t, !.auto = TRUE]]
  BY DEF Evaluate, Finish
<1>2. ASSUME NEW t \in decided, t = "primary"
      PROVE  ok
  <2>1. Preferred = "primary"
    BY DEF Preferred
  <2> HIDE DEF ok, failures, successes
  <2> QED BY <1>2, <2>1 DEF Transition, Other
<1> HIDE DEF failures, successes, decided
<1>3. CASE call' = [call EXCEPT ![c] = Idle]
  BY <1>3 DEF TypeOK, Idle, AimsByProbe
<1>4. ASSUME NEW t \in decided,
             call' = [call EXCEPT ![c] = [call[c] EXCEPT
                        !.pc = "switch", !.target = t, !.auto = TRUE]]
      PROVE  AimsByProbe'
  <2>1. call \in [Callers -> Call]
    BY DEF TypeOK
  <2>2. call'[c].target = t /\ call'[c].probeOk = ok
    BY <1>4, <2>1 DEF Call
  <2>3. \A o \in Callers \ {c} : call'[o] = call[o]
    BY <1>4, <2>1
  <2> QED BY <1>2, <2>2, <2>3 DEF AimsByProbe
<1> QED BY <1>1, <1>3, <1>4

\* Without a peak window the record is never moved automatically to a primary
\* whose probe failed, however calls, faults and restarts interleave.
THEOREM PrimaryOnlyWhenProbed ==
  ASSUME PeakEnabled = FALSE
  PROVE  Spec => NeverToDeadPrimary
<1>1. Init => AimsByProbe
  BY DEF Init, AimsByProbe, Idle
<1>2. TypeOK /\ AimsByProbe /\ [Next]_vars => AimsByProbe'
  <2> SUFFICES ASSUME TypeOK, AimsByProbe, [Next]_vars
               PROVE  AimsByProbe'
    OBVIOUS
  <2>1. ASSUME NEW c \in Callers, Evaluate(c)
        PROVE  AimsByProbe'
    BY <2>1, AimDecided
  <2>2. ASSUME NEW c \in Callers,
               \/ StartCheck(c) \/ RecordSkip(c) \/ StartSwitch(c)
               \/ GetRecord(c) \/ RecordNoop(c) \/ PutRecord(c)
               \/ RecordSwitch(c) \/ RecordError(c) \/ GetFails(c)
               \/ PutFails(c) \/ PutLost(c) \/ DatabaseFails(c)
        PROVE  AimsByProbe'
    BY <2>2, AimKept
    DEF StartCheck, RecordSkip, StartSwitch, GetRecord, RecordNoop, PutRecord,
        RecordSwitch, RecordError, GetFails, PutFails, PutLost, DatabaseFails,
        At
  <2>3. ASSUME NEW c \in Callers, Probe(c)
        PROVE  AimsByProbe'
    BY <2>3 DEF Probe, TypeOK, Call, AimsByProbe
  <2>4. ASSUME NEW c \in Callers, ManualSwitch(c)
        PROVE  AimsByProbe'
    BY <2>4 DEF ManualSwitch, TypeOK, Call, AimsByProbe
  <2>5. CASE Crash
    BY <2>5 DEF Crash, Idle, AimsByProbe
  <2>6. CASE \/ Restart \/ RefreshRead \/ RefreshReadFails \/ RefreshStore
             \/ RefreshStoreError \/ RefreshStoreFails \/ PrimaryFlips
             \/ WindowFlips \/ ResolverFails \/ ResolverRecovers
             \/ ExternalEdit \/ UNCHANGED vars
    BY <2>6
    DEF Restart, RefreshRead, RefreshReadFails, RefreshStore,
        RefreshStoreError, RefreshStoreFails, PrimaryFlips, WindowFlips,
        ResolverFails, ResolverRecovers, ExternalEdit, vars, AimsByProbe
  <2> QED
    BY <2>1, <2>2, <2>3, <2>4, <2>5, <2>6
    DEF Next, CheckStep, SwitchStep, CallFault, Booting, Environment
<1>3. TypeOK /\ AimsByProbe /\ [Next]_vars
        => [ \A c \in Callers :
               call[c].pc = "put" /\ call[c].auto /\ call'[c].pc = "written"
               /\ record' = "primary" => call[c].probeOk ]_vars
  <2> SUFFICES ASSUME TypeOK, AimsByProbe, [Next]_vars, NEW c \in Callers,
                      call[c].pc = "put", call[c].auto,
                      call'[c].pc = "written", record' = "primary"
               PROVE  call[c].probeOk
    OBVIOUS
  <2>1. call \in [Callers -> Call]
    BY DEF TypeOK
  <2>2. call' # call
    OBVIOUS
  <2>3. ASSUME NEW o \in Callers, o # c,
               \/ CheckStep(o) \/ SwitchStep(o) \/ ManualSwitch(o)
               \/ CallFault(o)
        PROVE  call'[c] = call[c]
    BY <2>1, <2>3
    DEF CheckStep, SwitchStep, CallFault, StartCheck, RecordSkip, Probe,
        Evaluate, ManualSwitch, StartSwitch, GetRecord, RecordNoop, PutRecord,
        RecordSwitch, RecordError, GetFails, PutFails, PutLost, DatabaseFails,
        Goto, Finish
  <2>4. CASE CheckStep(c) \/ ManualSwitch(c) \/ StartSwitch(c) \/ GetRecord(c)
             \/ RecordNoop(c) \/ RecordSwitch(c) \/ RecordError(c)
             \/ GetFails(c) \/ DatabaseFails(c)
    BY <2>4
    DEF CheckStep, StartCheck, RecordSkip, Probe, Evaluate, ManualSwitch,
        StartSwitch, GetRecord, RecordNoop, RecordSwitch, RecordError,
        GetFails, DatabaseFails, At
  <2>5. CASE PutFails(c) \/ PutLost(c)
    BY <2>1, <2>5 DEF PutFails, PutLost, Goto, Finish, Idle, Call
  <2>6. CASE PutRecord(c)
    BY <2>6 DEF PutRecord, AimsByProbe
  <2>7. CASE Crash
    BY <2>7 DEF Crash, Idle
  <2> QED
    BY <2>2, <2>3, <2>4, <2>5, <2>6, <2>7
    DEF Next, SwitchStep, CallFault, Booting, Environment, Restart,
        RefreshRead, RefreshReadFails, RefreshStore, RefreshStoreError,
        RefreshStoreFails, PrimaryFlips, WindowFlips, ResolverFails,
        ResolverRecovers, ExternalEdit, vars
<1> QED BY <1>1, <1>2, <1>3, TypeCorrect, PTL DEF Spec, NeverToDeadPrimary

=============================================================================
