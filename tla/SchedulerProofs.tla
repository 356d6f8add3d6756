--------------------------- MODULE SchedulerProofs ---------------------------
(***************************************************************************)
(* TLAPS proofs about Scheduler, for every set of jobs, every pair of caps  *)
(* and every Retry-After.  TypeOK is inductive by itself; the caps need the *)
(* counters to be the true numbers of running calls; the absence of lost    *)
(* wake-ups needs every pause to keep a timer.                              *)
(***************************************************************************)
EXTENDS Scheduler, FiniteSetTheorems, TLAPS

\* The type invariant: in particular the two counters never go below zero and
\* a pause never ends outside the clock's bound.
THEOREM TypeCorrect == Spec => []TypeOK
<1>. USE JobsAssumption, LimitsAssumption, BoundsAssumption
     DEF TypeOK, Statuses, Timer
<1>1. Init => TypeOK
  BY DEF Init
<1>2. TypeOK /\ [Next]_vars => TypeOK'
  <2>. SUFFICES ASSUME TypeOK, [Next]_vars
                PROVE  TypeOK'
    OBVIOUS
  <2>. USE DEF queueVars, pauseVars
  <2>1. ASSUME NEW j \in Jobs, Submit(j) PROVE TypeOK'
    BY <2>1 DEF Submit
  <2>2. ASSUME NEW j \in Jobs, Dispatch(j) PROVE TypeOK'
    BY <2>2 DEF Dispatch
  <2>3. ASSUME NEW j \in Jobs, Settle(j) PROVE TypeOK'
    BY <2>3 DEF Settle, Release
  <2>4. CASE PumpDone
    BY <2>4 DEF PumpDone
  <2>5. CASE PauseModel
    <3>. DEFINE m == backoff.model
                until == now + backoff.ms
    <3>1. backoff \in [model : Models, ms : 0..MaxTime]
      BY <2>5 DEF PauseModel
    <3>2. until \in 0..MaxTime
      BY <2>5 DEF PauseModel
    <3>. QED
      BY <2>5, <3>1, <3>2 DEF PauseModel
  <2>6. ASSUME NEW t \in timers, Expire(t) PROVE TypeOK'
    BY <2>6 DEF Expire
  <2>7. ASSUME NEW s \in Signals, Abort(s) PROVE TypeOK'
    BY <2>7 DEF Abort
  <2>8. CASE Tick
    BY <2>8 DEF Tick, Quiet
  <2>9. CASE UNCHANGED vars
    BY <2>9 DEF vars
  <2>. QED
    BY <2>1, <2>2, <2>3, <2>4, <2>5, <2>6, <2>7, <2>8, <2>9 DEF Next
<1>. QED
  BY <1>1, <1>2, PTL DEF Spec

-----------------------------------------------------------------------------
(***************************************************************************)
(* The caps.                                                                *)
(***************************************************************************)

\* What makes CapsRespected inductive: the numbers pickNext() and pump() test
\* are the numbers of running calls, and they are within the caps.
CapInv ==
  /\ CountersExact
  /\ inFlight <= GlobalLimit
  /\ \A m \in Models : perModel[m] <= PerModelLimit

\* The sets of running calls are finite, so their cardinalities are numbers.
LEMMA RunningFinite ==
  ASSUME TypeOK
  PROVE  /\ IsFiniteSet(Running)
         /\ Cardinality(Running) \in Nat
         /\ \A m \in Models : /\ IsFiniteSet(RunningOn(m))
                              /\ Cardinality(RunningOn(m)) \in Nat
<1>1. Running \in SUBSET Jobs /\ \A m \in Models : RunningOn(m) \in SUBSET Jobs
  BY DEF Running, RunningOn
<1>2. IsFiniteSet(Running) /\ \A m \in Models : IsFiniteSet(RunningOn(m))
  BY <1>1, JobsAssumption, FS_Subset
<1>. QED
  BY <1>2, FS_CardinalityType

\* A step that leaves the running calls and the counters alone keeps CapInv.
LEMMA CapFrame ==
  ASSUME CapInv, Running' = Running, inFlight' = inFlight, perModel' = perModel
  PROVE  CapInv'
<1>1. \A m \in Models : RunningOn(m)' = RunningOn(m)
  BY DEF RunningOn
<1>. QED
  BY <1>1 DEF CapInv, CountersExact

\* Dispatch adds one call to the running ones, and to those of its model only.
LEMMA DispatchRunning ==
  ASSUME TypeOK, NEW j \in Jobs, Dispatch(j)
  PROVE  /\ j \notin Running
         /\ Running' = Running \cup {j}
         /\ RunningOn(ModelOf[j])' = RunningOn(ModelOf[j]) \cup {j}
         /\ \A m \in Models \ {ModelOf[j]} : RunningOn(m)' = RunningOn(m)
<1>1. status[j] = "waiting" /\ status' = [status EXCEPT ![j] = "running"]
  BY DEF Dispatch, IsNext, Eligible, Waiting
<1>2. j \notin Running /\ Running' = Running \cup {j}
  BY <1>1 DEF TypeOK, Running
<1>. QED
  BY <1>2 DEF RunningOn

\* Settle removes one call from the running ones, and from those of its model.
LEMMA SettleRunning ==
  ASSUME TypeOK, NEW j \in Jobs, Settle(j)
  PROVE  /\ j \in Running
         /\ Running' = Running \ {j}
         /\ RunningOn(ModelOf[j])' = RunningOn(ModelOf[j]) \ {j}
         /\ \A m \in Models \ {ModelOf[j]} : RunningOn(m)' = RunningOn(m)
<1>1. status[j] = "running" /\ status' = [status EXCEPT ![j] = "settled"]
  BY DEF Settle, Release
<1>2. j \in Running /\ Running' = Running \ {j}
  BY <1>1 DEF TypeOK, Running
<1>. QED
  BY <1>2 DEF RunningOn

LEMMA CapStep ==
  ASSUME TypeOK, CapInv, [Next]_vars
  PROVE  CapInv'
<1>. USE DEF queueVars, pauseVars
<1>1. ASSUME NEW j \in Jobs, Submit(j) PROVE CapInv'
  <2>1. Running' = Running
    BY <1>1 DEF Submit, Running, TypeOK
  <2>. QED
    BY <1>1, <2>1, CapFrame DEF Submit
<1>2. ASSUME NEW j \in Jobs, Dispatch(j) PROVE CapInv'
  <2>. DEFINE m == ModelOf[j]
  <2>1. m \in Models
    BY JobsAssumption
  <2>2. inFlight < GlobalLimit /\ perModel[m] < PerModelLimit
    BY <1>2 DEF Dispatch, IsNext, Eligible
  <2>3. inFlight' = inFlight + 1 /\ perModel' = [perModel EXCEPT ![m] = @ + 1]
    BY <1>2 DEF Dispatch
  <2>4. Cardinality(Running') = Cardinality(Running) + 1
    BY <1>2, DispatchRunning, RunningFinite, FS_AddElement
  <2>5. j \notin RunningOn(m)
    BY <1>2, DispatchRunning DEF RunningOn
  <2>6. Cardinality(RunningOn(m)') = Cardinality(RunningOn(m)) + 1
    <3>1. RunningOn(m)' = RunningOn(m) \cup {j}
      BY <1>2, DispatchRunning
    <3>2. IsFiniteSet(RunningOn(m))
      BY <2>1, RunningFinite
    <3>. QED
      BY <2>5, <3>1, <3>2, FS_AddElement
  <2>7. \A n \in Models : Cardinality(RunningOn(n)') = perModel'[n]
    BY <1>2, <2>1, <2>3, <2>6, DispatchRunning DEF CapInv, CountersExact, TypeOK
  <2>8. \A n \in Models : perModel'[n] <= PerModelLimit
    BY <2>1, <2>2, <2>3, LimitsAssumption DEF CapInv, TypeOK
  <2>. QED
    BY <2>2, <2>3, <2>4, <2>7, <2>8, LimitsAssumption
    DEF CapInv, CountersExact, TypeOK
<1>3. ASSUME NEW j \in Jobs, Settle(j) PROVE CapInv'
  <2>. DEFINE m == ModelOf[j]
  <2>1. m \in Models
    BY JobsAssumption
  <2>2. inFlight' = inFlight - 1
    BY <1>3 DEF Settle, Release
  <2>3. perModel' = [perModel EXCEPT ![m] = IF @ > 0 THEN @ - 1 ELSE 0]
    BY <1>3 DEF Settle, Release
  <2>4. Cardinality(Running') = Cardinality(Running) - 1
    BY <1>3, SettleRunning, RunningFinite, FS_RemoveElement
  <2>5. j \in RunningOn(m)
    BY <1>3, SettleRunning DEF RunningOn
  <2>6. Cardinality(RunningOn(m)') = Cardinality(RunningOn(m)) - 1
    <3>1. RunningOn(m)' = RunningOn(m) \ {j}
      BY <1>3, SettleRunning
    <3>2. IsFiniteSet(RunningOn(m))
      BY <2>1, RunningFinite
    <3>. QED
      BY <2>5, <3>1, <3>2, FS_RemoveElement
  <2>7. perModel[m] > 0
    BY <2>1, <2>5, RunningFinite, FS_EmptySet DEF CapInv, CountersExact
  <2>8. \A n \in Models : Cardinality(RunningOn(n)') = perModel'[n]
    BY <1>3, <2>1, <2>3, <2>6, <2>7, SettleRunning DEF CapInv, CountersExact, TypeOK
  <2>9. \A n \in Models : perModel'[n] <= PerModelLimit
    BY <2>1, <2>3, LimitsAssumption DEF CapInv, TypeOK
  <2>. QED
    BY <2>2, <2>4, <2>8, <2>9, LimitsAssumption DEF CapInv, CountersExact, TypeOK
<1>4. CASE PumpDone
  <2>1. Running' = Running
    BY <1>4 DEF PumpDone, Running
  <2>. QED
    BY <1>4, <2>1, CapFrame DEF PumpDone
<1>5. CASE PauseModel
  <2>1. Running' = Running
    BY <1>5 DEF PauseModel, Running
  <2>. QED
    BY <1>5, <2>1, CapFrame DEF PauseModel
<1>6. ASSUME NEW t \in timers, Expire(t) PROVE CapInv'
  <2>1. Running' = Running
    BY <1>6 DEF Expire, Running
  <2>. QED
    BY <1>6, <2>1, CapFrame DEF Expire
<1>7. ASSUME NEW s \in Signals, Abort(s) PROVE CapInv'
  <2>1. Running' = Running
    BY <1>7 DEF Abort, Running
  <2>. QED
    BY <1>7, <2>1, CapFrame DEF Abort
<1>8. CASE Tick
  <2>1. Running' = Running
    BY <1>8 DEF Tick, Running
  <2>. QED
    BY <1>8, <2>1, CapFrame DEF Tick
<1>9. CASE UNCHANGED vars
  <2>1. Running' = Running
    BY <1>9 DEF vars, Running
  <2>. QED
    BY <1>9, <2>1, CapFrame DEF vars
<1>. QED
  BY <1>1, <1>2, <1>3, <1>4, <1>5, <1>6, <1>7, <1>8, <1>9 DEF Next

LEMMA CapInvariant == Spec => []CapInv
<1>1. Init => CapInv
  <2>. SUFFICES ASSUME Init PROVE CapInv
    OBVIOUS
  <2>1. Running = {} /\ \A m \in Models : RunningOn(m) = {}
    BY DEF Init, Running, RunningOn
  <2>. QED
    BY <2>1, FS_EmptySet, LimitsAssumption DEF Init, CapInv, CountersExact
<1>. QED
  BY <1>1, CapStep, TypeCorrect, PTL DEF Spec

\* The counters never drift from the number of calls in flight, for any number
\* of jobs and models.
THEOREM CountersAreExact == Spec => []CountersExact
BY CapInvariant, PTL DEF CapInv

\* Neither cap is ever exceeded by the calls really in flight.
THEOREM CapsHold == Spec => []CapsRespected
<1>1. TypeOK /\ CapInv => CapsRespected
  BY DEF CapInv, CountersExact, CapsRespected
<1>. QED
  BY <1>1, TypeCorrect, CapInvariant, PTL

-----------------------------------------------------------------------------
(***************************************************************************)
(* No lost wake-up.                                                         *)
(***************************************************************************)

\* A paused model has a timer; and when pump() has returned with a slot free,
\* each call still queued is held by its model's cap or its model's pause.
WakeInv ==
  /\ \A m \in Models : pausedUntil[m] > 0 => \E t \in timers : t.model = m
  /\ turn = "rest" /\ inFlight < GlobalLimit =>
       \A j \in Waiting : \/ perModel[ModelOf[j]] >= PerModelLimit
                         \/ pausedUntil[ModelOf[j]] > 0

LEMMA WakeStep ==
  ASSUME TypeOK, WakeInv, [Next]_vars
  PROVE  WakeInv'
<1>. USE JobsAssumption DEF queueVars, pauseVars, WakeInv, Waiting
<1>1. ASSUME NEW j \in Jobs, Submit(j) PROVE WakeInv'
  BY <1>1 DEF Submit, TypeOK
<1>2. ASSUME NEW j \in Jobs, Dispatch(j) PROVE WakeInv'
  BY <1>2 DEF Dispatch
<1>3. ASSUME NEW j \in Jobs, Settle(j) PROVE WakeInv'
  BY <1>3 DEF Settle, Release
<1>4. CASE PumpDone
  <2>1. ASSUME inFlight < GlobalLimit, NEW j \in Waiting
        PROVE  \/ perModel[ModelOf[j]] >= PerModelLimit
               \/ pausedUntil[ModelOf[j]] > 0
    <3>1. j \notin Eligible /\ ModelOf[j] \in Models
      BY <1>4, <2>1 DEF PumpDone
    <3>. QED
      BY <3>1, LimitsAssumption, BoundsAssumption DEF Eligible, TypeOK
  <2>. QED
    BY <1>4, <2>1 DEF PumpDone
<1>5. CASE PauseModel
  <2>1. \A m \in Models : pausedUntil[m] > 0 => pausedUntil'[m] > 0
    BY <1>5, BoundsAssumption DEF PauseModel, TypeOK
  <2>2. \A m \in Models : pausedUntil'[m] > 0 => \E t \in timers' : t.model = m
    <3>. SUFFICES ASSUME NEW m \in Models, pausedUntil'[m] > 0
                  PROVE  \E t \in timers' : t.model = m
      OBVIOUS
    <3>1. CASE pausedUntil'[m] = pausedUntil[m]
      BY <1>5, <3>1 DEF PauseModel
    <3>2. CASE pausedUntil'[m] # pausedUntil[m]
      <4>1. m = backoff.model
        BY <1>5, <3>2 DEF PauseModel, TypeOK
      <4>2. [id |-> pauses', model |-> m, due |-> now + backoff.ms] \in timers'
        BY <1>5, <3>2, <4>1 DEF PauseModel
      <4>. QED
        BY <4>2
    <3>. QED
      BY <3>1, <3>2
  <2>. QED
    BY <1>5, <2>1, <2>2 DEF PauseModel
<1>6. ASSUME NEW t \in timers, Expire(t) PROVE WakeInv'
  <2>1. \A m \in Models : pausedUntil'[m] > 0 => m # t.model /\ pausedUntil[m] > 0
    BY <1>6 DEF Expire, TypeOK
  <2>. QED
    BY <1>6, <2>1 DEF Expire
<1>7. ASSUME NEW s \in Signals, Abort(s) PROVE WakeInv'
  BY <1>7 DEF Abort
<1>8. CASE Tick
  BY <1>8 DEF Tick
<1>9. CASE UNCHANGED vars
  BY <1>9 DEF vars
<1>. QED
  BY <1>1, <1>2, <1>3, <1>4, <1>5, <1>6, <1>7, <1>8, <1>9 DEF Next

\* A call is never left in the queue with a free slot and nothing pending that
\* would pump again.
THEOREM NoWakeupLost == Spec => []NoLostWakeup
<1>1. Init => WakeInv
  BY DEF Init, WakeInv, Waiting
<1>2. Spec => []WakeInv
  BY <1>1, WakeStep, TypeCorrect, PTL DEF Spec
<1>3. TypeOK /\ CapInv /\ WakeInv => NoLostWakeup
  <2>. SUFFICES ASSUME TypeOK, CapInv, WakeInv, Quiet, inFlight < GlobalLimit,
                       NEW j \in Waiting
                PROVE  \/ RunningOn(ModelOf[j]) # {}
                       \/ \E t \in timers : t.model = ModelOf[j]
    BY DEF NoLostWakeup
  <2>1. ModelOf[j] \in Models
    BY JobsAssumption DEF Waiting
  <2>2. CASE perModel[ModelOf[j]] >= PerModelLimit
    <3>1. Cardinality(RunningOn(ModelOf[j])) > 0
      BY <2>1, <2>2, LimitsAssumption DEF CapInv, CountersExact, TypeOK
    <3>. QED
      BY <3>1, FS_EmptySet
  <2>3. CASE pausedUntil[ModelOf[j]] > 0
    BY <2>1, <2>3 DEF WakeInv
  <2>. QED
    BY <2>2, <2>3 DEF WakeInv, Quiet
<1>. QED
  BY <1>2, <1>3, TypeCorrect, CapInvariant, PTL

-----------------------------------------------------------------------------
(***************************************************************************)
(* Aborted calls, and the refinement of AdmissionControl.                   *)
(***************************************************************************)

\* A fired signal leaves nothing of its run in the queue.
AbortInv == \A j \in Waiting : SignalOf[j] \notin aborted

LEMMA AbortStep ==
  ASSUME TypeOK, AbortInv, [Next]_vars
  PROVE  AbortInv'
<1>. USE DEF queueVars, pauseVars, AbortInv, Waiting
<1>1. ASSUME NEW j \in Jobs, Submit(j) PROVE AbortInv'
  BY <1>1 DEF Submit, TypeOK
<1>2. ASSUME NEW j \in Jobs, Dispatch(j) PROVE AbortInv'
  BY <1>2 DEF Dispatch, TypeOK
<1>3. ASSUME NEW j \in Jobs, Settle(j) PROVE AbortInv'
  BY <1>3 DEF Settle, Release, TypeOK
<1>4. CASE PumpDone
  BY <1>4 DEF PumpDone
<1>5. CASE PauseModel
  BY <1>5 DEF PauseModel
<1>6. ASSUME NEW t \in timers, Expire(t) PROVE AbortInv'
  BY <1>6 DEF Expire
<1>7. ASSUME NEW s \in Signals, Abort(s) PROVE AbortInv'
  BY <1>7 DEF Abort
<1>8. CASE Tick
  BY <1>8 DEF Tick
<1>9. CASE UNCHANGED vars
  BY <1>9 DEF vars
<1>. QED
  BY <1>1, <1>2, <1>3, <1>4, <1>5, <1>6, <1>7, <1>8, <1>9 DEF Next

\* Only Dispatch starts a call.
LEMMA OnlyDispatchStarts ==
  ASSUME TypeOK, [Next]_vars, NEW j \in Jobs, Starts(j)
  PROVE  Dispatch(j)
<1>. USE DEF queueVars, pauseVars, Starts
<1>1. ASSUME NEW k \in Jobs, Submit(k) PROVE FALSE
  BY <1>1 DEF Submit, TypeOK
<1>2. ASSUME NEW k \in Jobs, Dispatch(k) PROVE k = j
  BY <1>2 DEF Dispatch, TypeOK
<1>3. ASSUME NEW k \in Jobs, Settle(k) PROVE FALSE
  BY <1>3 DEF Settle, Release, TypeOK
<1>4. ~PumpDone /\ ~PauseModel /\ ~Tick /\ ~UNCHANGED vars
  BY DEF PumpDone, PauseModel, Tick, vars
<1>5. ASSUME NEW t \in timers, Expire(t) PROVE FALSE
  BY <1>5 DEF Expire
<1>6. ASSUME NEW s \in Signals, Abort(s) PROVE FALSE
  BY <1>6 DEF Abort
<1>. QED
  BY <1>1, <1>2, <1>3, <1>4, <1>5, <1>6 DEF Next

\* No call of a run whose signal has fired is ever started.
THEOREM AbortedStayOut == Spec => AbortedNeverStarts
<1>1. Init => AbortInv
  BY DEF Init, AbortInv
<1>2. Spec => []AbortInv
  BY <1>1, AbortStep, TypeCorrect, PTL DEF Spec
<1>3. TypeOK /\ AbortInv /\ [Next]_vars =>
        [\A j \in Jobs : Starts(j) => SignalOf[j] \notin aborted]_vars
  <2>. SUFFICES ASSUME TypeOK, AbortInv, [Next]_vars, NEW j \in Jobs, Starts(j)
                PROVE  SignalOf[j] \notin aborted
    OBVIOUS
  <2>1. j \in Waiting
    BY OnlyDispatchStarts DEF Dispatch, IsNext, Eligible
  <2>. QED
    BY <2>1 DEF AbortInv
<1>. QED
  BY <1>2, <1>3, TypeCorrect, PTL DEF Spec, AbortedNeverStarts

\* The instance's copy of the library's Cardinality is the library's.
LEMMA SameCardinality ==
  ASSUME NEW S
  PROVE  Admission!Cardinality(S) = Cardinality(S)
BY DEF Admission!Cardinality, Cardinality

\* Seen through the sets of fresh, queued and running calls, the scheduler is
\* the admission control it promises to be: each call is handed over once and
\* runs at most once, and it starts only with room under both caps.
THEOREM ImplementsPromise == Spec => ImplementsAdmission
<1>1. Init => Admission!Init
  BY DEF Init, Admission!Init, Waiting, Running
<1>2. TypeOK /\ CapInv /\ [Next]_vars => [Admission!Next]_(Admission!vars)
  <2>. SUFFICES ASSUME TypeOK, CapInv, [Next]_vars
                PROVE  [Admission!Next]_(Admission!vars)
    OBVIOUS
  <2>. DEFINE fresh == {j \in Jobs : status[j] = "new"}
  <2>. USE DEF queueVars, pauseVars
  <2>0. ASSUME status' = status PROVE UNCHANGED Admission!vars
    BY <2>0 DEF Admission!vars, Waiting, Running
  <2>1. ASSUME NEW j \in Jobs, Submit(j) PROVE Admission!Accept(j)
    <3>1. j \in fresh /\ fresh' = fresh \ {j} /\ Running' = Running
      BY <2>1 DEF Submit, TypeOK, Running
    <3>2. Waiting' \in {Waiting, Waiting \cup {j}}
      BY <2>1 DEF Submit, TypeOK, Waiting
    <3>. QED
      BY <3>1, <3>2 DEF Admission!Accept
  <2>2. ASSUME NEW j \in Jobs, Dispatch(j) PROVE Admission!Start(j)
    <3>. DEFINE m == ModelOf[j]
    <3>1. j \in Waiting /\ inFlight < GlobalLimit /\ perModel[m] < PerModelLimit
      BY <2>2 DEF Dispatch, IsNext, Eligible
    <3>2. Cardinality(Running) < GlobalLimit /\ Cardinality(RunningOn(m)) < PerModelLimit
      BY <3>1, JobsAssumption DEF CapInv, CountersExact
    <3>3. Cardinality(Admission!On(Running, ModelOf[j])) < PerModelLimit
      BY <3>2 DEF Admission!On, RunningOn
    <3>4. Running' = Running \cup {j}
      BY <2>2, DispatchRunning
    <3>5. Waiting' = Waiting \ {j} /\ fresh' = fresh
      BY <2>2, <3>1 DEF Dispatch, TypeOK, Waiting
    <3>. HIDE DEF m, fresh
    <3>. QED
      BY <3>1, <3>2, <3>3, <3>4, <3>5, SameCardinality DEF Admission!Start, fresh
  <2>3. ASSUME NEW j \in Jobs, Settle(j) PROVE Admission!Finish(j)
    <3>1. j \in Running /\ Running' = Running \ {j}
      BY <2>3, SettleRunning
    <3>2. Waiting' = Waiting /\ fresh' = fresh
      BY <2>3 DEF Settle, Release, TypeOK, Waiting
    <3>. QED
      BY <3>1, <3>2 DEF Admission!Finish
  <2>4. ASSUME NEW s \in Signals, Abort(s)
        PROVE  \E S \in SUBSET Waiting : Admission!Withdraw(S)
    <3>. DEFINE S == {j \in Waiting : SignalOf[j] = s}
    <3>1. Waiting' = Waiting \ S /\ fresh' = fresh /\ Running' = Running
      BY <2>4 DEF Abort, TypeOK, Waiting, Running
    <3>2. Admission!Withdraw(S)
      BY <3>1 DEF Admission!Withdraw
    <3>. QED
      BY <3>2
  <2>5. CASE PumpDone
    BY <2>0, <2>5 DEF PumpDone
  <2>6. CASE PauseModel
    BY <2>0, <2>6 DEF PauseModel
  <2>7. ASSUME NEW t \in timers, Expire(t) PROVE UNCHANGED Admission!vars
    BY <2>0, <2>7 DEF Expire
  <2>8. CASE Tick
    BY <2>0, <2>8 DEF Tick
  <2>9. CASE UNCHANGED vars
    BY <2>0, <2>9 DEF vars
  <2>. QED
    BY <2>1, <2>2, <2>3, <2>4, <2>5, <2>6, <2>7, <2>8, <2>9
    DEF Next, Admission!Next
<1>. QED
  BY <1>1, <1>2, TypeCorrect, CapInvariant, PTL
  DEF Spec, ImplementsAdmission, Admission!Spec

-----------------------------------------------------------------------------
(***************************************************************************)
(* The order.  A queued call that pickNext() has passed over is not         *)
(* eligible; the counter that holds it back is the number of calls of its   *)
(* model, by CapInv.                                                        *)
(***************************************************************************)

\* Of two calls at most one comes before the other.
LEMMA BeforeIsStrict ==
  ASSUME TypeOK, NEW j \in Jobs, NEW k \in Jobs, Before(j, k)
  PROVE  ~Before(k, j)
<1>1. Priority[j] \in Nat /\ Priority[k] \in Nat /\ seq[j] \in Nat /\ seq[k] \in Nat
  BY JobsAssumption DEF TypeOK
<1>. QED
  BY <1>1 DEF Before

\* pickNext(): no call starts past a queued one that is more urgent, or as
\* urgent and earlier, unless a pause or its model's cap holds that one back.
THEOREM NobodyOvertakes == Spec => NoOvertaking
<1>. DEFINE Order == \A j, k \in Jobs :
                       Starts(j) /\ k \in Waiting /\ k # j /\ Before(k, j) =>
                         /\ ModelOf[k] # ModelOf[j]
                         /\ \/ pausedUntil[ModelOf[k]] > now
                            \/ Cardinality(RunningOn(ModelOf[k])) >= PerModelLimit
<1>1. TypeOK /\ CapInv /\ [Next]_vars => [Order]_vars
  <2>. SUFFICES ASSUME TypeOK, CapInv, [Next]_vars,
                       NEW j \in Jobs, NEW k \in Jobs,
                       Starts(j), k \in Waiting, k # j, Before(k, j)
                PROVE  /\ ModelOf[k] # ModelOf[j]
                       /\ \/ pausedUntil[ModelOf[k]] > now
                          \/ Cardinality(RunningOn(ModelOf[k])) >= PerModelLimit
    OBVIOUS
  <2>1. Dispatch(j)
    BY OnlyDispatchStarts DEF Starts
  <2>2. j \in Eligible /\ (k \in Eligible => Before(j, k))
    BY <2>1 DEF Dispatch, IsNext
  <2>3. k \notin Eligible
    BY <2>2, BeforeIsStrict
  <2>4. ModelOf[k] \in Models /\ k \in Waiting
    BY JobsAssumption
  <2>5. pausedUntil[ModelOf[k]] \in Nat /\ now \in Nat /\ perModel[ModelOf[k]] \in Nat /\ PerModelLimit \in Nat
    BY <2>4, BoundsAssumption, LimitsAssumption DEF TypeOK
  <2>6. pausedUntil[ModelOf[k]] > now \/ perModel[ModelOf[k]] >= PerModelLimit
    BY <2>3, <2>5 DEF Eligible
  <2>7. perModel[ModelOf[k]] = Cardinality(RunningOn(ModelOf[k]))
    BY <2>4 DEF CapInv, CountersExact
  <2>8. ModelOf[k] # ModelOf[j]
    BY <2>2, <2>3 DEF Eligible
  <2>. QED
    BY <2>6, <2>7, <2>8
<1>. QED
  BY <1>1, TypeCorrect, CapInvariant, PTL DEF Spec, NoOvertaking

-----------------------------------------------------------------------------
(***************************************************************************)
(* Cooldowns that no other cooldown overlaps.                               *)
(***************************************************************************)

\* A model never paused twice at a time has at most one timer, due when its
\* pause ends, and its pause reaches as far as the Retry-After it was promised.
SoleInv ==
  \A m \in Models \ overlapped :
    /\ \A t, u \in timers : t.model = m /\ u.model = m => t = u
    /\ \A t \in timers : t.model = m => t.due = pausedUntil[m]
    /\ promised[m] <= now \/ promised[m] <= pausedUntil[m]

LEMMA SoleStep ==
  ASSUME TypeOK, SoleInv, [Next]_vars
  PROVE  SoleInv'
<1>. USE BoundsAssumption DEF queueVars, pauseVars
<1>1. ASSUME UNCHANGED pauseVars, now' \in Int, now' >= now PROVE SoleInv'
  BY <1>1 DEF SoleInv, TypeOK
<1>2. ASSUME NEW j \in Jobs, Submit(j) \/ Dispatch(j) \/ Settle(j) PROVE SoleInv'
  BY <1>1, <1>2 DEF Submit, Dispatch, Settle, Release, TypeOK
<1>3. CASE PumpDone
  BY <1>1, <1>3 DEF PumpDone, TypeOK
<1>4. CASE PauseModel
  <2>. DEFINE b == backoff.model
              until == now + backoff.ms
              timer == [id |-> pauses', model |-> b, due |-> until]
  <2>1. b \in Models /\ backoff.ms \in Nat /\ now \in Nat /\ now' = now
    BY <1>4 DEF PauseModel, TypeOK
  <2>2. \A m \in Models \ {b} : /\ pausedUntil'[m] = pausedUntil[m]
                                /\ promised'[m] = promised[m]
    BY <1>4 DEF PauseModel, TypeOK
  <2>3. promised'[b] = IF until > promised[b] THEN until ELSE promised[b]
    BY <1>4, <2>1 DEF PauseModel, TypeOK
  <2>4. ASSUME until > pausedUntil[b], timers' = timers \cup {timer},
               pausedUntil'[b] = until, overlapped \subseteq overlapped',
               (\E t \in timers : t.model = b) => b \in overlapped'
        PROVE  SoleInv'
    <3>1. ASSUME NEW m \in Models \ overlapped', m # b
          PROVE  /\ \A t, u \in timers' : t.model = m /\ u.model = m => t = u
                 /\ \A t \in timers' : t.model = m => t.due = pausedUntil'[m]
                 /\ promised'[m] <= now' \/ promised'[m] <= pausedUntil'[m]
      BY <2>1, <2>2, <2>4, <3>1 DEF SoleInv
    <3>2. ASSUME b \notin overlapped'
          PROVE  /\ \A t, u \in timers' : t.model = b /\ u.model = b => t = u
                 /\ \A t \in timers' : t.model = b => t.due = pausedUntil'[b]
      BY <2>4, <3>2
    <3>3. b \notin overlapped' =>
            promised'[b] <= now' \/ promised'[b] <= pausedUntil'[b]
      BY <2>1, <2>3, <2>4 DEF SoleInv, TypeOK
    <3>. QED
      BY <3>1, <3>2, <3>3 DEF SoleInv
  <2>5. ASSUME backoff.ms = 0 \/ until <= pausedUntil[b],
               UNCHANGED <<pausedUntil, timers, overlapped>>
        PROVE  SoleInv'
    <3>1. promised'[b] = promised[b] \/ promised'[b] <= now
            \/ promised'[b] <= pausedUntil[b]
      BY <2>1, <2>3, <2>5 DEF TypeOK
    <3>. QED
      BY <2>1, <2>2, <2>5, <3>1 DEF SoleInv
  <2>. QED
    BY <1>4, <2>1, <2>4, <2>5 DEF PauseModel, TypeOK
<1>5. ASSUME NEW t \in timers, Expire(t) PROVE SoleInv'
  <2>1. t.model \in Models /\ t.due \in Nat /\ now \in Nat
    BY DEF TypeOK, Timer
  <2>2. \A m \in Models \ {t.model} : pausedUntil'[m] = pausedUntil[m]
    BY <1>5 DEF Expire, TypeOK
  <2>3. t.model \notin overlapped => promised[t.model] <= now
    BY <1>5, <2>1 DEF Expire, SoleInv, TypeOK
  <2>. QED
    BY <1>5, <2>1, <2>2, <2>3 DEF Expire, SoleInv
<1>6. ASSUME NEW s \in Signals, Abort(s) PROVE SoleInv'
  BY <1>1, <1>6 DEF Abort, TypeOK
<1>7. CASE Tick
  BY <1>1, <1>7 DEF Tick, TypeOK
<1>8. CASE UNCHANGED vars
  BY <1>1, <1>8 DEF vars, TypeOK
<1>. QED
  BY <1>2, <1>3, <1>4, <1>5, <1>6, <1>7, <1>8 DEF Next

\* A Retry-After is waited out in full unless another pause of the same model
\* overlaps it: the overlap is the only way a cooldown is cut short.
THEOREM SoleCooldownKept == Spec => SoleCooldownHonoured
<1>1. Init => SoleInv
  BY BoundsAssumption DEF Init, SoleInv
<1>2. Spec => []SoleInv
  BY <1>1, SoleStep, TypeCorrect, PTL DEF Spec
<1>3. TypeOK /\ SoleInv /\ [Next]_vars =>
        [\A j \in Jobs : Starts(j) /\ ModelOf[j] \notin overlapped =>
           promised[ModelOf[j]] <= now]_vars
  <2>. SUFFICES ASSUME TypeOK, SoleInv, [Next]_vars,
                       NEW j \in Jobs, Starts(j), ModelOf[j] \notin overlapped
                PROVE  promised[ModelOf[j]] <= now
    OBVIOUS
  <2>1. pausedUntil[ModelOf[j]] <= now
    BY OnlyDispatchStarts DEF Dispatch, IsNext, Eligible
  <2>2. ModelOf[j] \in Models
    BY JobsAssumption
  <2>. QED
    BY <2>1, <2>2, BoundsAssumption DEF SoleInv, TypeOK
<1>. QED
  BY <1>2, <1>3, TypeCorrect, PTL DEF Spec, SoleCooldownHonoured

=============================================================================
