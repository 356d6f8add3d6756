------------------------------ MODULE Scheduler ------------------------------
(***************************************************************************)
(* The process-wide request scheduler, src/core/scheduler.ts: every HASA    *)
(* call of every run goes through `submit`, under a cap on the calls in     *)
(* flight and a cap per model, and a rate-limited model is paused.          *)
(*                                                                          *)
(* JavaScript runs a handler to completion.  A handler that ends in `pump`  *)
(* is the action of that handler followed by the iterations of the loop     *)
(* (Dispatch) and its exit (PumpDone); while `turn` is "pump" nothing else   *)
(* can happen.  The rejection of a rate-limited call reaches the caller's   *)
(* catch clause as a microtask: after the release and the pump of the       *)
(* scheduler's own finally clause, before any other macrotask.  `backoff`   *)
(* holds the pause that clause is about to ask for.                         *)
(*                                                                          *)
(* `promised` and `overlapped` are history variables; no action reads them. *)
(***************************************************************************)
EXTENDS Integers, FiniteSets

CONSTANTS
  Jobs,           \* the calls submitted in a behaviour
  Models,         \* model ids
  Signals,        \* abort signals; a run's calls share one
  ModelOf,        \* job -> model
  Priority,       \* job -> priority: judge and critic calls 1, candidates 0
  SignalOf,       \* job -> its abort signal
  GlobalLimit,    \* ARENA_GLOBAL_CONCURRENCY
  PerModelLimit,  \* ARENA_MODEL_CONCURRENCY
  Cooldowns,      \* the Retry-After values a 429 may carry
  MaxTime,        \* bound on the clock
  MaxPauses       \* bound on the pauses of a behaviour

ASSUME JobsAssumption ==
  /\ IsFiniteSet(Jobs)
  /\ ModelOf  \in [Jobs -> Models]
  /\ Priority \in [Jobs -> Nat]
  /\ SignalOf \in [Jobs -> Signals]
ASSUME LimitsAssumption ==
  /\ GlobalLimit   \in Nat \ {0}
  /\ PerModelLimit \in Nat \ {0}
ASSUME BoundsAssumption ==
  /\ Cooldowns \subseteq Nat
  /\ MaxTime \in Nat
  /\ MaxPauses \in Nat

VARIABLES
  status,       \* life of each job
  seq,          \* arrival number of each job; 0 before it arrives
  nextSeq,      \* this.seq
  inFlight,     \* this.inFlight
  perModel,     \* this.perModel, an absent entry being 0
  pausedUntil,  \* this.pausedUntil, an absent entry being 0
  timers,       \* pending setTimeout callbacks of pauseModel
  pauses,       \* how many timers were ever armed (their ids)
  aborted,      \* signals that have fired
  now,          \* Date.now()
  turn,         \* "pump" inside the loop of pump(), else "rest"
  backoff,      \* the pause a rejected caller is about to request
  promised,     \* history: the latest Retry-After instant of each model
  overlapped    \* history: models paused again while a timer was pending

queueVars == <<status, seq, nextSeq, inFlight, perModel>>
pauseVars == <<pausedUntil, timers, pauses, promised, overlapped>>
vars == <<queueVars, pauseVars, aborted, now, turn, backoff>>

Statuses == {"new", "waiting", "running", "settled", "dropped"}
NoBackoff == [model |-> "none", ms |-> 0]

Waiting    == {j \in Jobs : status[j] = "waiting"}
Running    == {j \in Jobs : status[j] = "running"}
RunningOn(m) == {j \in Running : ModelOf[j] = m}

\* The event loop is between two macrotasks.
Quiet == turn = "rest" /\ backoff = NoBackoff

-----------------------------------------------------------------------------
Init ==
  /\ status = [j \in Jobs |-> "new"]
  /\ seq = [j \in Jobs |-> 0]
  /\ nextSeq = 1
  /\ inFlight = 0
  /\ perModel = [m \in Models |-> 0]
  /\ pausedUntil = [m \in Models |-> 0]
  /\ timers = {}
  /\ pauses = 0
  /\ aborted = {}
  /\ now = 0
  /\ turn = "rest"
  /\ backoff = NoBackoff
  /\ promised = [m \in Models |-> 0]
  /\ overlapped = {}

\* submit(): an already aborted job is rejected before it gets a number.
Submit(j) ==
  /\ Quiet
  /\ status[j] = "new"
  /\ \/ /\ SignalOf[j] \in aborted
        /\ status' = [status EXCEPT ![j] = "dropped"]
        /\ UNCHANGED <<seq, nextSeq, turn>>
     \/ /\ SignalOf[j] \notin aborted
        /\ status' = [status EXCEPT ![j] = "waiting"]
        /\ seq' = [seq EXCEPT ![j] = nextSeq]
        /\ nextSeq' = nextSeq + 1
        /\ turn' = "pump"
  /\ UNCHANGED <<inFlight, perModel, pauseVars, aborted, now, backoff>>

\* Mutant of Eligible: the cap of a model is off by one.
EligibleOverCap ==
  {j \in Waiting : /\ pausedUntil[ModelOf[j]] <= now
                   /\ perModel[ModelOf[j]] <= PerModelLimit}
\* pickNext(): the jobs it does not skip, and the order it ranks them in.
Eligible ==
  {j \in Waiting : /\ pausedUntil[ModelOf[j]] <= now
                   /\ perModel[ModelOf[j]] < PerModelLimit}

Before(j, k) ==
  \/ Priority[j] > Priority[k]
  \/ Priority[j] = Priority[k] /\ seq[j] < seq[k]

\* Mutant of IsNext: arrival order alone.
IsNextFifo(j) == j \in Eligible /\ \A k \in Eligible \ {j} : seq[j] < seq[k]

IsNext(j) == j \in Eligible /\ \A k \in Eligible \ {j} : Before(j, k)

\* One iteration of pump(): splice the waiter out, start() it, acquire().
Dispatch(j) ==
  /\ turn = "pump"
  /\ inFlight < GlobalLimit
  /\ IsNext(j)
  /\ status' = [status EXCEPT ![j] = "running"]
  /\ inFlight' = inFlight + 1
  /\ perModel' = [perModel EXCEPT ![ModelOf[j]] = @ + 1]
  /\ UNCHANGED <<seq, nextSeq, pauseVars, aborted, now, turn, backoff>>

PumpDone ==
  /\ turn = "pump"
  /\ inFlight < GlobalLimit => Eligible = {}
  /\ turn' = "rest"
  /\ UNCHANGED <<queueVars, pauseVars, aborted, now, backoff>>

\* release()
Release(j) ==
  /\ inFlight' = inFlight - 1
  /\ perModel' = [perModel EXCEPT ![ModelOf[j]] = IF @ > 0 THEN @ - 1 ELSE 0]

\* The call of a running job resolves or rejects: release() and pump().  A
\* candidate's 429 also leaves its run manager owing a pause; a judge's or a
\* critic's error is not paused on.  Retry-After instants stay in the clock's
\* bound.
Settle(j) ==
  /\ Quiet
  /\ status[j] = "running"
  /\ status' = [status EXCEPT ![j] = "settled"]
  /\ Release(j)
  /\ turn' = "pump"
  /\ \/ UNCHANGED backoff
     \/ /\ Priority[j] = 0
        /\ pauses < MaxPauses
        /\ \E ms \in Cooldowns :
             /\ now + ms <= MaxTime
             /\ backoff' = [model |-> ModelOf[j], ms |-> ms]
  /\ UNCHANGED <<seq, nextSeq, pauseVars, aborted, now>>

\* pauseModel(): ignored when empty or not later than the pause in force.
PauseModel ==
  LET m == backoff.model
      until == now + backoff.ms
  IN /\ turn = "rest"
     /\ backoff # NoBackoff
     /\ backoff' = NoBackoff
     /\ promised' = [promised EXCEPT ![m] = IF until > @ THEN until ELSE @]
     /\ \/ /\ backoff.ms > 0
           /\ until > pausedUntil[m]
           /\ pausedUntil' = [pausedUntil EXCEPT ![m] = until]
           /\ pauses' = pauses + 1
           /\ timers' = timers \cup {[id |-> pauses', model |-> m, due |-> until]}
           /\ overlapped' = IF \E t \in timers : t.model = m
                              THEN overlapped \cup {m} ELSE overlapped
        \/ /\ backoff.ms = 0 \/ until <= pausedUntil[m]
           /\ UNCHANGED <<pausedUntil, pauses, timers, overlapped>>
     /\ UNCHANGED <<queueVars, aborted, now, turn>>

\* Mutant of Expire: the queue is not looked at when a pause ends.
ExpireQuietly(t) ==
  /\ Quiet
  /\ t \in timers
  /\ t.due <= now
  /\ timers' = timers \ {t}
  /\ pausedUntil' = [pausedUntil EXCEPT ![t.model] = 0]
  /\ UNCHANGED <<queueVars, pauses, promised, overlapped, aborted, now, turn, backoff>>

\* The timer's callback deletes whatever entry the model has, then pumps.
Expire(t) ==
  /\ Quiet
  /\ t \in timers
  /\ t.due <= now
  /\ timers' = timers \ {t}
  /\ pausedUntil' = [pausedUntil EXCEPT ![t.model] = 0]
  /\ turn' = "pump"
  /\ UNCHANGED <<queueVars, pauses, promised, overlapped, aborted, now, backoff>>

\* Mutant of Abort: the running calls are dropped with the queued.
AbortDropsRunning(s) ==
  /\ Quiet
  /\ s \notin aborted
  /\ aborted' = aborted \cup {s}
  /\ status' = [j \in Jobs |-> IF j \in Waiting \cup Running /\ SignalOf[j] = s
                                 THEN "dropped" ELSE status[j]]
  /\ UNCHANGED <<seq, nextSeq, inFlight, perModel, pauseVars, now, turn, backoff>>

\* A signal fires: its queued jobs are spliced out, the running ones are left
\* to observe it themselves.  No pump.
Abort(s) ==
  /\ Quiet
  /\ s \notin aborted
  /\ aborted' = aborted \cup {s}
  /\ status' = [j \in Jobs |-> IF status[j] = "waiting" /\ SignalOf[j] = s
                                 THEN "dropped" ELSE status[j]]
  /\ UNCHANGED <<seq, nextSeq, inFlight, perModel, pauseVars, now, turn, backoff>>

Tick ==
  /\ Quiet
  /\ now < MaxTime
  /\ now' = now + 1
  /\ UNCHANGED <<queueVars, pauseVars, aborted, turn, backoff>>

Next ==
  \/ \E j \in Jobs : Submit(j) \/ Dispatch(j) \/ Settle(j)
  \/ PumpDone
  \/ PauseModel
  \/ \E t \in timers : Expire(t)
  \/ \E s \in Signals : Abort(s)
  \/ Tick

Spec == Init /\ [][Next]_vars

\* The event loop runs, the clock advances, armed timers fire and every HASA
\* call ends (the client bounds each attempt with a timeout).  Nobody has to
\* submit and nobody has to abort.
Fairness ==
  /\ \A j \in Jobs : WF_vars(Dispatch(j)) /\ WF_vars(Settle(j))
  /\ WF_vars(PumpDone)
  /\ WF_vars(PauseModel)
  /\ WF_vars(\E t \in timers : Expire(t))
  /\ WF_vars(Tick)

FairSpec == Spec /\ Fairness

-----------------------------------------------------------------------------
Timer == [id : 1..MaxPauses, model : Models, due : 0..MaxTime]

TypeOK ==
  /\ status \in [Jobs -> Statuses]
  /\ seq \in [Jobs -> Nat]
  /\ nextSeq \in Nat \ {0}
  /\ inFlight \in Int
  /\ perModel \in [Models -> Nat]
  /\ pausedUntil \in [Models -> 0..MaxTime]
  /\ timers \subseteq Timer
  /\ pauses \in 0..MaxPauses
  /\ aborted \subseteq Signals
  /\ now \in 0..MaxTime
  /\ turn \in {"rest", "pump"}
  /\ backoff # NoBackoff =>
       /\ backoff \in [model : Models, ms : 0..MaxTime]
       /\ now + backoff.ms <= MaxTime
       /\ pauses < MaxPauses
  /\ promised \in [Models -> 0..MaxTime]
  /\ overlapped \subseteq Models

\* The counters the caps are tested on are the numbers of calls really in
\* flight: no path through start, a throwing run and the finally clause leaks
\* a slot or returns one twice.
CountersExact ==
  /\ inFlight = Cardinality(Running)
  /\ \A m \in Models : perModel[m] = Cardinality(RunningOn(m))

\* Both caps hold of the calls really in flight, whatever was submitted,
\* aborted, paused or failed in between.
CapsRespected ==
  /\ Cardinality(Running) <= GlobalLimit
  /\ \A m \in Models : Cardinality(RunningOn(m)) <= PerModelLimit

\* No lost wake-up.  When the event loop is at rest and a global slot is free,
\* a queued job is there only because its model is full (its release will
\* pump) or has a timer pending (its expiry will pump).
NoLostWakeup ==
  Quiet /\ inFlight < GlobalLimit =>
    \A j \in Waiting :
      \/ RunningOn(ModelOf[j]) # {}
      \/ \E t \in timers : t.model = ModelOf[j]

Starts(j) == status[j] # "running" /\ status'[j] = "running"

\* A job is never started past a queued job of the same model that is more
\* urgent, or as urgent and earlier; and never past a more urgent job of
\* another model that neither a pause nor its own cap holds back.
NoOvertaking ==
  [][\A j, k \in Jobs :
       Starts(j) /\ k \in Waiting /\ k # j /\ Before(k, j) =>
         /\ ModelOf[k] # ModelOf[j]
         /\ \/ pausedUntil[ModelOf[k]] > now
            \/ Cardinality(RunningOn(ModelOf[k])) >= PerModelLimit]_vars

\* Once a signal has fired, none of its calls starts: a cancelled run costs
\* nothing it had not already begun.
AbortedNeverStarts ==
  [][\A j \in Jobs : Starts(j) => SignalOf[j] \notin aborted]_vars

\* A Retry-After that no other pause of the model overlapped is waited out in
\* full by every later call of that model.
SoleCooldownHonoured ==
  [][\A j \in Jobs : Starts(j) /\ ModelOf[j] \notin overlapped =>
       promised[ModelOf[j]] <= now]_vars

\* Seen through the sets of calls, every step of the scheduler is a step of
\* its promise, or changes none of them.
Admission ==
  INSTANCE AdmissionControl WITH
    fresh   <- {j \in Jobs : status[j] = "new"},
    queued  <- Waiting,
    running <- Running

ImplementsAdmission == Admission!Spec

\* A queued call is eventually started or dropped: neither a pause, nor a full
\* pool, nor higher-priority traffic of a finite load leaves it queued forever.
EveryJobLeavesQueue ==
  \A j \in Jobs : status[j] = "waiting" ~> status[j] # "waiting"

=============================================================================
