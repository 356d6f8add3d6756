----------------------------- MODULE ArenaPanel -----------------------------
(***************************************************************************)
(* The arena's panel (extension.ts, panel.ts, the message handler of       *)
(* media/main.js) over the orchestrator it starts.  A started run becomes  *)
(* the current one and is watched: its events and a timer ask for          *)
(* snapshots, whose answers are posted as they come, and a terminal one    *)
(* ends the watch.  Processes die under it, keys change, the panel is      *)
(* closed and opened again.                                                *)
(*                                                                         *)
(* Rows of runs are on disk, so any later process answers for a run; it    *)
(* makes progress only in the process that started it.  A snapshot is the  *)
(* status it carries, read at one moment.                                  *)
(***************************************************************************)
EXTENDS Orchestrator

CONSTANTS
    Flights,     \* snapshots that may be awaited at once
    MaxRuns      \* bound: runs ever started

ASSUME PanelAssumption == MaxRuns \in Nat

VARIABLES
    run,         \* [status, on] of every run, as the orchestrator's rows have it
    starting,    \* the run a command has started and not yet been told of, or 0
    currentRun,  \* currentRunId, or 0
    watched,     \* the run of refreshTimer and unsubscribe, or 0
    flight,      \* snapshots awaited: [run, to, got]
    open,        \* there is a panel
    shown,       \* [run, status] on the screen
    crossed      \* history: an answer was not the newest, not of the current run, or for no panel

arena == <<run, starting, currentRun, watched, flight, open, shown, crossed>>
vars == <<orchestrator, arena>>

Runs == 1..MaxRuns
Statuses == {"none", "running", "ended"}
NothingShown == [run |-> 0, status |-> "none"]
Landed == [run |-> 0, to |-> 0, got |-> "none"]

TypeOK ==
    /\ OrchestratorTypeOK
    /\ run \in [Runs -> [status : Statuses, on : 0..MaxProcs]]
    /\ starting \in [Ops -> 0..MaxRuns]
    /\ currentRun \in 0..MaxRuns /\ watched \in 0..MaxRuns
    /\ flight \in [Flights -> [run : 0..MaxRuns, to : 0..MaxProcs, got : Statuses]]
    /\ open \in BOOLEAN /\ crossed \in BOOLEAN
    /\ shown \in [run : 0..MaxRuns, status : Statuses]

Init ==
    /\ OrchestratorInit
    /\ run = [r \in Runs |-> [status |-> "none", on |-> 0]]
    /\ starting = [o \in Ops |-> 0]
    /\ currentRun = 0 /\ watched = 0
    /\ flight = [f \in Flights |-> Landed]
    /\ open = TRUE /\ shown = NothingShown /\ crossed = FALSE

UnusedRuns == {r \in Runs : run[r].status = "none"}
-----------------------------------------------------------------------------
(* Runs. *)

\* POST /runs reached the process; the command waits for the answer.
Create(o) ==
    /\ op[o].stage = "asking" /\ starting[o] = 0 /\ UnusedRuns # {}
    /\ LET url == object[op[o].of].url
           r == CHOOSE u \in UnusedRuns : \A v \in UnusedRuns : u <= v
       IN  /\ url # 0 /\ proc[url].life = "up"
           /\ run' = [run EXCEPT ![r] = [status |-> "running", on |-> url]]
           /\ starting' = [starting EXCEPT ![o] = r]
    /\ UNCHANGED <<orchestrator, currentRun, watched, flight, open, shown, crossed>>

\* The answer is here: the run is the current one, and watched.
Adopt(o) ==
    /\ starting[o] # 0
    /\ currentRun' = starting[o] /\ watched' = starting[o]
    /\ starting' = [starting EXCEPT ![o] = 0]
    /\ Done(o)
    /\ UNCHANGED <<run, flight, open, shown, crossed>>

\* The command was for the catalogue, or its request fails.
Finish(o) ==
    /\ Done(o)
    /\ starting' = [starting EXCEPT ![o] = 0]
    /\ UNCHANGED <<run, currentRun, watched, flight, open, shown, crossed>>

\* RunLifecycle and CodeRun say when.
RunEnds(r) ==
    /\ run[r].status = "running" /\ proc[run[r].on].life = "up"
    /\ run' = [run EXCEPT ![r].status = "ended"]
    /\ UNCHANGED <<orchestrator, starting, currentRun, watched, flight, open, shown, crossed>>
-----------------------------------------------------------------------------
(* Snapshots. *)

(* refresh(), by the timer, an event or the start: of the watched run,     *)
(* while it is the current one.  It makes an object when there is none,    *)
(* and fails when that has no address.                                     *)
Refresh(f) ==
    /\ flight[f] = Landed /\ watched # 0 /\ watched = currentRun
    /\ Ensure
    /\ flight' = IF object[Ensured].url = 0 THEN flight
                 ELSE [flight EXCEPT ![f] = [run |-> watched, to |-> object[Ensured].url, got |-> "none"]]
    /\ UNCHANGED <<secrets, processes, op>>
    /\ UNCHANGED <<run, starting, currentRun, watched, open, shown, crossed>>

\* The process reads the row.
Answer(f) ==
    /\ flight[f] # Landed /\ flight[f].got = "none"
    /\ proc[flight[f].to].life \in {"up", "killed"}
    /\ flight' = [flight EXCEPT ![f].got = run[flight[f].run].status]
    /\ UNCHANGED <<orchestrator, run, starting, currentRun, watched, open, shown, crossed>>

\* No answer comes: the process died, or the request timed out.
Lost(f) ==
    /\ flight[f] # Landed /\ proc[flight[f].to].life \in {"booting", "dead"}
    /\ flight' = [flight EXCEPT ![f] = Landed]
    /\ UNCHANGED <<orchestrator, run, starting, currentRun, watched, open, shown, crossed>>

\* Mutant of Watching: the timer is stopped for a failed run only.
WatchingOn(status) == watched

\* Mutant of Watching: the first answer ends the watch.
WatchingOnce(status) == 0

\* What is watched after an answer, whichever run the answer is of.
Watching(status) == IF status = "ended" THEN 0 ELSE watched

\* refresh() goes on with the answer: that the run was current is not looked at again.
PostAnswer(f) ==
    /\ flight[f].got # "none"
    /\ LET answer == [run |-> flight[f].run, status |-> flight[f].got]
       IN  /\ shown' = IF open THEN answer ELSE NothingShown
           /\ watched' = Watching(answer.status)
           /\ crossed' = \/ crossed \/ ~open \/ answer.run # currentRun
                         \/ shown.run = answer.run /\ shown.status = "ended" /\ answer.status # "ended"
    /\ flight' = [flight EXCEPT ![f] = Landed]
    /\ UNCHANGED <<orchestrator, run, starting, currentRun, open>>

\* POST /reject succeeded: the screen is cleared.
Rejected ==
    /\ currentRun # 0 /\ shown.status = "ended"
    /\ shown' = NothingShown
    /\ UNCHANGED <<orchestrator, run, starting, currentRun, watched, flight, open, crossed>>

\* The panel is closed, with what it showed; a new one begins empty.
Toggle ==
    /\ open' = ~open /\ shown' = NothingShown
    /\ UNCHANGED <<orchestrator, run, starting, currentRun, watched, flight, crossed>>
-----------------------------------------------------------------------------
Command(o) == \/ (Call(o) \/ Spawn(o) \/ Healthy(o) \/ Unhealthy(o)) /\ UNCHANGED arena
              \/ Create(o) \/ Adopt(o) \/ Finish(o)
Process(p) == (Boot(p) \/ Exit(p)) /\ UNCHANGED arena
Snapshot(f) == Refresh(f) \/ Answer(f) \/ Lost(f) \/ PostAnswer(f)

Next == \/ \E o \in Ops : Command(o)
        \/ \E p \in Procs : Process(p)
        \/ \E r \in Runs : RunEnds(r)
        \/ \E f \in Flights : Snapshot(f)
        \/ Keys /\ UNCHANGED arena
        \/ Rejected \/ Toggle

(* Timers fire, a living process answers, promises are resumed; nothing    *)
(* makes the user act, a process die, or a run end.                        *)
Fairness ==
    /\ WF_vars(\E f \in Flights : Refresh(f))
    /\ \A f \in Flights : WF_vars(Answer(f)) /\ WF_vars(Lost(f)) /\ WF_vars(PostAnswer(f))

Spec == Init /\ [][Next]_vars /\ Fairness
-----------------------------------------------------------------------------
(* Properties. *)

\* Only the current run is ever polled for (extension.ts:264-274).
NothingPollsAnOldRun == watched \in {0, currentRun}

(* Once the end of the current run is on the screen nothing asks for it    *)
(* again, however many answers were on their way (extension.ts:289-296).   *)
PollingStops == shown.status = "ended" /\ shown.run = currentRun => watched = 0

(* What is watched comes to its end on the screen, while the process can   *)
(* be reached and no answer came out of turn (extension.ts:266-268 "the    *)
(* snapshot is the single source of truth", 273 "a safety net for a        *)
(* dropped stream").  The ways it may not are hazards of their own.        *)
Reachable == current # 0 /\ object[current].url # 0 /\ proc[object[current].url].life = "up"
EndIsShownUnlessCrossed ==
    \A r \in Runs :
        watched = r /\ run[r].status = "ended" ~>
            currentRun # r \/ crossed \/ ~Reachable \/ shown = [run |-> r, status |-> "ended"]
=============================================================================
