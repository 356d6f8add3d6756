---------------------------- MODULE MCArenaPanel ----------------------------
(***************************************************************************)
(* ArenaPanel for TLC: two commands, two keys and three processes as long  *)
(* as no run is asked for; two runs and two snapshots on their way under   *)
(* one command at a time, one key and two processes.                       *)
(***************************************************************************)
EXTENDS ArenaPanel

CONSTANTS o1, o2, f1, f2

MCOps == {o1, o2}
MCFlights == {f1, f2}

\* Bound: runs and their snapshots are not multiplied with processes started
\* over each other and keys replaced.
NoRun == \A r \in Runs : run[r].status = "none"
OneCommand == keys <= 1 /\ spawned <= 2 /\ op[o2] = Free
NoRunOrOneCommand == NoRun \/ OneCommand

\* Next, with that bound on the actions that can leave it.
MCNext ==
    \/ \E o \in Ops :
           \/ Call(o) /\ UNCHANGED arena /\ NoRunOrOneCommand'
           \/ Spawn(o) /\ UNCHANGED arena /\ NoRunOrOneCommand'
           \/ (Healthy(o) \/ Unhealthy(o)) /\ UNCHANGED arena
           \/ Create(o) /\ NoRunOrOneCommand'
           \/ Adopt(o) \/ Finish(o)
    \/ \E p \in Procs : Process(p)
    \/ \E r \in Runs : RunEnds(r)
    \/ \E f \in Flights : Snapshot(f)
    \/ StoreKey /\ UNCHANGED arena /\ NoRunOrOneCommand'
    \/ ClearKey /\ UNCHANGED arena
    \/ ChatChangesKey /\ UNCHANGED arena /\ NoRunOrOneCommand'
    \/ Rejected \/ Toggle

MCSpec == Init /\ [][MCNext]_vars /\ Fairness
=============================================================================
