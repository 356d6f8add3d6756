----------------------------- MODULE MCScheduler -----------------------------
(***************************************************************************)
(* Instances of Scheduler for TLC.  Two runs, each with its abort signal;   *)
(* three calls contend for model m1 - two candidates and a judge - and a    *)
(* fourth call is on m2.                                                    *)
(***************************************************************************)
EXTENDS Scheduler, TLC

CONSTANTS c1, c2, c3, judge, m1, m2, run1, run2

MCJobs     == {c1, c2, c3, judge}
MCModels   == {m1, m2}
MCSignals  == {run1, run2}
MCModelOf  == c1 :> m1 @@ c2 :> m1 @@ c3 :> m2 @@ judge :> m1
MCPriority == [j \in MCJobs |-> IF j = judge THEN 1 ELSE 0]
MCSignalOf == c1 :> run1 @@ c2 :> run2 @@ c3 :> run1 @@ judge :> run1

=============================================================================
