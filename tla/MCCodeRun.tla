------------------------------ MODULE MCCodeRun ------------------------------
(***************************************************************************)
(* CodeRun for TLC: two candidates, a regression build and an acceptance    *)
(* test; a run that is rejected has no command red on the base commit.      *)
(***************************************************************************)
EXTENDS CodeRun

CONSTANTS candA, candB

MCCandidates == {candA, candB}
MCCommands   == <<"build", "test">>

\* Bound: rejections are not multiplied with failures the base commit excuses.
RejectedOrBroken == rejects = 0 \/ broken = {}

\* Next, with that bound on the actions that can leave it.
MCNext ==
  \/ Create \/ Cancel \/ CleanStep \/ Restart
  \/ Measure /\ RejectedOrBroken'
  \/ Reject /\ RejectedOrBroken'
  \/ BaselineAdded \/ BaselineRemoved
  \/ (\E c \in Candidates : AddWorktree(c)) \/ AddFails
  \/ AllSettled \/ SurvivorsJudged \/ Recorded \/ Fail \/ Flushed
  \/ \E c \in Candidates : CandidateStep(c) \/ TimeOut(c) \/ Edit(c)
  \/ \E t \in Candidates \cup {"baseline"} : WriteBehind(t)

MCSpec == Init /\ [][MCNext]_vars /\ Fairness

=============================================================================
