------------------------------- MODULE CodeRun -------------------------------
(***************************************************************************)
(* One code-mode run, src/core/codeRunManager.ts with gates.ts: the         *)
(* declared commands are measured on the base commit, every candidate edits *)
(* a worktree of its own and is put through the gates, the survivors are    *)
(* ranked - while an attempt may time out, the user may cancel the run or   *)
(* reject it, and the process may die.                                      *)
(*                                                                          *)
(* An action is what happens between two awaits.  A command is a process:   *)
(* it is started by one action and its exit is another.  Of a worktree's       *)
(* contents only matters whether they differ from the base commit.          *)
(* Applying a winner is not here.                                           *)
(*                                                                          *)
(* A rejection removes worktrees and stops nobody: who still works in one    *)
(* may make its directory again, as debris of which no map and no git knows, *)
(* and git, run in there, finds the repository around it: the user's own.    *)
(*                                                                          *)
(* `passed`, `stuck`, `hurried` and `foreign` are history variables; no     *)
(* action reads them.                                                       *)
(***************************************************************************)
EXTENDS Integers, Sequences, FiniteSets

CONSTANTS
  Candidates,
  Commands,    \* taskSpec.acceptanceCommands, in order
  Hard,        \* those whose gate is in HARD_GATES
  Regression,  \* those declared as regression checks
  MaxRetries,  \* taskSpec.maxCandidateRetries
  Sticky,      \* worktrees that may resist their removal
  Restarts,    \* whether the process may die
  None,        \* no winner
  MaxRejects   \* bound on the reject requests of a behaviour

ASSUME CodeRunAssumption ==
  /\ Candidates # {} /\ IsFiniteSet(Candidates)
  /\ None \notin Candidates /\ "baseline" \notin Candidates
  /\ Commands \in Seq(STRING)
  /\ \A i, j \in DOMAIN Commands : Commands[i] = Commands[j] => i = j
  /\ MaxRetries \in Nat /\ MaxRejects \in Nat
  /\ Sticky \subseteq Candidates \cup {"baseline"} /\ Restarts \in BOOLEAN

VARIABLES
  pc,         \* where execute() is
  status,     \* the run's status in the store
  result,     \* {w} once a result with winner w is stored; else empty
  aborted,    \* the run's signal
  measured,   \* how many commands the baseline has measured
  broken,     \* baseline.brokenAtBase
  trees,      \* worktrees that exist
  debris,     \* those removed whose directory was made again
  tracked,    \* the keys of ctx.worktrees
  added,      \* candidates whose worktree was created
  rejects,    \* reject requests so far
  cleaning,   \* a cleanup() is under way
  cand,       \* candidate -> its status in the store
  step,       \* candidate -> where runCandidate() is
  attempt,    \* candidate -> attempts begun, 0 when runCandidate() is over
  late,       \* candidates whose present attempt has timed out
  at,         \* candidate -> the command its gates are at, 0 when there is none
  edited,     \* candidates whose worktree differs from the base commit
  recorded,   \* candidates whose stored diff is not empty
  passed,     \* history: candidate -> commands that exited 0 as its gates
  stuck,      \* history: worktrees that resisted their removal
  hurried,    \* history: those a rejection visited while they were worked in
  foreign     \* history: candidates for which git staged and diffed the user's repository

run == <<pc, status, result, aborted, measured, broken>>
disk == <<trees, debris, tracked, added, rejects, cleaning, stuck, hurried>>
gates == <<at, passed>>
work == <<cand, step, attempt, late, edited, recorded, foreign>>
vars == <<run, disk, gates, work>>

CommandSet == {Commands[i] : i \in DOMAIN Commands}
Busy == {"running", "collecting", "first", "second"}

\* Somebody's tools or commands have t for their directory.
AtWork(t) == \/ t = "baseline" /\ pc = "measuring"
             \/ t \in Candidates /\ step[t] \in Busy

Survivors == {c \in Candidates : cand[c] = "completed"}

\* Mutant of AllEnded: to wait for the rows of the store instead.
RowsClosed == \A c \in Candidates : cand[c] \in {"completed", "failed", "excluded"}

\* Promise.all in execute().
AllEnded == \A c \in Candidates : step[c] = "ended"

-----------------------------------------------------------------------------
Init ==
  /\ pc = "new" /\ status = "none" /\ result = {} /\ aborted = FALSE
  /\ measured = 0 /\ broken = {}
  /\ trees = {} /\ debris = {} /\ tracked = {} /\ added = {} /\ rejects = 0 /\ cleaning = FALSE
  /\ cand = [c \in Candidates |-> "none"]
  /\ step = [c \in Candidates |-> "idle"]
  /\ attempt = [c \in Candidates |-> 0]
  /\ late = {}
  /\ at = [c \in Candidates |-> 0]
  /\ edited = {} /\ recorded = {}
  /\ passed = [c \in Candidates |-> {}]
  /\ stuck = {} /\ hurried = {} /\ foreign = {}

\* create() once the request is accepted, and execute() to its first await.
Create ==
  /\ pc = "new"
  /\ pc' = IF Commands = <<>> THEN "adding" ELSE "baseline"
  /\ status' = "running"
  /\ cand' = [c \in Candidates |-> "queued"]
  /\ UNCHANGED <<result, aborted, measured, broken, disk, gates, step, attempt,
                 late, edited, recorded, foreign>>

\* removeWorktree() with its error swallowed.
Remove(t) ==
  \/ trees' = trees \ {t} /\ UNCHANGED stuck
  \/ t \in Sticky /\ stuck' = stuck \cup {t} /\ UNCHANGED trees

\* measureBaseline(): the worktree, one command after the other, its removal.
BaselineAdded ==
  /\ pc = "baseline"
  /\ \/ /\ trees' = trees \cup {"baseline"}
        /\ tracked' = tracked \cup {"baseline"}
        /\ pc' = "measuring"
     \/ pc' = "catch" /\ UNCHANGED <<trees, tracked>>
  /\ UNCHANGED <<status, result, aborted, measured, broken, debris, added, rejects,
                 cleaning, stuck, hurried, gates, work>>

\* Whatever is left of its directory: it may have started before the removal.
Measure ==
  /\ pc = "measuring"
  /\ ~aborted
  /\ measured < Len(Commands)
  /\ measured' = measured + 1
  /\ broken' \in {broken, broken \cup {Commands[measured']}}
  /\ UNCHANGED <<pc, status, result, aborted, disk, gates, work>>

BaselineRemoved ==
  /\ pc = "measuring"
  /\ aborted \/ measured = Len(Commands)
  /\ Remove("baseline")
  /\ tracked' = tracked \ {"baseline"}
  /\ pc' = IF aborted THEN "flush" ELSE "adding"
  /\ UNCHANGED <<status, result, aborted, measured, broken, debris, added, rejects,
                 cleaning, hurried, gates, work>>

\* The next candidate's worktree, in shuffled order.  After the last one all
\* runCandidate() start; one whose entry is gone already returns at once.
AddWorktree(c) ==
  /\ pc = "adding"
  /\ c \notin added
  /\ added' = added \cup {c}
  /\ trees' = trees \cup {c}
  /\ tracked' = tracked \cup {c}
  /\ IF added' # Candidates THEN UNCHANGED <<pc, cand, step, attempt>>
     ELSE /\ pc' = "drafting"
          /\ cand' = [d \in Candidates |-> IF d \in tracked' THEN "running" ELSE cand[d]]
          /\ step' = [d \in Candidates |->
                        IF d \in tracked' /\ ~aborted THEN "running" ELSE "ended"]
          /\ attempt' = [d \in Candidates |->
                           IF d \in tracked' /\ ~aborted THEN 1 ELSE 0]
  /\ UNCHANGED <<status, result, aborted, measured, broken, debris, rejects, cleaning,
                 stuck, hurried, gates, late, edited, recorded, foreign>>

AddFails ==
  /\ pc = "adding"
  /\ pc' = "catch"
  /\ UNCHANGED <<status, result, aborted, measured, broken, disk, gates, work>>

-----------------------------------------------------------------------------
\* AbortSignal.timeout of the present attempt.
TimeOut(c) ==
  /\ step[c] \in Busy
  /\ c \notin late
  /\ late' = late \cup {c}
  /\ UNCHANGED <<run, disk, gates, cand, step, attempt, edited, recorded, foreign>>

\* The runner edits the worktree, again and again, and may undo what it did.
Edit(c) ==
  /\ step[c] = "running"
  /\ c \in trees
  /\ edited' \in {edited \cup {c}, edited \ {c}}
  /\ UNCHANGED <<run, disk, gates, cand, step, attempt, late, recorded, foreign>>

\* A tool writes where a worktree was, and writeFile() makes every directory on
\* the way; a command that is running may do the same.
WriteBehind(t) ==
  /\ AtWork(t)
  /\ t \in Candidates => step[t] # "collecting"
  /\ t \notin trees \cup debris
  /\ debris' = debris \cup {t}
  /\ UNCHANGED <<run, trees, tracked, added, rejects, cleaning, stuck, hurried, gates, work>>

RunnerReturns(c) ==
  /\ step[c] = "running"
  /\ step' = [step EXCEPT ![c] = "collecting"]
  /\ UNCHANGED <<run, disk, gates, cand, attempt, late, edited, recorded, foreign>>

\* A retryable error: the next attempt, in the worktree as it stands; a raised
\* run signal returns instead and leaves the row at "running".
Retry(c) ==
  /\ attempt[c] <= MaxRetries
  /\ attempt' = [attempt EXCEPT ![c] = IF aborted THEN 0 ELSE @ + 1]
  /\ late' = late \ {c}
  /\ step' = [step EXCEPT ![c] = IF aborted THEN "ended" ELSE "running"]
  /\ UNCHANGED cand

GiveUp(c) ==
  /\ step' = [step EXCEPT ![c] = "ended"]
  /\ \E s \in {"failed", "excluded"} : cand' = [cand EXCEPT ![c] = s]
  /\ attempt' = [attempt EXCEPT ![c] = 0]
  /\ UNCHANGED late

\* The runner throws - its call failed, or it saw the signal - or git does,
\* its directory being gone.  An error that is not retryable is not retried.
AttemptFails(c) ==
  /\ \/ step[c] = "running"
     \/ step[c] = "collecting" /\ c \notin trees \cup debris
  /\ Retry(c) \/ GiveUp(c)
  /\ UNCHANGED <<run, disk, gates, edited, recorded, foreign>>

\* The end of evaluateGates() and what runCandidate() does with it.
Judged(c, survived) ==
  /\ attempt' = [attempt EXCEPT ![c] = 0]
  /\ at' = [at EXCEPT ![c] = 0]
  /\ step' = [step EXCEPT ![c] = "ended"]
  /\ cand' = [cand EXCEPT ![c] = IF survived THEN "completed" ELSE "failed"]

\* Gate number i is due.  A raised signal leaves the loop over the commands,
\* not the function; no later gate is in HARD_GATES.
GateDue(c, i) ==
  \/ /\ i <= Len(Commands) /\ ~aborted /\ c \notin late
     /\ step' = [step EXCEPT ![c] = "first"]
     /\ at' = [at EXCEPT ![c] = i]
     /\ UNCHANGED <<cand, attempt>>
  \/ /\ i > Len(Commands) \/ aborted \/ c \in late
     /\ Judged(c, TRUE)

\* collectArtifacts() and the gates before the first command: an empty diff is
\* a hard failure.
Collect(c) ==
  /\ step[c] = "collecting"
  /\ c \in trees
  /\ \/ /\ c \notin edited
        /\ recorded' = recorded \ {c}
        /\ Judged(c, FALSE)
     \/ /\ c \in edited
        /\ recorded' = recorded \cup {c}
        /\ GateDue(c, 1)
  /\ UNCHANGED <<run, disk, passed, late, edited, foreign>>

\* The same in a directory made again: git does not fail there, it takes the
\* user's repository, with or without changes of his, for the worktree.
CollectForeign(c) ==
  /\ step[c] = "collecting"
  /\ c \in debris
  /\ foreign' = foreign \cup {c}
  /\ \/ recorded' = recorded \ {c} /\ Judged(c, FALSE)
     \/ recorded' = recorded \cup {c} /\ GateDue(c, 1)
  /\ UNCHANGED <<run, disk, passed, late, edited>>

\* Red on the base commit: no reason to excuse an acceptance check.
ExcusedAnyKind(g) == g \in broken
Excused(g) == g \in Regression /\ g \in broken

\* record() for the gate of the command just run.
Record(c, ok) ==
  LET g == Commands[at[c]]
  IN /\ passed' = [passed EXCEPT ![c] = IF ok THEN @ \cup {g} ELSE @ \ {g}]
     /\ \/ /\ ok \/ Excused(g) \/ g \notin Hard
           /\ GateDue(c, at[c] + 1)
        \/ /\ ~ok /\ ~Excused(g) /\ g \in Hard
           /\ Judged(c, FALSE)

\* runWithRetry(): a first exit that is not 0 is run once more, even when it is
\* the signal that killed it.  As for Measure, a removed directory decides nothing.
CommandExits(c) ==
  /\ \/ /\ step[c] = "first"
        /\ \/ Record(c, TRUE)
           \/ step' = [step EXCEPT ![c] = "second"] /\ UNCHANGED <<at, passed, cand, attempt>>
     \/ /\ step[c] = "second"
        /\ \E ok \in BOOLEAN : Record(c, ok)
  /\ UNCHANGED <<run, disk, late, edited, recorded, foreign>>

-----------------------------------------------------------------------------
\* execute() with a result in hand.
Conclude(w) ==
  IF aborted THEN pc' = "flush" /\ UNCHANGED result
             ELSE pc' = "recording" /\ result' = {w}

\* execute() after Promise.all, and evaluate() to its first await: no survivor
\* and a single one need no ranking, and a score ten points ahead no judge.
AllSettled ==
  /\ pc = "drafting"
  /\ AllEnded
  /\ \/ aborted /\ pc' = "flush" /\ UNCHANGED <<status, result>>
     \/ /\ ~aborted
        /\ status' = "evaluating"
        /\ \/ Survivors = {} /\ Conclude(None)
           \/ \E w \in Survivors : Conclude(w)
           \/ Cardinality(Survivors) > 1 /\ pc' = "judging" /\ UNCHANGED result
  /\ UNCHANGED <<aborted, measured, broken, disk, gates, work>>

\* judgeSurvivors(): the ladder names one of the survivors or none, or throws.
SurvivorsJudged ==
  /\ pc = "judging"
  /\ \/ \E w \in Survivors \cup {None} : Conclude(w)
     \/ pc' = "catch" /\ UNCHANGED result
  /\ UNCHANGED <<status, aborted, measured, broken, disk, gates, work>>

Recorded ==
  /\ pc = "recording"
  /\ pc' = "flush"
  /\ status' = "completed"
  /\ UNCHANGED <<result, aborted, measured, broken, disk, gates, work>>

\* create()'s .catch
Fail ==
  /\ pc = "catch"
  /\ pc' = "flush"
  /\ status' = "failed"
  /\ UNCHANGED <<result, aborted, measured, broken, disk, gates, work>>

Flushed ==
  /\ pc = "flush"
  /\ pc' = "done"
  /\ UNCHANGED <<status, result, aborted, measured, broken, disk, gates, work>>

-----------------------------------------------------------------------------
Cancel ==
  /\ pc \notin {"new", "orphan"}
  /\ ~aborted
  /\ aborted' = TRUE
  /\ status' = "cancelled"
  /\ UNCHANGED <<pc, result, measured, broken, disk, gates, work>>

\* POST /runs/:id/reject, at any time: cleanup() walks ctx.worktrees.  Nothing
\* tells those who work in them.
Reject ==
  /\ pc # "new"
  /\ ~cleaning
  /\ rejects < MaxRejects
  /\ rejects' = rejects + 1
  /\ cleaning' = TRUE
  /\ UNCHANGED <<run, trees, debris, tracked, added, stuck, hurried, gates, work>>

Clean(t) ==
  /\ cleaning
  /\ t \in tracked
  /\ Remove(t)
  /\ tracked' = tracked \ {t}
  /\ hurried' = IF AtWork(t) THEN hurried \cup {t} ELSE hurried
  /\ UNCHANGED <<run, debris, added, rejects, cleaning, gates, work>>

\* A cleanup that forgets what it did not visit: a bug Cleaned must not have.
CleanedAtOnce ==
  /\ cleaning
  /\ cleaning' = FALSE
  /\ tracked' = {}
  /\ UNCHANGED <<run, trees, debris, added, rejects, stuck, hurried, gates, work>>

Cleaned ==
  /\ cleaning
  /\ tracked = {}
  /\ cleaning' = FALSE
  /\ UNCHANGED <<run, trees, debris, tracked, added, rejects, stuck, hurried, gates, work>>

\* The process dies and is started again: the contexts were memory.
Restart ==
  /\ Restarts
  /\ pc \notin {"new", "orphan"}
  /\ pc' = "orphan"
  /\ tracked' = {}
  /\ cleaning' = FALSE
  /\ step' = [c \in Candidates |-> "ended"]
  /\ attempt' = [c \in Candidates |-> 0]
  /\ at' = [c \in Candidates |-> 0]
  /\ UNCHANGED <<status, result, aborted, measured, broken, trees, debris, added, rejects,
                 stuck, hurried, passed, cand, late, edited, recorded, foreign>>

RunStep ==
  \/ BaselineAdded \/ Measure \/ BaselineRemoved
  \/ (\E c \in Candidates : AddWorktree(c)) \/ AddFails
  \/ AllSettled \/ SurvivorsJudged \/ Recorded \/ Fail \/ Flushed

CandidateStep(c) ==
  RunnerReturns(c) \/ AttemptFails(c) \/ Collect(c) \/ CollectForeign(c) \/ CommandExits(c)

CleanStep == (\E t \in tracked : Clean(t)) \/ Cleaned

Next ==
  \/ Create \/ RunStep \/ Cancel \/ Reject \/ CleanStep \/ Restart
  \/ \E c \in Candidates : CandidateStep(c) \/ TimeOut(c) \/ Edit(c)
  \/ \E t \in Candidates \cup {"baseline"} : WriteBehind(t)

Spec == Init /\ [][Next]_vars

\* The commands and the calls of an attempt end by their timeouts; git has none
\* (git.ts runs it bare) and is taken to end, on a local repository.
Fairness ==
  /\ WF_vars(RunStep)
  /\ \A c \in Candidates : WF_vars(CandidateStep(c))
  /\ WF_vars(CleanStep)

-----------------------------------------------------------------------------
Places == {"new", "baseline", "measuring", "adding", "drafting", "judging",
           "recording", "catch", "flush", "done", "orphan"}
Terminal == {"completed", "failed", "cancelled"}

TypeOK ==
  /\ pc \in Places
  /\ status \in {"none", "running", "evaluating"} \cup Terminal
  /\ result \subseteq Candidates \cup {None}
  /\ {aborted, cleaning} \subseteq BOOLEAN
  /\ measured \in 0..Len(Commands)
  /\ broken \subseteq CommandSet
  /\ trees \cup debris \cup tracked \cup stuck \cup hurried \subseteq Candidates \cup {"baseline"}
  /\ added \cup late \subseteq Candidates
  /\ rejects \in 0..MaxRejects
  /\ cand \in [Candidates -> {"none", "queued", "running", "completed", "failed", "excluded"}]
  /\ step \in [Candidates -> Busy \cup {"idle", "ended"}]
  /\ attempt \in [Candidates -> 0..(MaxRetries + 1)]
  /\ at \in [Candidates -> 0..Len(Commands)]
  /\ edited \cup recorded \cup foreign \subseteq Candidates
  /\ passed \in [Candidates -> SUBSET CommandSet]

\* Every hard command passed on the candidate, or is a regression check that
\* was red on the base commit already.
Tested(c) == Hard \cap CommandSet \subseteq passed[c] \cup (Regression \cap broken)

\* An attempt that was neither timed out nor cancelled survives only by passing
\* every hard gate, with a diff on record; an acceptance check that was red at
\* the base commit is never excused.  The diff is its own, unless a rejection
\* came upon the candidate at work: only then has git taken the user's
\* repository for the worktree (git.ts:167-183).
SurvivorsEarnedIt ==
  \A c \in Candidates :
    cand[c] = "completed" /\ c \notin late /\ ~aborted
      => Tested(c) /\ c \in recorded /\ (c \in foreign => c \in hurried)

\* The stored result names nobody, or a candidate that survived its gates and
\* has a diff to apply; nothing that happens afterwards takes that back.
WinnerSurvived ==
  \A w \in result \ {None} : cand[w] = "completed" /\ w \in recorded

\* As long as the process lives, what is on disk can still be released by a
\* rejection: no worktree is created behind a cleanup that has already passed,
\* none dropped from the map while it exists, and a removed one comes back only
\* where somebody was at work when it was removed.  Those, and the ones that
\* resisted their removal, are the only directories nothing will release.
NoTreeForgottenUnlessHurried ==
  pc # "orphan" => trees \cup debris \subseteq tracked \cup stuck \cup hurried

\* A created run comes to an end, cancelled, rejected or failed as it may be:
\* execute() waits for runCandidate(), not for the rows a cancel leaves open.
RunEnds == pc = "baseline" ~> pc \in {"done", "orphan"}

=============================================================================
