----------------------------- MODULE RunLifecycle -----------------------------
(***************************************************************************)
(* One response-mode run, src/core/runManager.ts: the seeds are drafted in  *)
(* parallel, the survivors are ranked, the winner is refined by hill        *)
(* climbing, and the result is recorded - while the user may cancel at any  *)
(* moment and the process may die.                                          *)
(*                                                                          *)
(* An action is what the event loop does between two awaits.  The places    *)
(* of `execute` are the values of `pc`; those in SyncPlaces are reached in   *)
(* microtasks of the step before them, so nothing from outside comes in     *)
(* between.  `calls` are the HASA calls submitted and not yet ended, and a   *)
(* call ends with a text, an empty text, a terminal error or another error, *)
(* also after an abort: an answer already read is not taken back.           *)
(*                                                                          *)
(* `beats` is a history variable; no action reads it.                       *)
(***************************************************************************)
EXTENDS Integers, Sequences, FiniteSets

CONSTANTS
  Seeds,          \* the candidates of the request
  Rounds,         \* refine.maxRounds; 0 when the run does not refine
  Neighbours,     \* round -> the candidate it builds
  None,           \* no candidate
  MaxJudgeCalls,  \* bound on the judge calls of one comparison
  MaxCancels      \* bound on the cancel requests of a behaviour

ASSUME RunAssumption ==
  /\ Seeds # {} /\ IsFiniteSet(Seeds)
  /\ Rounds \in Nat
  /\ DOMAIN Neighbours = 1..Rounds
  /\ \A r \in 1..Rounds : Neighbours[r] \notin Seeds \cup {None}
  /\ \A r, q \in 1..Rounds : Neighbours[r] = Neighbours[q] => r = q
  /\ Seeds \cap {None, "judge", "critic", "neighbour"} = {}
  /\ MaxJudgeCalls \in Nat \ {0}
  /\ MaxCancels \in Nat

VARIABLES
  pc,          \* where execute() is
  status,      \* the run's status in the store
  cand,        \* candidate -> its status in the store
  calls,       \* HASA calls that have not ended, by what they are for
  writing,     \* seeds whose draft is being written to disk
  round,       \* the round of refineWinner
  asked,       \* judge calls of the comparison under way
  tournament,  \* the winner of evaluate(); None without one
  incumbent,   \* refineWinner's incumbent
  result,      \* {w} once a result with winner w is stored; else empty
  aborted,     \* the run's abort signal
  cancels,     \* cancel requests so far
  log,         \* RunEventLog.events, run.status and final candidate.status only
  beats        \* history: <<x, y>>, a comparison found x better than y

place == <<pc, round, asked>>
outcome == <<tournament, incumbent, result, beats>>
vars == <<place, outcome, status, cand, calls, writing, aborted, cancels, log>>

Candidates == Seeds \cup {Neighbours[r] : r \in 1..Rounds}
Terminal == {"completed", "failed", "cancelled"}
SyncPlaces == {"evaluate", "refine", "catch"}

RunIs(s) == [type |-> "run.status", of |-> None, status |-> s]
CandidateIs(c, s) == [type |-> "candidate.status", of |-> c, status |-> s]

\* Mutant of Survivors: failed seeds take part.
SettledSeeds == {c \in Seeds : cand[c] # "running"}
\* Mutant of SeedsSettled: drafts still being written are not waited for.
SeedsAnswered == calls = {}

Survivors == {c \in Seeds : cand[c] = "completed"}
SeedsSettled == calls = {} /\ writing = {}

\* No continuation is queued: the next thing comes from outside.
Quiet == pc \notin SyncPlaces /\ ~(pc = "seeds" /\ SeedsSettled)

-----------------------------------------------------------------------------
Init ==
  /\ pc = "new" /\ status = "none"
  /\ cand = [c \in Candidates |-> "none"]
  /\ calls = {} /\ writing = {} /\ round = 0 /\ asked = 0
  /\ tournament = None /\ incumbent = None /\ result = {}
  /\ aborted = FALSE /\ cancels = 0 /\ log = <<>> /\ beats = {}

\* create() and execute() up to its first await: one synchronous step.
Create ==
  /\ pc = "new"
  /\ pc' = "seeds"
  /\ status' = "running"
  /\ cand' = [c \in Candidates |-> IF c \in Seeds THEN "running" ELSE "none"]
  /\ calls' = Seeds
  /\ log' = <<RunIs("queued"), RunIs("running")>>
  /\ UNCHANGED <<round, asked, outcome, writing, aborted, cancels>>

\* runCandidate(): the store is updated before the draft is written ...
AnswerSeed(c) ==
  /\ Quiet
  /\ c \in calls \cap Seeds
  /\ \E s \in {"completed", "failed"} : cand' = [cand EXCEPT ![c] = s]
  /\ calls' = calls \ {c}
  /\ writing' = writing \cup {c}
  /\ UNCHANGED <<place, outcome, status, aborted, cancels, log>>

\* ... and the event is published after it.
WriteSeed(c) ==
  /\ Quiet
  /\ c \in writing
  /\ writing' = writing \ {c}
  /\ log' = Append(log, CandidateIs(c, cand[c]))
  /\ UNCHANGED <<place, outcome, status, cand, calls, aborted, cancels>>

\* runCandidate()'s catch: store and event together.
FailSeed(c) ==
  /\ Quiet
  /\ c \in calls \cap Seeds
  /\ calls' = calls \ {c}
  /\ \E s \in {"failed", "excluded"} :
       /\ cand' = [cand EXCEPT ![c] = s]
       /\ log' = Append(log, CandidateIs(c, s))
  /\ UNCHANGED <<place, outcome, status, writing, aborted, cancels>>

\* Mutant of SeedsDone: one failed seed rejects Promise.all for good.
SeedsAllDone ==
  /\ pc = "seeds"
  /\ SeedsSettled
  /\ Survivors = Seeds
  /\ pc' = "evaluate"
  /\ status' = "evaluating"
  /\ log' = Append(log, RunIs("evaluating"))
  /\ UNCHANGED <<round, asked, outcome, cand, calls, writing, aborted, cancels>>

\* execute() after Promise.all over the candidates.
SeedsDone ==
  /\ pc = "seeds"
  /\ SeedsSettled
  /\ \/ /\ aborted
        /\ pc' = "flush"
        /\ UNCHANGED <<status, log>>
     \/ /\ ~aborted
        /\ pc' = "evaluate"
        /\ status' = "evaluating"
        /\ log' = Append(log, RunIs("evaluating"))
  /\ UNCHANGED <<round, asked, outcome, cand, calls, writing, aborted, cancels>>

-----------------------------------------------------------------------------
\* What execute() does with a result: nothing once the signal is up, else
\* store it and start writing it to disk.
Conclude(w) ==
  \/ /\ aborted
     /\ pc' = "flush"
     /\ UNCHANGED result
  \/ /\ ~aborted
     /\ pc' = "recording"
     /\ result' = {w}

\* The tournament is over and w won it (None: nobody did).
TournamentEnds(w) ==
  /\ tournament' = w
  /\ asked' = 0
  /\ calls' = {}
  /\ \/ /\ ~aborted /\ w # None /\ Rounds > 0
        /\ pc' = "refine"
        /\ round' = 1
        /\ incumbent' = w
        /\ UNCHANGED result
     \/ /\ aborted \/ w = None \/ Rounds = 0
        /\ Conclude(w)
        /\ UNCHANGED <<round, incumbent>>

\* evaluate(): nobody or one survivor needs no comparison, objective scores
\* may settle every pair, and otherwise a judge is asked - unless the prompt
\* fails the anonymity check, which throws.
Evaluate ==
  /\ pc = "evaluate"
  /\ \/ /\ Survivors = {}
        /\ TournamentEnds(None)
     \/ \E c \in Survivors : Survivors = {c} /\ TournamentEnds(c)
     \/ /\ Cardinality(Survivors) > 1
        /\ \E w \in Survivors \cup {None} : TournamentEnds(w)
     \/ /\ Cardinality(Survivors) > 1
        /\ \/ pc' = "judging" /\ calls' = {"judge"} /\ asked' = 1
           \/ pc' = "catch" /\ UNCHANGED <<calls, asked>>
        /\ UNCHANGED <<round, tournament, incumbent, result>>
  /\ UNCHANGED <<beats, status, cand, writing, aborted, cancels, log>>

\* The ladder wants another reading; a raised signal rejects the submission.
AskAgain ==
  /\ Quiet
  /\ pc \in {"judging", "comparing"}
  /\ asked < MaxJudgeCalls
  /\ \/ aborted /\ pc' = "catch" /\ calls' = {} /\ asked' = 0
     \/ ~aborted /\ asked' = asked + 1 /\ UNCHANGED <<pc, calls>>
  /\ UNCHANGED <<round, outcome, status, cand, writing, aborted, cancels, log>>

Judged ==
  /\ Quiet
  /\ pc = "judging"
  /\ \E w \in Survivors \cup {None} : TournamentEnds(w)
  /\ UNCHANGED <<beats, status, cand, writing, aborted, cancels, log>>

\* A judge's or the critic's call rejects, out of execute().
CallThrows ==
  /\ Quiet
  /\ pc \in {"judging", "comparing", "critique"}
  /\ pc' = "catch"
  /\ calls' = {}
  /\ asked' = 0
  /\ UNCHANGED <<round, outcome, status, cand, writing, aborted, cancels, log>>

-----------------------------------------------------------------------------
\* refineWinner(), top of the loop.
NextRound ==
  /\ pc = "refine"
  /\ \/ /\ aborted \/ round > Rounds
        /\ Conclude(incumbent)
        /\ UNCHANGED calls
     \/ /\ ~aborted /\ round <= Rounds
        /\ pc' = "critique"
        /\ calls' = {"critic"}
        /\ UNCHANGED result
  /\ UNCHANGED <<round, asked, tournament, incumbent, beats, status, cand,
                 writing, aborted, cancels, log>>

\* The critic answers: unreadable or no defects ends the loop; otherwise the
\* neighbour's row is inserted and its call submitted, which a raised signal
\* rejects at once.
Critiqued ==
  /\ Quiet
  /\ pc = "critique"
  /\ \/ /\ Conclude(incumbent)
        /\ calls' = {}
        /\ UNCHANGED cand
     \/ /\ ~aborted
        /\ cand' = [cand EXCEPT ![Neighbours[round]] = "running"]
        /\ calls' = {"neighbour"}
        /\ pc' = "neighbour"
        /\ UNCHANGED result
     \/ /\ aborted
        /\ cand' = [cand EXCEPT ![Neighbours[round]] = "failed"]
        /\ calls' = {}
        /\ Conclude(incumbent)
  /\ UNCHANGED <<round, asked, tournament, incumbent, beats, status, writing,
                 aborted, cancels, log>>

\* The neighbour's draft arrives, or it is empty or the call fails: then the
\* loop ends, and no event tells of the failed candidate.
NeighbourEnds ==
  /\ Quiet
  /\ pc = "neighbour"
  /\ calls' = {}
  /\ \/ /\ cand' = [cand EXCEPT ![Neighbours[round]] = "completed"]
        /\ pc' = "artifact"
        /\ UNCHANGED result
     \/ /\ cand' = [cand EXCEPT ![Neighbours[round]] = "failed"]
        /\ Conclude(incumbent)
  /\ UNCHANGED <<round, asked, tournament, incumbent, beats, status, writing,
                 aborted, cancels, log>>

\* Mutant of Compared: a tie replaces the incumbent.
ComparedGenerously(w) ==
  LET n == Neighbours[round]
  IN /\ log' = Append(log, CandidateIs(n, "completed"))
     /\ calls' = {} /\ asked' = 0
     /\ beats' = CASE w = n -> beats \cup {<<n, incumbent>>}
                   [] w = incumbent -> beats \cup {<<w, n>>}
                   [] w = None -> beats
     /\ \/ /\ w # incumbent
           /\ incumbent' = n /\ round' = round + 1 /\ pc' = "refine"
           /\ UNCHANGED result
        \/ w = incumbent /\ Conclude(incumbent) /\ UNCHANGED <<incumbent, round>>
     /\ UNCHANGED <<tournament, status, cand, writing, aborted, cancels>>

\* The ladder compared incumbent and neighbour; only a win replaces.
Compared(w) ==
  LET n == Neighbours[round]
  IN /\ log' = Append(log, CandidateIs(n, "completed"))
     /\ calls' = {}
     /\ asked' = 0
     /\ \/ /\ w = n
           /\ beats' = beats \cup {<<n, incumbent>>}
           /\ incumbent' = n
           /\ round' = round + 1
           /\ pc' = "refine"
           /\ UNCHANGED result
        \/ /\ w # n
           /\ beats' = IF w = None THEN beats ELSE beats \cup {<<w, n>>}
           /\ Conclude(incumbent)
           /\ UNCHANGED <<incumbent, round>>
     /\ UNCHANGED <<tournament, status, cand, writing, aborted, cancels>>

\* The draft is on disk: scores that differ decide, else the judge is asked,
\* which throws after an abort or when the prompt is not anonymous.
ArtifactWritten ==
  /\ Quiet
  /\ pc = "artifact"
  /\ \/ \E w \in {incumbent, Neighbours[round]} : Compared(w)
     \/ /\ \/ pc' = "catch" /\ UNCHANGED <<calls, asked>>
           \/ ~aborted /\ pc' = "comparing" /\ calls' = {"judge"} /\ asked' = 1
        /\ UNCHANGED <<round, outcome, status, cand, writing, aborted, cancels, log>>

ComparisonJudged ==
  /\ Quiet
  /\ pc = "comparing"
  /\ \E w \in {incumbent, Neighbours[round], None} : Compared(w)

-----------------------------------------------------------------------------
\* result.json, run.jsonl and runs.jsonl are written; the store swallows the
\* errors.  The signal is not looked at again.
Recorded ==
  /\ Quiet
  /\ pc = "recording"
  /\ pc' = "flush"
  /\ status' = "completed"
  /\ log' = Append(log, RunIs("completed"))
  /\ UNCHANGED <<round, asked, outcome, cand, calls, writing, aborted, cancels>>

\* create()'s .catch
Fail ==
  /\ pc = "catch"
  /\ pc' = "flush"
  /\ status' = "failed"
  /\ log' = Append(log, RunIs("failed"))
  /\ UNCHANGED <<round, asked, outcome, cand, calls, writing, aborted, cancels>>

\* The queued appends reached the disk: the promise of waitFor() resolves.
Flushed ==
  /\ Quiet
  /\ pc = "flush"
  /\ pc' = "done"
  /\ UNCHANGED <<round, asked, outcome, status, cand, calls, writing, aborted,
                 cancels, log>>

\* Mutant of Cancel: the signal alone.
CancelSilently ==
  /\ Quiet
  /\ pc \notin {"new", "orphan"}
  /\ cancels < MaxCancels
  /\ cancels' = cancels + 1
  /\ aborted' = TRUE
  /\ UNCHANGED <<place, outcome, status, cand, calls, writing, log>>

\* cancel(): as long as the process lives, whatever the run's status is.
Cancel ==
  /\ Quiet
  /\ pc \notin {"new", "orphan"}
  /\ cancels < MaxCancels
  /\ cancels' = cancels + 1
  /\ aborted' = TRUE
  /\ status' = "cancelled"
  /\ log' = Append(log, RunIs("cancelled"))
  /\ UNCHANGED <<place, outcome, cand, calls, writing>>

\* The process dies and is started again: hydrate() brings back the rows of
\* SQLite; contexts, promises and event logs were memory.
Restart ==
  /\ Quiet
  /\ pc \notin {"new", "orphan"}
  /\ pc' = "orphan"
  /\ calls' = {}
  /\ writing' = {}
  /\ log' = <<>>
  /\ UNCHANGED <<round, asked, outcome, status, cand, aborted, cancels>>

Progress ==
  \/ \E c \in Seeds : AnswerSeed(c) \/ FailSeed(c)
  \/ \E c \in Seeds : WriteSeed(c)
  \/ SeedsDone \/ Evaluate \/ AskAgain \/ Judged \/ CallThrows
  \/ NextRound \/ Critiqued \/ NeighbourEnds \/ ArtifactWritten
  \/ ComparisonJudged \/ Recorded \/ Fail \/ Flushed

Next == Create \/ Progress \/ Cancel \/ Restart

Spec == Init /\ [][Next]_vars

\* Every HASA call and every disk write ends, and continuations run.
FairSpec == Spec /\ WF_vars(Progress)

-----------------------------------------------------------------------------
Places == {"new", "seeds", "evaluate", "judging", "refine", "critique",
           "neighbour", "artifact", "comparing", "recording", "catch",
           "flush", "done", "orphan"}
CandidateStatuses == {"none", "running", "completed", "failed", "excluded"}
Event == [type : {"run.status"}, of : {None},
          status : {"queued", "running", "evaluating"} \cup Terminal]
         \cup [type : {"candidate.status"}, of : Candidates, status : CandidateStatuses]

TypeOK ==
  /\ pc \in Places
  /\ status \in {"none", "running", "evaluating"} \cup Terminal
  /\ cand \in [Candidates -> CandidateStatuses]
  /\ calls \subseteq Seeds \cup {"judge", "critic", "neighbour"}
  /\ writing \subseteq Seeds
  /\ round \in 0..(Rounds + 1)
  /\ asked \in 0..MaxJudgeCalls
  /\ {tournament, incumbent} \subseteq Candidates \cup {None}
  /\ result \subseteq Candidates \cup {None}
  /\ aborted \in BOOLEAN
  /\ cancels \in 0..MaxCancels
  /\ log \in Seq(Event)
  /\ beats \subseteq Candidates \X Candidates

\* Judging waits for the seeds: when "evaluating" is published, every seed has
\* published exactly one final status, the one the store holds, although the
\* store is written first and the event only after the draft reached the disk.
SettledBeforeJudged ==
  \A i \in DOMAIN log : log[i] = RunIs("evaluating") =>
    \A c \in Seeds :
      /\ cand[c] # "running"
      /\ {j \in DOMAIN log : log[j].of = c} # {}
      /\ \A j, k \in DOMAIN log : log[j].of = c /\ log[k].of = c => j = k
      /\ \A j \in DOMAIN log : log[j].of = c => j < i /\ log[j].status = cand[c]

\* A run published as completed has its result stored, and a winner that was
\* itself published as completed before.
CompletedIsBacked ==
  \A i \in DOMAIN log : log[i] = RunIs("completed") =>
    /\ result # {}
    /\ \A w \in result \ {None} :
         \E j \in 1..i : log[j] = CandidateIs(w, "completed")

\* The result is the tournament's winner or the last of a chain of neighbours
\* each found better than the one before; no comparison found another better.
ResultNeverWorse ==
  \A w \in result \ {None} :
    /\ \A x \in Candidates : <<x, w>> \notin beats
    /\ w # tournament =>
         \E n \in 1..Rounds :
           /\ w = Neighbours[n]
           /\ \A r \in 1..n :
                <<Neighbours[r], IF r = 1 THEN tournament ELSE Neighbours[r - 1]>> \in beats

\* When the promise that waitFor() hands out has resolved, the run is in a
\* terminal state, and its last published status is the stored one: the early
\* returns after an abort rely on cancel() having said so.
DoneIsTerminal ==
  pc = "done" =>
    /\ status \in Terminal
    /\ \E i \in DOMAIN log :
         /\ log[i] = RunIs(status)
         /\ \A j \in (i + 1)..Len(log) : log[j].type # "run.status"

\* Once the run is cancelled no further HASA call is submitted for it.
NoCallAfterCancel == [][aborted => calls' \subseteq calls]_vars

\* A created run ends (or its process dies), however its calls and writes end.
RunEnds == pc = "seeds" ~> pc \in {"done", "orphan"}

=============================================================================
