------------------------- MODULE RunLifecycleProofs -------------------------
(***************************************************************************)
(* Proofs about a run and about the stream that carries its events to a    *)
(* client: RunLifecycle for every set of seeds, any number of rounds and   *)
(* any bound on the judge's calls, EventStream for any number of events    *)
(* and connections.                                                        *)
(***************************************************************************)
EXTENDS RunLifecycle, EventStream, TLAPS

Refining == {"refine", "critique", "neighbour", "artifact", "comparing"}
Tournament == {"new", "seeds", "evaluate", "judging"}
Afterwards == {"recording", "flush", "done", "orphan"}

\* Where the run is, and what that says of its round and its calls.
PlaceInv ==
  /\ pc \in Refining => round \in 1..(Rounds + 1) /\ incumbent \in Candidates
  /\ pc \in Refining \ {"refine"} => round \in 1..Rounds
  /\ pc \notin {"new", "seeds"} => writing = {} /\ calls \cap Seeds = {}

-----------------------------------------------------------------------------
(* Every reachable state is well typed, and refineWinner() never leaves    *)
(* its rounds.                                                             *)
THEOREM TypeInv == Spec => [](TypeOK /\ PlaceInv)
<1>1. Init => TypeOK /\ PlaceInv
  <2> SUFFICES ASSUME Init PROVE TypeOK /\ PlaceInv
    OBVIOUS
  <2>1. log \in Seq(Event) /\ asked \in 0..MaxJudgeCalls /\ cancels \in 0..MaxCancels /\ round \in 0..(Rounds + 1)
    BY RunAssumption DEF Init
  <2>2. cand \in [Candidates -> CandidateStatuses]
    BY DEF Init, CandidateStatuses
  <2> QED
    BY <2>1, <2>2 DEF Init, TypeOK, PlaceInv, Terminal, Places, Refining
<1>2. TypeOK /\ PlaceInv /\ [Next]_vars => (TypeOK /\ PlaceInv)'
  <2> SUFFICES ASSUME TypeOK, PlaceInv, [Next]_vars
               PROVE  TypeOK' /\ PlaceInv'
    OBVIOUS
  <2> USE RunAssumption DEF TypeOK, PlaceInv, Places, CandidateStatuses, Terminal, Refining
  <2>ev. ASSUME NEW s \in {"queued", "running", "evaluating"} \cup Terminal
         PROVE  RunIs(s) \in Event
    BY DEF RunIs, Event
  <2>ce. ASSUME NEW c \in Candidates, NEW s \in CandidateStatuses
         PROVE  CandidateIs(c, s) \in Event
    BY DEF CandidateIs, Event
  <2>nb. \A r \in 1..Rounds : Neighbours[r] \in Candidates
    BY DEF Candidates
  <2>sd. Seeds \subseteq Candidates
    BY DEF Candidates
  <2>cc. \A w \in Candidates \cup {None} : Conclude(w) =>
           /\ pc' \in {"flush", "recording"} /\ result' \subseteq Candidates \cup {None}
    BY DEF Conclude
  <2>te. \A w \in Survivors \cup {None} : TournamentEnds(w) =>
           /\ tournament' \in Candidates \cup {None} /\ asked' = 0 /\ calls' = {}
           /\ incumbent' \in Candidates \cup {None} /\ result' \subseteq Candidates \cup {None}
           /\ \/ pc' = "refine" /\ round' = 1 /\ 1 <= Rounds /\ incumbent' \in Candidates
              \/ pc' \in {"flush", "recording"} /\ round' = round
    BY <2>cc, <2>sd DEF TournamentEnds, Survivors, Conclude
  <2>1. CASE Create
    BY <2>1, <2>ev, <2>sd DEF Create, outcome
  <2>2. ASSUME NEW c \in Seeds, AnswerSeed(c)
        PROVE  TypeOK' /\ PlaceInv'
    BY <2>2, <2>sd DEF AnswerSeed, place, outcome
  <2>2a. ASSUME NEW c \in Seeds, FailSeed(c)
         PROVE  TypeOK' /\ PlaceInv'
    <3>1. PICK s \in {"failed", "excluded"} :
              cand' = [cand EXCEPT ![c] = s] /\ log' = Append(log, CandidateIs(c, s))
      BY <2>2a DEF FailSeed
    <3>2. cand' \in [Candidates -> CandidateStatuses] /\ log' \in Seq(Event)
      BY <3>1, <2>ce, <2>sd
    <3> QED
      BY <2>2a, <3>2 DEF FailSeed, place, outcome
  <2>3. CASE \E c \in Seeds : WriteSeed(c)
    BY <2>3, <2>ce, <2>sd DEF WriteSeed, place, outcome
  <2>4. CASE SeedsDone
    <3>1. calls = {} /\ writing = {} /\ pc' \in {"flush", "evaluate"} /\ status' \in {status, "evaluating"} /\ log' \in Seq(Event)
      <4>1. RunIs("evaluating") \in Event
        BY <2>ev
      <4> QED
        BY <2>4, <4>1 DEF SeedsDone, SeedsSettled
    <3> QED
      BY <2>4, <3>1 DEF SeedsDone, outcome
  <2>5. CASE Evaluate
    BY <2>5, <2>te DEF Evaluate, Survivors
  <2>6. CASE AskAgain
    BY <2>6 DEF AskAgain, outcome
  <2>7. CASE Judged
    BY <2>7, <2>te DEF Judged
  <2>8. CASE CallThrows
    BY <2>8 DEF CallThrows, outcome
  <2>9. CASE NextRound
    BY <2>9, <2>cc DEF NextRound
  <2>10. CASE Critiqued
    BY <2>10, <2>cc, <2>nb DEF Critiqued
  <2>11. CASE NeighbourEnds
    BY <2>11, <2>cc, <2>nb DEF NeighbourEnds
  <2>12. ASSUME NEW w \in {incumbent, Neighbours[round], None}, Compared(w), pc \in {"artifact", "comparing"}
         PROVE  TypeOK' /\ PlaceInv'
    <3> DEFINE n == Neighbours[round]
    <3>1. n \in Candidates /\ incumbent \in Candidates /\ w \in Candidates \cup {None} /\ round \in 1..Rounds
      BY <2>12, <2>nb
    <3>2. log' = Append(log, CandidateIs(n, "completed")) /\ log' \in Seq(Event)
      BY <2>12, <2>ce, <3>1 DEF Compared
    <3>3. beats' \subseteq Candidates \X Candidates
      BY <2>12, <3>1 DEF Compared
    <3>4. result' \subseteq Candidates \cup {None} /\ incumbent' \in Candidates
          /\ \/ pc' = "refine" /\ round' = round + 1
             \/ pc' \in {"flush", "recording"} /\ round' = round
      BY <2>12, <3>1, <2>cc DEF Compared
    <3>5. calls' = {} /\ asked' = 0 /\ UNCHANGED <<tournament, status, cand, writing, aborted, cancels>>
      BY <2>12 DEF Compared
    <3> QED
      BY <2>12, <3>1, <3>2, <3>3, <3>4, <3>5
  <2>13. CASE ArtifactWritten
    BY <2>13, <2>12 DEF ArtifactWritten, outcome
  <2>14. CASE ComparisonJudged
    BY <2>14, <2>12 DEF ComparisonJudged
  <2>15. CASE Recorded
    BY <2>15, <2>ev DEF Recorded, outcome
  <2>16. CASE Fail
    BY <2>16, <2>ev DEF Fail, outcome
  <2>17. CASE Flushed
    BY <2>17 DEF Flushed, outcome
  <2>18. CASE Cancel
    BY <2>18, <2>ev DEF Cancel, place, outcome
  <2>19. CASE Restart
    BY <2>19 DEF Restart, outcome
  <2>20. CASE UNCHANGED vars
    BY <2>20 DEF vars, place, outcome
  <2> QED
    BY <2>1, <2>2, <2>2a, <2>3, <2>4, <2>5, <2>6, <2>7, <2>8, <2>9, <2>10, <2>11, <2>13, <2>14, <2>15,
       <2>16, <2>17, <2>18, <2>19, <2>20 DEF Next, Progress
<1> QED
  BY <1>1, <1>2, PTL DEF Spec

\* The type invariant alone.
THEOREM TypeCorrect == Spec => []TypeOK
  BY TypeInv, PTL
-----------------------------------------------------------------------------
\* The last status of the run that was published is the stored one.
Published ==
  \E i \in DOMAIN log : /\ log[i] = RunIs(status)
                       /\ \A j \in (i + 1)..Len(log) : log[j].type # "run.status"

StatusInv ==
  /\ aborted => status \in Terminal /\ pc \notin {"new", "evaluate"}
  /\ pc \in {"flush", "done"} => status \in Terminal
  /\ pc \notin {"new", "orphan"} => Published

\* setStatus: the status just published is the last one.
LEMMA PublishedRun ==
  ASSUME log \in Seq(Event), log' = Append(log, RunIs(status'))
  PROVE  Published'
<1>1. Len(log') = Len(log) + 1 /\ log'[Len(log) + 1] = RunIs(status') /\ Len(log) \in Nat
  OBVIOUS
<1>2. DOMAIN log' = 1..(Len(log) + 1)
  OBVIOUS
<1> QED
  BY <1>1, <1>2 DEF Published

\* What is published of a candidate leaves the last status of the run.
LEMMA PublishedCandidate ==
  ASSUME log \in Seq(Event), Published, NEW c, NEW s,
         log' = Append(log, CandidateIs(c, s)), status' = status
  PROVE  Published'
<1>1. PICK i \in DOMAIN log : /\ log[i] = RunIs(status)
                              /\ \A j \in (i + 1)..Len(log) : log[j].type # "run.status"
  BY DEF Published
<1>2. /\ Len(log) \in Nat /\ i \in 1..Len(log) /\ Len(log') = Len(log) + 1 /\ i \in DOMAIN log'
      /\ log'[i] = log[i] /\ log'[Len(log) + 1] = CandidateIs(c, s)
      /\ \A j \in 1..Len(log) : log'[j] = log[j]
  OBVIOUS
<1>3. CandidateIs(c, s).type # "run.status"
  BY DEF CandidateIs
<1>4. RunIs(status') = RunIs(status)
  BY DEF RunIs
<1>5. \A j \in (i + 1)..Len(log') : log'[j].type # "run.status"
  BY <1>1, <1>2, <1>3
<1> QED
  BY <1>1, <1>2, <1>4, <1>5 DEF Published

(* The last published status is the stored one, and whoever aborted the    *)
(* run has published a terminal one.                                       *)
THEOREM StatusCorrect == Spec => []StatusInv
<1>1. Init => StatusInv
  BY DEF Init, StatusInv
<1>2. TypeOK /\ PlaceInv /\ StatusInv /\ [Next]_vars => StatusInv'
  <2> SUFFICES ASSUME TypeOK, PlaceInv, StatusInv, [Next]_vars
               PROVE  StatusInv'
    OBVIOUS
  <2> USE DEF StatusInv, Terminal
  <2>lg. log \in Seq(Event)
    BY DEF TypeOK
  <2>rs. log' = Append(log, RunIs(status')) => Published'
    BY <2>lg, PublishedRun
  <2>cs. ASSUME NEW c, NEW s, Published, log' = Append(log, CandidateIs(c, s)), status' = status
         PROVE  Published'
    BY <2>lg, <2>cs, PublishedCandidate
  <2>un. Published /\ UNCHANGED <<log, status>> => Published'
    BY DEF Published
  <2>cc. \A w : Conclude(w) => \/ pc' = "flush" /\ aborted
                               \/ pc' = "recording" /\ ~aborted
    BY DEF Conclude
  <2>1. CASE Create
    <3>1. log' = Append(<<RunIs("queued")>>, RunIs("running")) /\ status' = "running"
      BY <2>1 DEF Create
    <3>2. Published'
      BY <3>1 DEF Published
    <3> QED
      BY <2>1, <3>2 DEF Create
  <2>2. CASE \E c \in Seeds : AnswerSeed(c)
    BY <2>2, <2>un DEF AnswerSeed, place
  <2>3. CASE \E c \in Seeds : FailSeed(c)
    BY <2>3, <2>cs DEF FailSeed, place
  <2>4. CASE \E c \in Seeds : WriteSeed(c)
    BY <2>4, <2>cs DEF WriteSeed, place
  <2>5. CASE SeedsDone
    BY <2>5, <2>un, <2>rs DEF SeedsDone
  <2>6. CASE Evaluate
    BY <2>6, <2>un, <2>cc DEF Evaluate, TournamentEnds
  <2>7. CASE AskAgain
    BY <2>7, <2>un DEF AskAgain
  <2>8. CASE Judged
    BY <2>8, <2>un, <2>cc DEF Judged, TournamentEnds
  <2>9. CASE CallThrows
    BY <2>9, <2>un DEF CallThrows
  <2>10. CASE NextRound
    BY <2>10, <2>un, <2>cc DEF NextRound
  <2>11. CASE Critiqued
    BY <2>11, <2>un, <2>cc DEF Critiqued
  <2>12. CASE NeighbourEnds
    BY <2>12, <2>un, <2>cc DEF NeighbourEnds
  <2>13. ASSUME NEW w, Compared(w), pc \in {"artifact", "comparing"}
         PROVE  StatusInv'
    BY <2>13, <2>cs, <2>cc DEF Compared
  <2>14. CASE ArtifactWritten
    BY <2>14, <2>13, <2>un DEF ArtifactWritten
  <2>15. CASE ComparisonJudged
    BY <2>15, <2>13 DEF ComparisonJudged
  <2>16. CASE Recorded
    BY <2>16, <2>rs DEF Recorded
  <2>17. CASE Fail
    BY <2>17, <2>rs DEF Fail
  <2>18. CASE Flushed
    BY <2>18, <2>un DEF Flushed
  <2>19. CASE Cancel
    BY <2>19, <2>rs DEF Cancel, place, Quiet, SyncPlaces
  <2>20. CASE Restart
    BY <2>20 DEF Restart
  <2>21. CASE UNCHANGED vars
    BY <2>21, <2>un DEF vars, place
  <2> QED
    BY <2>1, <2>2, <2>3, <2>4, <2>5, <2>6, <2>7, <2>8, <2>9, <2>10, <2>11, <2>12, <2>14, <2>15,
       <2>16, <2>17, <2>18, <2>19, <2>20, <2>21 DEF Next, Progress
<1> QED
  BY <1>1, <1>2, TypeInv, PTL DEF Spec

(* When waitFor()'s promise has resolved the run is terminal, and its last *)
(* published status is the one the store holds.                            *)
THEOREM DoneTerminal == Spec => []DoneIsTerminal
<1>1. StatusInv => DoneIsTerminal
  BY DEF StatusInv, DoneIsTerminal, Published
<1> QED
  BY <1>1, StatusCorrect, PTL

(* No HASA call is submitted for a run after its cancellation.             *)
THEOREM NoCallsAfterCancel == Spec => NoCallAfterCancel
<1>1. StatusInv /\ [Next]_vars => [aborted => calls' \subseteq calls]_vars
  <2> SUFFICES ASSUME StatusInv, Next, aborted PROVE calls' \subseteq calls
    OBVIOUS
  <2>1. ASSUME NEW w, TournamentEnds(w) PROVE calls' \subseteq calls
    BY <2>1 DEF TournamentEnds
  <2>2. ASSUME NEW w, Compared(w) PROVE calls' \subseteq calls
    BY <2>2 DEF Compared
  <2>3. CASE Create \/ Evaluate
    BY <2>3 DEF StatusInv, Create, Evaluate
  <2>4. CASE Judged \/ ArtifactWritten \/ ComparisonJudged
    BY <2>4, <2>1, <2>2 DEF Judged, ArtifactWritten, ComparisonJudged
  <2>5. CASE \E c \in Seeds : AnswerSeed(c) \/ FailSeed(c) \/ WriteSeed(c)
    BY <2>5 DEF AnswerSeed, FailSeed, WriteSeed
  <2>6. CASE SeedsDone \/ AskAgain \/ CallThrows \/ NextRound
    BY <2>6 DEF SeedsDone, AskAgain, CallThrows, NextRound
  <2>7. CASE Critiqued \/ NeighbourEnds \/ Recorded \/ Fail \/ Flushed \/ Cancel \/ Restart
    BY <2>7 DEF Critiqued, NeighbourEnds, Recorded, Fail, Flushed, Cancel, Restart
  <2> QED
    BY <2>3, <2>4, <2>5, <2>6, <2>7 DEF Next, Progress
<1> QED
  BY <1>1, StatusCorrect, PTL DEF Spec, NoCallAfterCancel
-----------------------------------------------------------------------------
(* How the result comes about.  The incumbent heads a chain of neighbours, *)
(* each found better than the one before, that begins with the winner of   *)
(* the tournament; nothing was found better than it, and the neighbours of *)
(* the rounds to come are in no comparison yet.                            *)
Chain(n) == \A r \in 1..n : <<Neighbours[r], IF r = 1 THEN tournament ELSE Neighbours[r - 1]>> \in beats

ResultInv ==
  /\ pc \notin Afterwards => result = {}
  /\ pc \in Tournament => beats = {}
  /\ pc \in Refining =>
       /\ tournament \in Seeds
       /\ incumbent = IF round = 1 THEN tournament ELSE Neighbours[round - 1]
       /\ Chain(round - 1)
       /\ \A x \in Candidates : <<x, incumbent>> \notin beats
       /\ \A x \in Candidates, q \in round..Rounds : <<x, Neighbours[q]>> \notin beats
  /\ ResultNeverWorse

\* Conclude stores the winner, or nothing.
LEMMA ConcludeResult ==
  ASSUME NEW w, Conclude(w)
  PROVE  /\ pc' \in {"flush", "recording"}
         /\ result' \in {result, {w}}
  BY DEF Conclude

\* Concluding with the incumbent of a refinement that found nothing better.
LEMMA ConcludeIncumbent ==
  ASSUME TypeOK, PlaceInv, ResultInv, pc \in Refining, Conclude(incumbent),
         tournament' = tournament, beats' \subseteq Candidates \X Candidates, beats \subseteq beats',
         \A x \in Candidates : <<x, incumbent>> \notin beats'
  PROVE  ResultInv'
<1>1. /\ pc' \in {"flush", "recording"}
      /\ result' \subseteq {incumbent}
  BY ConcludeResult DEF ResultInv, Refining, Afterwards
<1>2. round - 1 \in 1..Rounds \/ round = 1
  BY RunAssumption DEF PlaceInv
<1>3. incumbent # tournament => /\ round - 1 \in 1..Rounds /\ incumbent = Neighbours[round - 1]
                               /\ Chain(round - 1)
  BY <1>2 DEF ResultInv
<1>4. Chain(round - 1) => \A r \in 1..(round - 1) :
          <<Neighbours[r], IF r = 1 THEN tournament' ELSE Neighbours[r - 1]>> \in beats'
  BY DEF Chain
<1>5. ResultNeverWorse'
  <2> SUFFICES ASSUME NEW w \in (result \ {None})'
               PROVE  /\ \A x \in Candidates : <<x, w>> \notin beats'
                      /\ w # tournament' =>
                           \E n \in 1..Rounds :
                             /\ w = Neighbours[n]
                             /\ \A r \in 1..n :
                                  <<Neighbours[r], IF r = 1 THEN tournament' ELSE Neighbours[r - 1]>> \in beats'
    BY DEF ResultNeverWorse
  <2>1. w = incumbent
    BY <1>1
  <2> QED
    BY <2>1, <1>3, <1>4
<1> QED
  BY <1>1, <1>5 DEF ResultInv, Refining, Afterwards, Tournament

(* The invariant of the result holds in every reachable state.             *)
THEOREM ResultCorrect == Spec => []ResultInv
<1> USE DEF Refining, Afterwards, Tournament
<1>1. Init => ResultInv
  BY DEF Init, ResultInv, ResultNeverWorse
<1>2. TypeOK /\ PlaceInv /\ ResultInv /\ [Next]_vars => ResultInv'
  <2> SUFFICES ASSUME TypeOK, PlaceInv, ResultInv, [Next]_vars
               PROVE  ResultInv'
    OBVIOUS
  <2>kept. ASSUME UNCHANGED <<round, outcome>>,
                  pc' \in Afterwards => pc \in Afterwards \/ result = {},
                  pc' \notin Afterwards => pc \notin Afterwards,
                  pc' \in Tournament => pc \in Tournament,
                  pc' \in Refining => pc \in Refining
           PROVE  ResultInv'
    <3>1. ResultNeverWorse'
      BY <2>kept DEF ResultInv, ResultNeverWorse, outcome
    <3> QED
      BY <2>kept, <3>1 DEF ResultInv, outcome, Chain
  <2>won. ASSUME pc \in {"evaluate", "judging"}, UNCHANGED beats, NEW w \in Survivors \cup {None}, TournamentEnds(w)
          PROVE  ResultInv'
    <3>1. beats' = {} /\ result = {} /\ tournament' = w /\ w \in Seeds \cup {None} /\ result' \subseteq {w}
      BY <2>won, ConcludeResult DEF ResultInv, TournamentEnds, Survivors
    <3>2. ResultNeverWorse'
      BY <3>1 DEF ResultNeverWorse
    <3>3. \/ pc' \in {"flush", "recording"}
          \/ pc' = "refine" /\ round' = 1 /\ incumbent' = w /\ w # None /\ result' = result
      BY <2>won, ConcludeResult DEF TournamentEnds
    <3>4. CASE pc' \in {"flush", "recording"}
      BY <3>2, <3>4 DEF ResultInv
    <3>5. CASE pc' = "refine" /\ round' = 1 /\ incumbent' = w /\ w # None /\ result' = result
      <4>1. Chain(round - 1)'
        BY <3>5 DEF Chain
      <4> QED
        BY <3>1, <3>2, <3>5, <4>1 DEF ResultInv
    <3> QED
      BY <3>3, <3>4, <3>5
  <2>stay. ASSUME pc \in Refining, pc' \in Refining \cup {"catch"}, UNCHANGED <<round, outcome>>
           PROVE  ResultInv'
    BY <2>stay, <2>kept
  <2>1. CASE Create
    BY <2>1, <2>kept DEF Create
  <2>2. CASE \E c \in Seeds : AnswerSeed(c) \/ FailSeed(c) \/ WriteSeed(c)
    BY <2>2, <2>kept DEF AnswerSeed, FailSeed, WriteSeed, place
  <2>3. CASE SeedsDone
    BY <2>3, <2>kept DEF SeedsDone, ResultInv
  <2>4. CASE Evaluate
    <3>1. ASSUME \/ pc' = "judging" /\ calls' = {"judge"} /\ asked' = 1
                 \/ pc' = "catch" /\ UNCHANGED <<calls, asked>>,
                 UNCHANGED <<round, tournament, incumbent, result>>
          PROVE  ResultInv'
      BY <2>4, <3>1, <2>kept DEF Evaluate, outcome, ResultInv
    <3> QED
      BY <2>4, <3>1, <2>won DEF Evaluate
  <2>5. CASE AskAgain
    BY <2>5, <2>kept DEF AskAgain
  <2>6. CASE Judged
    BY <2>6, <2>won DEF Judged
  <2>7. CASE CallThrows
    BY <2>7, <2>kept DEF CallThrows
  <2>8. CASE NextRound
    <3>1. ASSUME pc' = "critique", UNCHANGED result
          PROVE  ResultInv'
      BY <2>8, <3>1, <2>stay DEF NextRound, outcome
    <3>2. ASSUME Conclude(incumbent) PROVE ResultInv'
      BY <2>8, <3>2, ConcludeIncumbent DEF NextRound, TypeOK, ResultInv
    <3> QED
      BY <2>8, <3>1, <3>2 DEF NextRound
  <2>9. CASE Critiqued
    <3>1. ASSUME pc' = "neighbour", UNCHANGED result
          PROVE  ResultInv'
      BY <2>9, <3>1, <2>stay DEF Critiqued, outcome
    <3>2. ASSUME Conclude(incumbent) PROVE ResultInv'
      BY <2>9, <3>2, ConcludeIncumbent DEF Critiqued, TypeOK, ResultInv
    <3> QED
      BY <2>9, <3>1, <3>2 DEF Critiqued
  <2>10. CASE NeighbourEnds
    <3>1. ASSUME pc' = "artifact", UNCHANGED result
          PROVE  ResultInv'
      BY <2>10, <3>1, <2>stay DEF NeighbourEnds, outcome
    <3>2. ASSUME Conclude(incumbent) PROVE ResultInv'
      BY <2>10, <3>2, ConcludeIncumbent DEF NeighbourEnds, TypeOK, ResultInv
    <3> QED
      BY <2>10, <3>1, <3>2 DEF NeighbourEnds
  <2>11. ASSUME NEW w \in {incumbent, Neighbours[round], None}, Compared(w), pc \in {"artifact", "comparing"}
         PROVE  ResultInv'
    <3> DEFINE n == Neighbours[round]
    <3>1. /\ round \in 1..Rounds /\ n \in Candidates /\ incumbent \in Candidates
          /\ n \notin Seeds /\ n # None /\ tournament \in Seeds /\ result = {}
      BY <2>11, RunAssumption DEF PlaceInv, ResultInv, Candidates
    <3>2. n # incumbent
      BY <2>11, <3>1, RunAssumption DEF ResultInv
    <3>3. CASE w = n
      <4>1. /\ beats' = beats \cup {<<n, incumbent>>} /\ incumbent' = n /\ round' = round + 1
            /\ pc' = "refine" /\ result' = {} /\ tournament' = tournament
        BY <2>11, <3>1, <3>2, <3>3 DEF Compared
      <4>2. Chain(round - 1)'
        <5>1. Chain(round - 1)
          BY <2>11 DEF ResultInv
        <5> QED
          BY <5>1, <4>1, <3>1, <2>11 DEF Chain, ResultInv
      <4>3. \A x \in Candidates : <<x, n>> \notin beats'
        BY <4>1, <3>1, <3>2, <2>11 DEF ResultInv
      <4>4. \A q \in (round + 1)..Rounds : Neighbours[q] # incumbent
        BY <3>1, <2>11, RunAssumption DEF ResultInv
      <4>5. \A x \in Candidates, q \in (round + 1)..Rounds : <<x, Neighbours[q]>> \notin beats'
        BY <4>1, <4>4, <3>1, <2>11 DEF ResultInv
      <4>6. ResultNeverWorse'
        BY <4>1 DEF ResultNeverWorse
      <4> QED
        BY <4>1, <4>2, <4>3, <4>5, <4>6, <3>1 DEF ResultInv
    <3>4. CASE w # n
      <4>1. /\ beats' \subseteq beats \cup {<<incumbent, n>>} /\ beats \subseteq beats'
            /\ Conclude(incumbent) /\ tournament' = tournament
        BY <2>11, <3>4 DEF Compared
      <4>2. \A x \in Candidates : <<x, incumbent>> \notin beats'
        BY <4>1, <3>2, <2>11 DEF ResultInv
      <4>3. beats' \subseteq Candidates \X Candidates
        BY <4>1, <3>1 DEF TypeOK
      <4> QED
        BY <4>1, <4>2, <4>3, <2>11, ConcludeIncumbent
    <3> QED
      BY <3>3, <3>4
  <2>12. CASE ArtifactWritten
    <3>1. ASSUME pc' \in {"catch", "comparing"}, UNCHANGED <<round, outcome>>
          PROVE  ResultInv'
      BY <2>12, <3>1, <2>stay DEF ArtifactWritten
    <3> QED
      BY <2>12, <3>1, <2>11 DEF ArtifactWritten
  <2>13. CASE ComparisonJudged
    BY <2>13, <2>11 DEF ComparisonJudged
  <2>14. CASE Recorded \/ Flushed
    BY <2>14, <2>kept DEF Recorded, Flushed
  <2>15. CASE Fail
    BY <2>15, <2>kept DEF Fail, ResultInv
  <2>16. CASE Cancel
    BY <2>16, <2>kept DEF Cancel, place
  <2>17. CASE Restart
    BY <2>17, <2>kept DEF Restart, ResultInv
  <2>18. CASE UNCHANGED vars
    BY <2>18, <2>kept DEF vars, place
  <2> QED
    BY <2>1, <2>2, <2>3, <2>4, <2>5, <2>6, <2>7, <2>8, <2>9, <2>10, <2>12, <2>13, <2>14, <2>15,
       <2>16, <2>17, <2>18 DEF Next, Progress
<1> QED
  BY <1>1, <1>2, TypeInv, PTL DEF Spec

(* However calls fail and whenever the run is cancelled, its result is the *)
(* winner of the tournament or was found better in an unbroken chain of    *)
(* comparisons, and nothing was found better than it.                      *)
THEOREM NeverWorse == Spec => []ResultNeverWorse
<1>1. ResultInv => ResultNeverWorse
  BY DEF ResultInv
<1> QED
  BY <1>1, ResultCorrect, PTL
-----------------------------------------------------------------------------
(* What was published before a run is: a seed that completed and is no     *)
(* longer being written, the incumbent, and the winner of a stored result. *)
Told(l, c) == \E j \in DOMAIN l : l[j] = CandidateIs(c, "completed")

BackedInv ==
  /\ pc \in Afterwards \cup {"catch"} \cup Refining \cup {"evaluate", "judging"} => writing = {}
  /\ pc # "orphan" => \A c \in Seeds : cand[c] = "completed" /\ c \notin writing => Told(log, c)
  /\ pc \in Refining => Told(log, incumbent)
  /\ pc \in {"recording", "flush", "done"} => \A w \in result \ {None} : Told(log, w)
  /\ pc = "recording" => result # {}
  /\ (\E i \in DOMAIN log : log[i] = RunIs("completed")) => pc \in {"flush", "done"}
  /\ CompletedIsBacked

\* The log only grows: what was told stays told, and is told before the end.
LEMMA StillTold ==
  ASSUME log \in Seq(Event), NEW e, log' = Append(log, e), NEW c, Told(log, c)
  PROVE  Told(log', c)
<1>1. PICK j \in DOMAIN log : log[j] = CandidateIs(c, "completed")
  BY DEF Told
<1>2. j \in DOMAIN log' /\ log'[j] = log[j]
  OBVIOUS
<1> QED
  BY <1>1, <1>2 DEF Told

\* The completion of a candidate is told by its event.
LEMMA NowTold ==
  ASSUME log \in Seq(Event), NEW c, log' = Append(log, CandidateIs(c, "completed"))
  PROVE  Told(log', c)
<1>1. Len(log) + 1 \in DOMAIN log' /\ log'[Len(log) + 1] = CandidateIs(c, "completed")
  OBVIOUS
<1> QED
  BY <1>1 DEF Told

\* An event that is not the completion of the run leaves the two facts about it.
LEMMA StillBacked ==
  ASSUME log \in Seq(Event), NEW e, log' = Append(log, e), e # RunIs("completed"), CompletedIsBacked,
         UNCHANGED result \/ ~\E i \in DOMAIN log : log[i] = RunIs("completed")
  PROVE  /\ CompletedIsBacked'
         /\ (\E i \in DOMAIN log' : log'[i] = RunIs("completed")) =>
                \E i \in DOMAIN log : log[i] = RunIs("completed")
<1>1. \A i \in DOMAIN log' : \/ i \in DOMAIN log /\ log'[i] = log[i]
                             \/ i = Len(log) + 1 /\ log'[i] = e
  OBVIOUS
<1>2. \A i \in DOMAIN log' : log'[i] = RunIs("completed") => i \in DOMAIN log /\ log[i] = RunIs("completed")
  BY <1>1
<1>3. \A i \in DOMAIN log : \A j \in 1..i : log'[j] = log[j]
  OBVIOUS
<1>4. CompletedIsBacked'
  BY <1>2, <1>3 DEF CompletedIsBacked
<1> QED
  BY <1>2, <1>4

(* The invariant of what was told holds in every reachable state.          *)
THEOREM BackedCorrect == Spec => []BackedInv
<1> USE DEF Refining, Afterwards
<1>1. Init => BackedInv
  BY DEF Init, BackedInv, CompletedIsBacked, Candidates
<1>2. TypeOK /\ PlaceInv /\ ResultInv /\ BackedInv /\ [Next]_vars => BackedInv'
  <2> SUFFICES ASSUME TypeOK, PlaceInv, ResultInv, BackedInv, [Next]_vars
               PROVE  BackedInv'
    OBVIOUS
  <2>lg. log \in Seq(Event)
    BY DEF TypeOK
  <2>ci. \A c, x : CandidateIs(c, x) # RunIs("completed")
    BY DEF CandidateIs, RunIs
  <2>ri. \A x : RunIs(x) = RunIs("completed") => x = "completed"
    BY DEF RunIs
  <2>nn. \A r \in 1..Rounds : Neighbours[r] \notin Seeds
    BY RunAssumption
  <2>u1. UNCHANGED <<log, result>> => CompletedIsBacked'
    BY DEF CompletedIsBacked, BackedInv
  <2>u2. UNCHANGED log /\ (~\E i \in DOMAIN log : log[i] = RunIs("completed")) => CompletedIsBacked'
    BY DEF CompletedIsBacked
  <2>kept. ASSUME UNCHANGED <<log, incumbent, result, writing>>,
                  pc' # "orphan" => pc # "orphan" /\ \A c \in Seeds : cand'[c] = cand[c],
                  pc' \in Refining => pc \in Refining,
                  pc' \in {"recording", "flush", "done"} => pc \in {"recording", "flush", "done"} \/ result = {},
                  pc' = "recording" => pc = "recording",
                  pc' \in Afterwards \cup {"catch"} \cup Refining \cup {"evaluate", "judging"} => writing = {},
                  pc \in {"flush", "done"} => pc' \in {"flush", "done"}
           PROVE  BackedInv'
    <3>1. CompletedIsBacked'
      BY <2>kept, <2>u1
    <3>2. (\E i \in DOMAIN log' : log'[i] = RunIs("completed")) => pc' \in {"flush", "done"}
      BY <2>kept DEF BackedInv
    <3>3. pc' # "orphan" => \A c \in Seeds : cand'[c] = "completed" /\ c \notin writing' => Told(log', c)
      BY <2>kept DEF BackedInv
    <3>4. pc' \in {"recording", "flush", "done"} => \A w \in result' \ {None} : Told(log', w)
      BY <2>kept DEF BackedInv
    <3>5. pc' \in Refining => Told(log', incumbent')
      BY <2>kept DEF BackedInv
    <3> QED
      BY <2>kept, <3>1, <3>2, <3>3, <3>4, <3>5 DEF BackedInv
  <2>end. ASSUME NEW w, Conclude(w), w # None => Told(log, w), UNCHANGED log, writing' = {}, writing = {},
                 pc \notin Afterwards, \A c \in Seeds : cand'[c] = cand[c]
          PROVE  BackedInv'
    <3>1. pc' \in {"flush", "recording"} /\ result' \subseteq {w} /\ (pc' = "recording" => result' = {w})
      BY <2>end DEF Conclude, ResultInv
    <3>2. ~\E i \in DOMAIN log : log[i] = RunIs("completed")
      BY <2>end DEF BackedInv
    <3> QED
      BY <2>end, <2>u2, <3>1, <3>2 DEF BackedInv
  <2>won. ASSUME pc \in {"evaluate", "judging"}, NEW w \in Survivors \cup {None}, TournamentEnds(w),
                 UNCHANGED <<log, cand, writing>>
          PROVE  BackedInv'
    <3>1. writing = {} /\ (w # None => Told(log, w))
      BY <2>won DEF BackedInv, Survivors
    <3>2. CASE Conclude(w)
      BY <2>won, <3>1, <3>2, <2>end
    <3>3. CASE pc' = "refine" /\ incumbent' = w /\ UNCHANGED result /\ w # None
      BY <2>won, <3>1, <3>3, <2>u1 DEF BackedInv
    <3> QED
      BY <2>won, <3>2, <3>3 DEF TournamentEnds
  <2>1. CASE Create
    <3>1. log' = <<RunIs("queued"), RunIs("running")>> /\ pc' = "seeds" /\ \A c \in Seeds : cand'[c] = "running"
      BY <2>1 DEF Create, Candidates
    <3>2. \A i \in DOMAIN log' : log'[i] # RunIs("completed")
      BY <3>1, <2>ri
    <3> QED
      BY <3>1, <3>2 DEF BackedInv, CompletedIsBacked
  <2>2. ASSUME NEW c \in Seeds, AnswerSeed(c)
        PROVE  BackedInv'
    <3>1. /\ UNCHANGED <<pc, log, result, incumbent>>
          /\ writing' = writing \cup {c}
          /\ \A d \in Seeds \ {c} : cand'[d] = cand[d]
      <4>1. PICK x \in {"completed", "failed"} : cand' = [cand EXCEPT ![c] = x]
        BY <2>2 DEF AnswerSeed
      <4>2. \A d \in Seeds \ {c} : cand'[d] = cand[d]
        BY <4>1 DEF TypeOK, Candidates
      <4> QED
        BY <2>2, <4>2 DEF AnswerSeed, place, outcome
    <3>2. pc = "seeds" \/ pc = "new"
      BY <2>2 DEF AnswerSeed, PlaceInv
    <3> QED
      BY <3>1, <3>2, <2>u1 DEF BackedInv
  <2>3. ASSUME NEW c \in Seeds, FailSeed(c)
        PROVE  BackedInv'
    <3>1. PICK x \in {"failed", "excluded"} : cand' = [cand EXCEPT ![c] = x] /\ log' = Append(log, CandidateIs(c, x))
      BY <2>3 DEF FailSeed
    <3>2. UNCHANGED <<pc, result, incumbent, writing>> /\ (pc = "seeds" \/ pc = "new")
      BY <2>3 DEF FailSeed, place, outcome, PlaceInv
    <3>3. \A d \in Seeds : cand'[d] = "completed" => cand[d] = "completed"
      BY <3>1 DEF TypeOK, Candidates
    <3>4. \A d : Told(log, d) => Told(log', d)
      BY <3>1, <2>lg, StillTold
    <3>5. CompletedIsBacked' /\ ~\E i \in DOMAIN log' : log'[i] = RunIs("completed")
      BY <3>1, <3>2, <2>lg, <2>ci, StillBacked DEF BackedInv
    <3> QED
      BY <3>2, <3>3, <3>4, <3>5 DEF BackedInv
  <2>4. ASSUME NEW c \in Seeds, WriteSeed(c)
        PROVE  BackedInv'
    <3>1. log' = Append(log, CandidateIs(c, cand[c])) /\ writing' = writing \ {c}
          /\ UNCHANGED <<pc, result, incumbent, cand>> /\ (pc = "seeds" \/ pc = "new")
      BY <2>4 DEF WriteSeed, place, outcome, PlaceInv
    <3>2. \A d : Told(log, d) => Told(log', d)
      BY <3>1, <2>lg, StillTold
    <3>3. cand[c] = "completed" => Told(log', c)
      BY <3>1, <2>lg, NowTold
    <3>4. CompletedIsBacked' /\ ~\E i \in DOMAIN log' : log'[i] = RunIs("completed")
      BY <3>1, <2>lg, <2>ci, StillBacked DEF BackedInv
    <3> QED
      BY <3>1, <3>2, <3>3, <3>4 DEF BackedInv
  <2>5. CASE SeedsDone
    <3>1. UNCHANGED <<result, incumbent, cand, writing>> /\ writing = {} /\ pc = "seeds" /\ result = {}
      BY <2>5 DEF SeedsDone, SeedsSettled, outcome, ResultInv
    <3>2. CASE pc' = "flush" /\ UNCHANGED log
      BY <3>1, <3>2, <2>kept
    <3>3. CASE pc' = "evaluate" /\ log' = Append(log, RunIs("evaluating"))
      <4>1. \A d : Told(log, d) => Told(log', d)
        BY <3>3, <2>lg, StillTold
      <4>2. CompletedIsBacked' /\ ~\E i \in DOMAIN log' : log'[i] = RunIs("completed")
        BY <3>1, <3>3, <2>lg, <2>ri, StillBacked DEF BackedInv
      <4> QED
        BY <3>1, <3>3, <4>1, <4>2 DEF BackedInv
    <3> QED
      BY <2>5, <3>2, <3>3 DEF SeedsDone
  <2>6. CASE Evaluate
    <3>1. ASSUME pc' \in {"judging", "catch"}, UNCHANGED <<incumbent, result>>
          PROVE  BackedInv'
      BY <2>6, <3>1, <2>kept DEF Evaluate, BackedInv, ResultInv
    <3> QED
      BY <2>6, <3>1, <2>won DEF Evaluate
  <2>7. CASE AskAgain
    BY <2>7, <2>kept DEF AskAgain, outcome, BackedInv
  <2>8. CASE Judged
    BY <2>8, <2>won DEF Judged
  <2>9. CASE CallThrows
    BY <2>9, <2>kept DEF CallThrows, outcome, BackedInv
  <2>10. CASE NextRound
    <3>1. pc = "refine" /\ Told(log, incumbent) /\ writing = {} /\ UNCHANGED <<log, writing, cand, incumbent>>
      BY <2>10 DEF NextRound, BackedInv
    <3>2. CASE pc' = "critique" /\ UNCHANGED result
      BY <3>1, <3>2, <2>kept
    <3>3. CASE Conclude(incumbent)
      BY <3>1, <3>3, <2>end
    <3> QED
      BY <2>10, <3>2, <3>3 DEF NextRound
  <2>11. CASE Critiqued
    <3>1. pc = "critique" /\ Told(log, incumbent) /\ writing = {} /\ UNCHANGED <<log, writing, incumbent>>
          /\ \A c \in Seeds : cand'[c] = cand[c]
      <4>1. Neighbours[round] \notin Seeds
        BY <2>11, <2>nn DEF Critiqued, PlaceInv
      <4> QED
        BY <2>11, <4>1 DEF Critiqued, BackedInv, TypeOK, Candidates
    <3>2. CASE pc' = "neighbour" /\ UNCHANGED result
      BY <3>1, <3>2, <2>kept
    <3>3. CASE Conclude(incumbent)
      BY <3>1, <3>3, <2>end
    <3> QED
      BY <2>11, <3>2, <3>3 DEF Critiqued
  <2>12. CASE NeighbourEnds
    <3>1. pc = "neighbour" /\ Told(log, incumbent) /\ writing = {} /\ UNCHANGED <<log, writing, incumbent>>
          /\ \A c \in Seeds : cand'[c] = cand[c]
      <4>1. Neighbours[round] \notin Seeds
        BY <2>12, <2>nn DEF NeighbourEnds, PlaceInv
      <4> QED
        BY <2>12, <4>1 DEF NeighbourEnds, BackedInv, TypeOK, Candidates
    <3>2. CASE pc' = "artifact" /\ UNCHANGED result
      BY <3>1, <3>2, <2>kept
    <3>3. CASE Conclude(incumbent)
      BY <3>1, <3>3, <2>end
    <3> QED
      BY <2>12, <3>2, <3>3 DEF NeighbourEnds
  <2>13. ASSUME NEW w \in {incumbent, Neighbours[round], None}, Compared(w), pc \in {"artifact", "comparing"}
         PROVE  BackedInv'
    <3> DEFINE n == Neighbours[round]
    <3>1. /\ log' = Append(log, CandidateIs(n, "completed")) /\ UNCHANGED <<cand, writing>> /\ writing = {}
          /\ result = {} /\ Told(log, incumbent)
      BY <2>13 DEF Compared, BackedInv, ResultInv
    <3>2. Told(log', n) /\ \A d : Told(log, d) => Told(log', d)
      BY <3>1, <2>lg, StillTold, NowTold
    <3>3. CompletedIsBacked' /\ ~\E i \in DOMAIN log' : log'[i] = RunIs("completed")
      <4>1. ~\E i \in DOMAIN log : log[i] = RunIs("completed")
        BY <2>13 DEF BackedInv
      <4> QED
        BY <4>1, <3>1, <2>lg, <2>ci, StillBacked DEF BackedInv
    <3>4. \/ pc' = "refine" /\ incumbent' = n
          \/ pc' \in {"flush", "recording"} /\ result' \subseteq {incumbent} /\ (pc' = "recording" => result' # {})
      BY <2>13, <3>1 DEF Compared, Conclude
    <3> QED
      BY <2>13, <3>1, <3>2, <3>3, <3>4 DEF BackedInv
  <2>14. CASE ArtifactWritten
    <3>1. ASSUME pc' \in {"catch", "comparing"}, UNCHANGED <<round, outcome, status, cand, writing, aborted, cancels, log>>
          PROVE  BackedInv'
      BY <2>14, <3>1, <2>kept DEF ArtifactWritten, outcome, BackedInv
    <3> QED
      BY <2>14, <3>1, <2>13 DEF ArtifactWritten
  <2>15. CASE ComparisonJudged
    BY <2>15, <2>13 DEF ComparisonJudged
  <2>16. CASE Recorded
    <3>1. /\ pc = "recording" /\ pc' = "flush" /\ log' = Append(log, RunIs("completed"))
          /\ UNCHANGED <<incumbent, result, cand, writing>> /\ result # {} /\ writing = {}
      BY <2>16 DEF Recorded, outcome, BackedInv
    <3>2. \A d : Told(log, d) => Told(log', d)
      BY <3>1, <2>lg, StillTold
    <3>3. \A w \in result \ {None} : \E j \in 1..Len(log) : log'[j] = CandidateIs(w, "completed")
      <4> SUFFICES ASSUME NEW w \in result \ {None}
                   PROVE  \E j \in 1..Len(log) : log'[j] = CandidateIs(w, "completed")
        OBVIOUS
      <4>1. PICK j \in DOMAIN log : log[j] = CandidateIs(w, "completed")
        BY <3>1 DEF BackedInv, Told
      <4>2. j \in 1..Len(log) /\ log'[j] = log[j]
        BY <3>1, <2>lg
      <4> QED
        BY <4>1, <4>2
    <3>4. \A i \in DOMAIN log' : log'[i] = RunIs("completed") => i = Len(log) + 1
      <4>1. \A i \in DOMAIN log : log[i] # RunIs("completed")
        BY <3>1 DEF BackedInv
      <4> QED
        BY <3>1, <2>lg, <4>1
    <3>5. CompletedIsBacked'
      BY <3>1, <3>3, <3>4, <2>lg DEF CompletedIsBacked
    <3> QED
      BY <3>1, <3>2, <3>5 DEF BackedInv
  <2>17. CASE Fail
    <3>1. /\ pc = "catch" /\ pc' = "flush" /\ log' = Append(log, RunIs("failed")) /\ result = {}
          /\ UNCHANGED <<incumbent, result, cand, writing>> /\ writing = {}
      BY <2>17 DEF Fail, outcome, BackedInv, ResultInv
    <3>2. \A d : Told(log, d) => Told(log', d)
      BY <3>1, <2>lg, StillTold
    <3>3. CompletedIsBacked'
      BY <3>1, <2>lg, <2>ri, StillBacked DEF BackedInv
    <3> QED
      BY <3>1, <3>2, <3>3 DEF BackedInv
  <2>18. CASE Flushed
    BY <2>18, <2>kept DEF Flushed, outcome, BackedInv
  <2>19. CASE Cancel
    <3>1. log' = Append(log, RunIs("cancelled")) /\ UNCHANGED <<pc, incumbent, result, cand, writing>>
      BY <2>19 DEF Cancel, place, outcome
    <3>2. \A d : Told(log, d) => Told(log', d)
      BY <3>1, <2>lg, StillTold
    <3>3. /\ CompletedIsBacked'
          /\ (\E i \in DOMAIN log' : log'[i] = RunIs("completed")) =>
                 \E i \in DOMAIN log : log[i] = RunIs("completed")
      <4>1. RunIs("cancelled") # RunIs("completed")
        BY <2>ri
      <4> QED
        BY <3>1, <4>1, <2>lg, StillBacked DEF BackedInv
    <3> QED
      BY <3>1, <3>2, <3>3 DEF BackedInv
  <2>20. CASE Restart
    BY <2>20 DEF Restart, BackedInv, CompletedIsBacked
  <2>21. CASE UNCHANGED vars
    BY <2>21, <2>kept DEF vars, place, outcome, BackedInv
  <2> QED
    BY <2>1, <2>2, <2>3, <2>4, <2>5, <2>6, <2>7, <2>8, <2>9, <2>10, <2>11, <2>12, <2>14, <2>15,
       <2>16, <2>17, <2>18, <2>19, <2>20, <2>21 DEF Next, Progress
<1> QED
  BY <1>1, <1>2, TypeInv, ResultCorrect, PTL DEF Spec

(* A run published as completed has its result stored, and a winner that   *)
(* was published as completed before.                                      *)
THEOREM CompletedBacked == Spec => []CompletedIsBacked
<1>1. BackedInv => CompletedIsBacked
  BY DEF BackedInv
<1> QED
  BY <1>1, BackedCorrect, PTL
-----------------------------------------------------------------------------
(* A seed has no event as long as its call or its draft is under way, and  *)
(* then exactly one, with the status the store has.                        *)
Open(c) == pc = "new" \/ c \in calls \/ c \in writing

SeedInv ==
  /\ pc = "new" => log = <<>> /\ calls = {} /\ writing = {}
  /\ pc = "seeds" => calls \subseteq Seeds
  /\ pc # "orphan" => \A c \in Seeds :
       /\ c \in writing => c \notin calls
       /\ Open(c) => \A j \in DOMAIN log : log[j].of # c
       /\ ~Open(c) => \E j \in DOMAIN log : log[j].of = c
       /\ \A j, k \in DOMAIN log : log[j].of = c /\ log[k].of = c => j = k
       /\ \A j \in DOMAIN log : log[j].of = c => log[j].status = cand[c]
       /\ pc # "new" /\ c \notin calls => cand[c] # "running"
  /\ pc \in {"new", "seeds"} => \A i \in DOMAIN log : log[i] # RunIs("evaluating")
  /\ SettledBeforeJudged

(* The invariant of the seeds' events holds in every reachable state.      *)
THEOREM SeedsCorrect == Spec => []SeedInv
<1>1. Init => SeedInv
  BY DEF Init, SeedInv, SettledBeforeJudged, Open
<1>2. TypeOK /\ PlaceInv /\ SeedInv /\ [Next]_vars => SeedInv'
  <2> SUFFICES ASSUME TypeOK, PlaceInv, SeedInv, [Next]_vars
               PROVE  SeedInv'
    OBVIOUS
  <2>lg. log \in Seq(Event)
    BY DEF TypeOK
  <2>sc. Seeds \subseteq Candidates /\ None \notin Seeds
    BY RunAssumption DEF Candidates
  <2>ri. \A x : RunIs(x).of \notin Seeds /\ (RunIs(x) = RunIs("evaluating") => x = "evaluating")
    BY <2>sc DEF RunIs
  <2>ci. \A c, x : CandidateIs(c, x).of = c /\ CandidateIs(c, x).status = x /\ CandidateIs(c, x) # RunIs("evaluating")
    BY DEF CandidateIs, RunIs
  <2>nn. \A r \in 1..Rounds : Neighbours[r] \notin Seeds
    BY RunAssumption
  \* Past the seeds: what is published concerns no seed and is not "evaluating".
  <2>past. ASSUME pc \notin {"new", "seeds"}, pc' \notin {"new", "seeds"}, pc' # "orphan" => pc # "orphan",
                  \A c \in Seeds : cand'[c] = cand[c],
                  calls' \cap Seeds = {}, writing' = {},
                  \/ UNCHANGED log
                  \/ \E e : e.of \notin Seeds /\ e # RunIs("evaluating") /\ log' = Append(log, e)
           PROVE  SeedInv'
    <3>1. calls \cap Seeds = {} /\ writing = {}
      BY <2>past DEF PlaceInv
    <3>2. CASE UNCHANGED log
      BY <2>past, <3>1, <3>2 DEF SeedInv, SettledBeforeJudged, Open
    <3>3. ASSUME NEW e, e.of \notin Seeds, e # RunIs("evaluating"), log' = Append(log, e)
          PROVE  SeedInv'
      <4>1. /\ \A j \in DOMAIN log : j \in DOMAIN log' /\ log'[j] = log[j]
            /\ \A j \in DOMAIN log' : j \in DOMAIN log \/ log'[j] = e
        BY <3>3, <2>lg
      <4>2. \A j \in DOMAIN log', c \in Seeds : log'[j].of = c => j \in DOMAIN log /\ log[j].of = c
        BY <4>1, <3>3
      <4>3. \A j \in DOMAIN log' : log'[j] = RunIs("evaluating") => j \in DOMAIN log /\ log[j] = RunIs("evaluating")
        BY <4>1, <3>3
      <4>4. SettledBeforeJudged'
        <5> SUFFICES ASSUME NEW i \in DOMAIN log', log'[i] = RunIs("evaluating"), NEW c \in Seeds
                     PROVE  /\ cand'[c] # "running"
                            /\ {j \in DOMAIN log' : log'[j].of = c} # {}
                            /\ \A j, k \in DOMAIN log' : log'[j].of = c /\ log'[k].of = c => j = k
                            /\ \A j \in DOMAIN log' : log'[j].of = c => j < i /\ log'[j].status = cand'[c]
          BY DEF SettledBeforeJudged
        <5>1. i \in DOMAIN log /\ log[i] = RunIs("evaluating")
          BY <4>3
        <5>2. /\ cand[c] # "running"
              /\ \E j \in DOMAIN log : log[j].of = c
              /\ \A j, k \in DOMAIN log : log[j].of = c /\ log[k].of = c => j = k
              /\ \A j \in DOMAIN log : log[j].of = c => j < i /\ log[j].status = cand[c]
          BY <5>1 DEF SeedInv, SettledBeforeJudged
        <5> QED
          BY <5>2, <4>1, <4>2, <2>past
      <4>5. pc' # "orphan" => \A c \in Seeds :
               /\ ~Open(c)' /\ c \notin writing' /\ cand'[c] # "running"
               /\ \E j \in DOMAIN log' : log'[j].of = c
               /\ \A j, k \in DOMAIN log' : log'[j].of = c /\ log'[k].of = c => j = k
               /\ \A j \in DOMAIN log' : log'[j].of = c => log'[j].status = cand'[c]
        <5> SUFFICES ASSUME pc' # "orphan", NEW c \in Seeds
                     PROVE  /\ ~Open(c)' /\ c \notin writing' /\ cand'[c] # "running"
                            /\ \E j \in DOMAIN log' : log'[j].of = c
                            /\ \A j, k \in DOMAIN log' : log'[j].of = c /\ log'[k].of = c => j = k
                            /\ \A j \in DOMAIN log' : log'[j].of = c => log'[j].status = cand'[c]
          OBVIOUS
        <5>1. ~Open(c) /\ ~Open(c)' /\ c \notin writing'
          BY <2>past, <3>1 DEF Open
        <5>2. /\ cand[c] # "running"
              /\ \E j \in DOMAIN log : log[j].of = c
              /\ \A j, k \in DOMAIN log : log[j].of = c /\ log[k].of = c => j = k
              /\ \A j \in DOMAIN log : log[j].of = c => log[j].status = cand[c]
          BY <5>1, <2>past, <3>1 DEF SeedInv
        <5> QED
          BY <5>1, <5>2, <4>1, <4>2, <2>past
      <4> QED
        BY <4>4, <4>5, <2>past DEF SeedInv
    <3> QED
      BY <2>past, <3>2, <3>3
  <2>1. CASE Create
    <3>1. /\ pc' = "seeds" /\ log' = <<RunIs("queued"), RunIs("running")>> /\ calls' = Seeds /\ writing' = {}
      BY <2>1 DEF Create, SeedInv
    <3>2. \A j \in DOMAIN log' : log'[j].of \notin Seeds /\ log'[j] # RunIs("evaluating")
      BY <3>1, <2>ri
    <3> QED
      BY <3>1, <3>2 DEF SeedInv, SettledBeforeJudged, Open
  <2>2. ASSUME NEW c \in Seeds, AnswerSeed(c)
        PROVE  SeedInv'
    <3>1. PICK x \in {"completed", "failed"} : cand' = [cand EXCEPT ![c] = x]
      BY <2>2 DEF AnswerSeed
    <3>2. /\ pc = "seeds" /\ UNCHANGED <<pc, log>> /\ c \in calls /\ calls' = calls \ {c} /\ writing' = writing \cup {c}
      BY <2>2 DEF AnswerSeed, place, PlaceInv, SeedInv
    <3>3. /\ cand'[c] = x /\ \A d \in Seeds \ {c} : cand'[d] = cand[d]
      BY <3>1, <2>sc DEF TypeOK
    <3>4. SettledBeforeJudged'
      BY <3>2 DEF SettledBeforeJudged, SeedInv
    <3> QED
      BY <3>2, <3>3, <3>4 DEF SeedInv, Open
  <2>3. ASSUME NEW c \in Seeds, NEW x \in {"none", "completed", "failed", "excluded"},
               log' = Append(log, CandidateIs(c, x)), cand' = [cand EXCEPT ![c] = x],
               pc = "seeds", UNCHANGED pc, calls' = calls \ {c}, writing' = writing \ {c}, c \in calls \cup writing
        PROVE  SeedInv'
    <3> DEFINE n == Len(log) + 1
    <3>1. /\ \A j \in DOMAIN log : j \in DOMAIN log' /\ log'[j] = log[j] /\ j # n
          /\ \A j \in DOMAIN log' : j \in DOMAIN log \/ j = n
          /\ n \in DOMAIN log' /\ log'[n].of = c /\ log'[n].status = x /\ log'[n] # RunIs("evaluating")
      BY <2>3, <2>lg, <2>ci
    <3>2. cand'[c] = x /\ \A d \in Seeds \ {c} : cand'[d] = cand[d]
      BY <2>3, <2>sc DEF TypeOK
    <3>3. \A j \in DOMAIN log : log[j].of # c /\ log[j] # RunIs("evaluating")
      BY <2>3 DEF SeedInv, Open
    <3>4. SettledBeforeJudged'
      BY <3>1, <3>3 DEF SettledBeforeJudged
    <3>5. \A d \in Seeds :
             /\ d \in writing' => d \notin calls'
             /\ Open(d)' => \A j \in DOMAIN log' : log'[j].of # d
             /\ ~Open(d)' => \E j \in DOMAIN log' : log'[j].of = d
             /\ \A j, k \in DOMAIN log' : log'[j].of = d /\ log'[k].of = d => j = k
             /\ \A j \in DOMAIN log' : log'[j].of = d => log'[j].status = cand'[d]
             /\ d \notin calls' => cand'[d] # "running"
      <4> SUFFICES ASSUME NEW d \in Seeds
                   PROVE  /\ d \in writing' => d \notin calls'
                          /\ Open(d)' => \A j \in DOMAIN log' : log'[j].of # d
                          /\ ~Open(d)' => \E j \in DOMAIN log' : log'[j].of = d
                          /\ \A j, k \in DOMAIN log' : log'[j].of = d /\ log'[k].of = d => j = k
                          /\ \A j \in DOMAIN log' : log'[j].of = d => log'[j].status = cand'[d]
                          /\ d \notin calls' => cand'[d] # "running"
        OBVIOUS
      <4>1. CASE d = c
        <5>1. ~Open(d)' /\ d \notin calls' /\ d \notin writing'
          BY <4>1, <2>3 DEF Open
        <5> QED
          BY <4>1, <5>1, <3>1, <3>2, <3>3
      <4>2. CASE d # c
        <5>1. (Open(d)' <=> Open(d)) /\ (d \in calls' <=> d \in calls) /\ (d \in writing' <=> d \in writing)
          BY <4>2, <2>3 DEF Open
        <5>2. /\ d \in writing => d \notin calls
              /\ Open(d) => \A j \in DOMAIN log : log[j].of # d
              /\ ~Open(d) => \E j \in DOMAIN log : log[j].of = d
              /\ \A j, k \in DOMAIN log : log[j].of = d /\ log[k].of = d => j = k
              /\ \A j \in DOMAIN log : log[j].of = d => log[j].status = cand[d]
              /\ d \notin calls => cand[d] # "running"
          BY <2>3 DEF SeedInv
        <5>3. \A j \in DOMAIN log' : log'[j].of = d => j \in DOMAIN log /\ log[j] = log'[j]
          BY <3>1, <4>2
        <5> QED
          BY <4>2, <5>1, <5>2, <5>3, <3>1, <3>2
      <4> QED
        BY <4>1, <4>2
    <3>6. \A i \in DOMAIN log' : log'[i] # RunIs("evaluating")
      BY <3>1, <3>3
    <3> QED
      BY <2>3, <3>4, <3>5, <3>6 DEF SeedInv
  <2>4. ASSUME NEW c \in Seeds, FailSeed(c)
        PROVE  SeedInv'
    <3>1. PICK x \in {"failed", "excluded"} : cand' = [cand EXCEPT ![c] = x] /\ log' = Append(log, CandidateIs(c, x))
      BY <2>4 DEF FailSeed
    <3>2. pc = "seeds" /\ UNCHANGED pc /\ calls' = calls \ {c} /\ c \in calls /\ writing' = writing /\ c \notin writing
      BY <2>4 DEF FailSeed, place, PlaceInv, SeedInv
    <3> QED
      BY <2>3, <3>1, <3>2
  <2>5. ASSUME NEW c \in Seeds, WriteSeed(c)
        PROVE  SeedInv'
    <3>1. /\ pc = "seeds" /\ UNCHANGED <<pc, cand, calls>> /\ writing' = writing \ {c} /\ c \in writing /\ c \notin calls
          /\ log' = Append(log, CandidateIs(c, cand[c]))
      BY <2>5 DEF WriteSeed, place, PlaceInv, SeedInv
    <3>2. cand' = [cand EXCEPT ![c] = cand[c]] /\ calls' = calls \ {c}
      BY <3>1, <2>sc DEF TypeOK
    <3>3. cand[c] \in {"none", "completed", "failed", "excluded"}
      BY <3>1, <2>sc DEF TypeOK, SeedInv, CandidateStatuses
    <3> QED
      BY <2>3, <3>1, <3>2, <3>3
  <2>6. CASE SeedsDone
    <3>1. /\ pc = "seeds" /\ UNCHANGED <<cand, calls, writing>> /\ calls = {} /\ writing = {}
      BY <2>6 DEF SeedsDone, SeedsSettled
    <3>2. \A c \in Seeds :
             /\ cand[c] # "running"
             /\ \E j \in DOMAIN log : log[j].of = c
             /\ \A j, k \in DOMAIN log : log[j].of = c /\ log[k].of = c => j = k
             /\ \A j \in DOMAIN log : log[j].of = c => log[j].status = cand[c]
      BY <3>1 DEF SeedInv, Open
    <3>3. CASE pc' = "flush" /\ UNCHANGED log
      BY <3>1, <3>2, <3>3 DEF SeedInv, SettledBeforeJudged, Open
    <3>4. CASE pc' = "evaluate" /\ log' = Append(log, RunIs("evaluating"))
      <4> DEFINE n == Len(log) + 1
      <4>1. /\ \A j \in DOMAIN log : j \in DOMAIN log' /\ log'[j] = log[j] /\ j < n
            /\ \A j \in DOMAIN log' : j \in DOMAIN log \/ j = n
            /\ log'[n].of \notin Seeds
        BY <3>4, <2>lg, <2>ri
      <4>2. \A j \in DOMAIN log', c \in Seeds : log'[j].of = c => j \in DOMAIN log /\ log[j].of = c /\ log'[j] = log[j]
        BY <4>1
      <4>3. \A i \in DOMAIN log' : log'[i] = RunIs("evaluating") => i = n
        BY <4>1, <3>1 DEF SeedInv
      <4>4. \A c \in Seeds :
             /\ cand'[c] # "running"
             /\ \E j \in DOMAIN log' : log'[j].of = c
             /\ \A j, k \in DOMAIN log' : log'[j].of = c /\ log'[k].of = c => j = k
             /\ \A j \in DOMAIN log' : log'[j].of = c => j < n /\ log'[j].status = cand'[c]
        BY <3>1, <3>2, <4>1, <4>2
      <4>5. SettledBeforeJudged'
        BY <4>3, <4>4 DEF SettledBeforeJudged
      <4> QED
        BY <3>1, <3>4, <4>4, <4>5 DEF SeedInv, Open
    <3> QED
      BY <2>6, <3>3, <3>4 DEF SeedsDone
  <2>cc. \A w : Conclude(w) => pc' \in {"flush", "recording"}
    BY DEF Conclude
  <2>te. \A w : TournamentEnds(w) => calls' = {} /\ pc' \in {"refine", "flush", "recording"}
    BY <2>cc DEF TournamentEnds
  <2>7. CASE Evaluate
    <3>1. pc = "evaluate" /\ UNCHANGED <<cand, writing, log>>
      BY <2>7 DEF Evaluate
    <3>2. calls' \in {{}, {"judge"}, calls} /\ pc' \in {"refine", "flush", "recording", "judging", "catch"}
      BY <2>7, <2>te DEF Evaluate
    <3> QED
      BY <3>1, <3>2, <2>past, RunAssumption DEF PlaceInv
  <2>8. CASE AskAgain \/ CallThrows
    BY <2>8, <2>past DEF AskAgain, CallThrows, PlaceInv
  <2>9. CASE Judged
    BY <2>9, <2>past, <2>te DEF Judged, PlaceInv
  <2>10. CASE NextRound
    BY <2>10, <2>past, <2>cc, RunAssumption DEF NextRound, PlaceInv
  <2>11. CASE Critiqued
    <3>1. \A c \in Seeds : cand'[c] = cand[c]
      BY <2>11, <2>nn, <2>sc DEF Critiqued, PlaceInv, TypeOK, Refining
    <3> QED
      BY <2>11, <3>1, <2>past, <2>cc, RunAssumption DEF Critiqued, PlaceInv
  <2>12. CASE NeighbourEnds
    <3>1. \A c \in Seeds : cand'[c] = cand[c]
      BY <2>12, <2>nn, <2>sc DEF NeighbourEnds, PlaceInv, TypeOK, Refining
    <3> QED
      BY <2>12, <3>1, <2>past, <2>cc DEF NeighbourEnds, PlaceInv
  <2>13. ASSUME NEW w, Compared(w), pc \in {"artifact", "comparing"}
         PROVE  SeedInv'
    <3>1. Neighbours[round] \notin Seeds
      BY <2>13, <2>nn DEF PlaceInv, Refining
    <3>2. /\ log' = Append(log, CandidateIs(Neighbours[round], "completed")) /\ calls' = {}
          /\ UNCHANGED <<cand, writing>> /\ pc' \in {"refine", "flush", "recording"} /\ writing = {}
      BY <2>13, <2>cc DEF Compared, PlaceInv
    <3> QED
      BY <2>13, <3>1, <3>2, <2>ci, <2>past
  <2>14. CASE ArtifactWritten
    <3>1. ASSUME pc' \in {"catch", "comparing"}, calls' \in {calls, {"judge"}}, UNCHANGED <<cand, writing, log>>
          PROVE  SeedInv'
      BY <2>14, <3>1, <2>past, RunAssumption DEF ArtifactWritten, PlaceInv
    <3> QED
      BY <2>14, <3>1, <2>13 DEF ArtifactWritten
  <2>15. CASE ComparisonJudged
    BY <2>15, <2>13 DEF ComparisonJudged
  <2>16. CASE Recorded
    <3>1. log' = Append(log, RunIs("completed")) /\ RunIs("completed").of \notin Seeds /\ RunIs("completed") # RunIs("evaluating")
      BY <2>16, <2>ri DEF Recorded
    <3> QED
      BY <2>16, <3>1, <2>past DEF Recorded, PlaceInv
  <2>17. CASE Fail
    <3>1. log' = Append(log, RunIs("failed")) /\ RunIs("failed").of \notin Seeds /\ RunIs("failed") # RunIs("evaluating")
      BY <2>17, <2>ri DEF Fail
    <3> QED
      BY <2>17, <3>1, <2>past DEF Fail, PlaceInv
  <2>18. CASE Flushed
    BY <2>18, <2>past DEF Flushed, PlaceInv
  <2>19. CASE Cancel
    <3>1. /\ log' = Append(log, RunIs("cancelled")) /\ RunIs("cancelled").of \notin Seeds
          /\ RunIs("cancelled") # RunIs("evaluating") /\ UNCHANGED <<pc, cand, calls, writing>> /\ pc # "new"
      BY <2>19, <2>ri DEF Cancel, place
    <3>2. CASE pc # "seeds"
      BY <3>1, <3>2, <2>past DEF PlaceInv
    <3>3. CASE pc = "seeds"
      <4>1. /\ \A j \in DOMAIN log : j \in DOMAIN log' /\ log'[j] = log[j]
            /\ \A j \in DOMAIN log' : j \in DOMAIN log \/ log'[j] = RunIs("cancelled")
        BY <3>1, <2>lg
      <4>2. \A j \in DOMAIN log', c \in Seeds : log'[j].of = c => j \in DOMAIN log /\ log[j].of = c /\ log'[j] = log[j]
        BY <4>1, <3>1
      <4>3. \A i \in DOMAIN log' : log'[i] # RunIs("evaluating")
        BY <4>1, <3>1, <3>3 DEF SeedInv
      <4>4. \A c \in Seeds :
             /\ c \in writing' => c \notin calls'
             /\ Open(c)' => \A j \in DOMAIN log' : log'[j].of # c
             /\ ~Open(c)' => \E j \in DOMAIN log' : log'[j].of = c
             /\ \A j, k \in DOMAIN log' : log'[j].of = c /\ log'[k].of = c => j = k
             /\ \A j \in DOMAIN log' : log'[j].of = c => log'[j].status = cand'[c]
             /\ c \notin calls' => cand'[c] # "running"
        BY <3>1, <3>3, <4>1, <4>2 DEF SeedInv, Open
      <4> QED
        BY <3>1, <3>3, <4>3, <4>4 DEF SeedInv, SettledBeforeJudged
    <3> QED
      BY <3>2, <3>3
  <2>20. CASE Restart
    BY <2>20 DEF Restart, SeedInv, SettledBeforeJudged
  <2>21. CASE UNCHANGED vars
    BY <2>21 DEF vars, place, outcome, SeedInv, SettledBeforeJudged, Open
  <2> QED
    BY <2>1, <2>2, <2>4, <2>5, <2>6, <2>7, <2>8, <2>9, <2>10, <2>11, <2>12, <2>14, <2>15,
       <2>16, <2>17, <2>18, <2>19, <2>20, <2>21 DEF Next, Progress
<1> QED
  BY <1>1, <1>2, TypeInv, PTL DEF Spec

(* When "evaluating" is published every seed has published exactly one     *)
(* final status, the one the store holds.                                  *)
THEOREM JudgedAfterSettled == Spec => []SettledBeforeJudged
<1>1. SeedInv => SettledBeforeJudged
  BY DEF SeedInv
<1> QED
  BY <1>1, SeedsCorrect, PTL

-----------------------------------------------------------------------------
(* The event stream.                                                       *)

(* An open stream carries, in order, what follows the last event the       *)
(* client received, and its listener is registered while the log is open.  *)
StreamInv ==
  /\ NoGapNoDuplicate
  /\ live => /\ Len(inbox) + Len(wire[opened]) <= Len(events)
             /\ \A k \in DOMAIN wire[opened] : wire[opened][k] = Len(inbox) + k
             /\ closed \/ opened \in ended \/ opened \in listeners
  /\ NothingSkipped

StreamTyped == StreamTypeOK /\ (live => opened \in Connections)

-----------------------------------------------------------------------------
(* Every reachable state is well typed: no listener of a connection never  *)
(* opened, and none on a closed log.                                       *)
THEOREM StreamIsTyped == StreamSpec => []StreamTyped
<1>1. StreamInit => StreamTyped
  <2> SUFFICES ASSUME StreamInit PROVE StreamTyped
    OBVIOUS
  <2>1. wire \in [Connections -> Seq(Nat)] /\ events \in Seq(Kinds) /\ inbox \in Seq(Nat)
    BY DEF StreamInit
  <2> QED
    <3>1. listeners \subseteq 1..opened /\ ended \subseteq 1..opened /\ (closed => listeners = {})
      BY DEF StreamInit
    <3>2. opened \in 0..MaxConnections /\ live = FALSE /\ closed = FALSE
      BY StreamAssumption DEF StreamInit
    <3> QED
      BY <2>1, <3>1, <3>2 DEF StreamTyped, StreamTypeOK
<1>2. StreamTyped /\ [StreamNext]_streamVars => StreamTyped'
  <2> SUFFICES ASSUME StreamTyped, [StreamNext]_streamVars PROVE StreamTyped'
    OBVIOUS
  <2> USE StreamAssumption DEF StreamTyped, StreamTypeOK
  <2>1. ASSUME NEW kind \in Kinds, Publish(kind) PROVE StreamTyped'
    <3>1. Len(events) + 1 \in Nat /\ events' \in Seq(Kinds) /\ closed' = closed /\ closed = FALSE
          /\ UNCHANGED <<listeners, opened, live, inbox>>
      BY <2>1 DEF Publish
    <3>2. wire' \in [Connections -> Seq(Nat)]
      BY <2>1, <3>1 DEF Publish
    <3>3. ended' \subseteq 1..opened
      BY <2>1 DEF Publish
    <3> QED
      BY <3>1, <3>2, <3>3
  <2>2. CASE Connect
    <3>1. opened + 1 \in Connections /\ opened' = opened + 1 /\ UNCHANGED <<events, closed, inbox>> /\ live' = TRUE
      BY <2>2 DEF Connect, Connections, logVars
    <3>2. PICK to \in Len(inbox)..Len(events) :
            /\ wire' = [wire EXCEPT ![opened + 1] = [k \in 1..(to - Len(inbox)) |-> Len(inbox) + k]]
            /\ ended' \subseteq ended \cup {opened + 1}
      BY <2>2 DEF Connect, LastEventId
    <3>3. [k \in 1..(to - Len(inbox)) |-> Len(inbox) + k] \in Seq(Nat)
      <4>1. Len(inbox) \in Nat /\ to - Len(inbox) \in Nat
        BY <3>2
      <4> QED
        BY <4>1
    <3>4. wire' \in [Connections -> Seq(Nat)]
      BY <3>1, <3>2, <3>3
    <3>5. listeners' \subseteq 1..(opened + 1) /\ (closed => listeners' = {})
      BY <2>2 DEF Connect, Register
    <3>6. ended' \subseteq 1..(opened + 1)
      BY <3>2
    <3> QED
      BY <3>1, <3>4, <3>5, <3>6 DEF Connections
  <2>3. CASE Receive
    <3>1. wire[opened] \in Seq(Nat) /\ wire[opened] # <<>> /\ opened \in Connections
      BY <2>3 DEF Receive
    <3>2. Head(wire[opened]) \in Nat /\ Tail(wire[opened]) \in Seq(Nat)
      BY <3>1
    <3>3. inbox' \in Seq(Nat) /\ wire' \in [Connections -> Seq(Nat)]
      BY <2>3, <3>2 DEF Receive
    <3> QED
      BY <2>3, <3>3 DEF Receive, logVars
  <2>4. CASE ReadEnd
    BY <2>4 DEF ReadEnd, logVars
  <2>5. CASE Drop
    <3>1. wire' \in [Connections -> Seq(Nat)]
      BY <2>5 DEF Drop
    <3> QED
      BY <2>5, <3>1 DEF Drop, logVars
  <2>6. CASE Shutdown
    BY <2>6 DEF Shutdown
  <2>7. ASSUME NEW c \in Connections, Close(c) PROVE StreamTyped'
    BY <2>7 DEF Close, logVars
  <2>8. CASE UNCHANGED streamVars
    BY <2>8 DEF streamVars, logVars
  <2> QED
    BY <2>1, <2>2, <2>3, <2>4, <2>5, <2>6, <2>7, <2>8 DEF StreamNext
<1> QED
  BY <1>1, <1>2, PTL DEF StreamSpec

\* The type invariant alone.
THEOREM StreamTypeCorrect == StreamSpec => []StreamTypeOK
<1>1. StreamTyped => StreamTypeOK
  BY DEF StreamTyped
<1> QED
  BY <1>1, StreamIsTyped, PTL
-----------------------------------------------------------------------------
(* The invariant of an open stream holds in every reachable state.         *)
THEOREM StreamCorrect == StreamSpec => []StreamInv
<1>1. StreamInit => StreamInv
  BY DEF StreamInit, StreamInv, NoGapNoDuplicate, NothingSkipped
<1>2. StreamTyped /\ StreamInv /\ [StreamNext]_streamVars => StreamInv'
  <2> SUFFICES ASSUME StreamTyped, StreamInv, [StreamNext]_streamVars PROVE StreamInv'
    OBVIOUS
  <2> DEFINE here == wire[opened]
  <2>ty. /\ Len(inbox) \in Nat /\ Len(events) \in Nat /\ inbox \in Seq(Nat) /\ events \in Seq(Kinds)
         /\ live => here \in Seq(Nat) /\ Len(here) \in Nat /\ opened \in Connections
    BY DEF StreamTyped, StreamTypeOK
  <2>off. ASSUME UNCHANGED inbox, Len(inbox) <= Len(events'), live' = FALSE PROVE StreamInv'
    BY <2>off DEF StreamInv, NoGapNoDuplicate, NothingSkipped
  <2>same. ASSUME UNCHANGED <<inbox, wire, opened, live, ended, events, closed>>,
                  live /\ ~closed => (opened \in listeners => opened \in listeners')
           PROVE  StreamInv'
    BY <2>same DEF StreamInv, NoGapNoDuplicate, NothingSkipped
  <2>1. ASSUME NEW kind \in Kinds, Publish(kind) PROVE StreamInv'
    <3>1. /\ events' = Append(events, kind) /\ Len(events') = Len(events) + 1 /\ events'[Len(events) + 1] = kind
          /\ UNCHANGED <<closed, listeners, opened, live, inbox>> /\ ~closed
          /\ \A i \in 1..Len(events) : events'[i] = events[i]
      BY <2>1, <2>ty DEF Publish
    <3>2. NoGapNoDuplicate'
      BY <3>1, <2>ty DEF StreamInv, NoGapNoDuplicate
    <3>3. CASE ~live
      BY <3>1, <3>2, <3>3 DEF StreamInv, NothingSkipped
    <3>4. CASE live /\ opened \in ended
      <4>1. wire'[opened] = here /\ opened \in ended'
        BY <2>1, <3>4, <2>ty DEF Publish
      <4> QED
        BY <4>1, <3>1, <3>2, <3>4, <2>ty DEF StreamInv, NothingSkipped
    <3>5. CASE live /\ opened \notin ended
      <4>1. opened \in listeners /\ Len(inbox) + Len(here) = Len(events)
        BY <3>5, <3>1 DEF StreamInv, NothingSkipped
      <4>2. wire'[opened] = Append(here, Len(events) + 1) /\ (opened \in ended' <=> kind = "end")
        BY <2>1, <3>5, <4>1, <2>ty DEF Publish
      <4>3. Len(wire'[opened]) = Len(here) + 1
            /\ \A k \in DOMAIN wire'[opened] : wire'[opened][k] = Len(inbox) + k
        BY <4>1, <4>2, <3>5, <2>ty DEF StreamInv
      <4>4. Len(inbox') + Len(wire'[opened']) = Len(events')
        BY <4>1, <4>3, <3>1, <3>5, <2>ty
      <4>5. NothingSkipped'
        BY <4>4, <4>2, <3>1, <3>5, <2>ty DEF NothingSkipped
      <4> QED
        BY <4>1, <4>3, <4>4, <4>5, <3>1, <3>2, <3>5, <2>ty DEF StreamInv
    <3> QED
      BY <3>3, <3>4, <3>5
  <2>2. CASE Connect
    <3> DEFINE c == opened + 1
               from == Len(inbox)
    <3>1. /\ c \in Connections /\ opened' = c /\ live' = TRUE /\ UNCHANGED <<events, closed, inbox>>
          /\ c \notin ended /\ from <= Len(events)
      <4>1. opened \in Nat /\ ended \subseteq 1..opened
        BY StreamAssumption DEF StreamTyped, StreamTypeOK
      <4>2. c \notin ended /\ c \in Connections
        BY <4>1, <2>2, StreamAssumption DEF Connect, Connections
      <4>3. from <= Len(events)
        BY DEF StreamInv, NoGapNoDuplicate
      <4> QED
        BY <4>2, <4>3, <2>2 DEF Connect, logVars
    <3>2. PICK to \in from..Len(events) :
            /\ ReplayedUpTo(from, to)
            /\ wire' = [wire EXCEPT ![c] = [k \in 1..(to - from) |-> from + k]]
            /\ ended' = IF to > from /\ events[to] = "end" THEN ended \cup {c} ELSE ended
      BY <2>2 DEF Connect, LastEventId
    <3>3. wire'[c] = [k \in 1..(to - from) |-> from + k]
      BY <3>1, <3>2 DEF StreamTyped, StreamTypeOK
    <3>4. Len(wire'[c]) = to - from /\ \A k \in DOMAIN wire'[c] : wire'[c][k] = from + k
      <4>1. to - from \in Nat
        BY <3>2, <2>ty
      <4> QED
        BY <3>3, <4>1
    <3>5. closed \/ c \in listeners'
      BY <2>2 DEF Connect, Register
    <3>6. \/ to = Len(events) /\ c \notin ended'
          \/ to > 0 /\ events[to] = "end" /\ c \in ended'
      BY <3>1, <3>2, <2>ty DEF ReplayedUpTo
    <3>7. NoGapNoDuplicate'
      BY <3>1 DEF StreamInv, NoGapNoDuplicate
    <3>8. from + Len(wire'[c]) = to
      BY <3>4, <3>2, <2>ty
    <3>9. NothingSkipped'
      BY <3>1, <3>6, <3>8 DEF NothingSkipped
    <3>10. to <= Len(events)
      BY <3>2, <2>ty
    <3> QED
      BY <3>1, <3>4, <3>5, <3>7, <3>8, <3>9, <3>10 DEF StreamInv
  <2>3. CASE Receive
    <3>1. /\ live /\ here # <<>> /\ inbox' = Append(inbox, Head(here)) /\ wire'[opened] = Tail(here)
          /\ UNCHANGED <<events, closed, listeners, ended, opened, live>>
      BY <2>3, <2>ty DEF Receive, logVars, StreamTyped, StreamTypeOK
    <3>2. /\ Len(here) > 0 /\ Head(here) = Len(inbox) + 1
          /\ Len(inbox') = Len(inbox) + 1 /\ Len(wire'[opened]) = Len(here) - 1
      BY <3>1, <2>ty DEF StreamInv
    <3>3. \A k \in DOMAIN wire'[opened] : wire'[opened][k] = Len(inbox') + k
      <4> SUFFICES ASSUME NEW k \in 1..(Len(here) - 1)
                   PROVE  Tail(here)[k] = Len(inbox) + 1 + k
        <5>1. DOMAIN Tail(here) = 1..(Len(here) - 1)
          BY <3>1, <2>ty
        <5> QED
          BY <5>1, <3>1, <3>2
      <4>1. Tail(here)[k] = here[k + 1] /\ k + 1 \in DOMAIN here
        BY <3>1, <3>2, <2>ty
      <4> QED
        BY <4>1, <3>1, <2>ty DEF StreamInv
    <3>4. NoGapNoDuplicate'
      <4>1. Len(inbox) + 1 <= Len(events)
        BY <3>1, <3>2, <2>ty DEF StreamInv
      <4>2. \A i \in DOMAIN inbox' : inbox'[i] = i
        BY <3>1, <3>2, <2>ty DEF StreamInv, NoGapNoDuplicate
      <4> QED
        BY <4>1, <4>2, <3>1, <3>2 DEF NoGapNoDuplicate
    <3>5. Len(inbox') + Len(wire'[opened']) = Len(inbox) + Len(here)
      <4> DEFINE m == Len(inbox)
                 n == Len(here)
      <4>1. m \in Nat /\ n \in Nat
        BY <3>1, <2>ty
      <4>2. Len(inbox') = m + 1 /\ Len(wire'[opened']) = n - 1
        BY <3>1, <3>2
      <4> HIDE DEF m, n
      <4>3. Len(inbox') + Len(wire'[opened']) = m + n
        BY <4>1, <4>2
      <4> QED
        BY <4>3 DEF m, n
    <3>6. NothingSkipped'
      BY <3>1, <3>5 DEF StreamInv, NothingSkipped
    <3> QED
      BY <3>1, <3>3, <3>4, <3>5, <3>6 DEF StreamInv
  <2>4. CASE ReadEnd \/ Drop
    BY <2>4, <2>off DEF ReadEnd, Drop, logVars, StreamInv, NoGapNoDuplicate
  <2>5. CASE Shutdown
    <3>1. UNCHANGED <<inbox, events, live>> /\ ~live
      BY <2>5 DEF Shutdown
    <3> QED
      BY <3>1 DEF StreamInv, NoGapNoDuplicate, NothingSkipped
  <2>6. ASSUME NEW c \in Connections, Close(c) PROVE StreamInv'
    <3>1. UNCHANGED <<inbox, wire, opened, live, ended, events, closed>>
      BY <2>6 DEF Close, logVars
    <3>2. live => (opened \in listeners => opened \in listeners')
      BY <2>6, <2>ty DEF Close, Connections
    <3> QED
      BY <3>1, <3>2, <2>same
  <2>7. CASE UNCHANGED streamVars
    BY <2>7, <2>same DEF streamVars, logVars
  <2> QED
    BY <2>1, <2>2, <2>3, <2>4, <2>5, <2>6, <2>7 DEF StreamNext
<1> QED
  BY <1>1, <1>2, StreamIsTyped, PTL DEF StreamSpec

(* However often the connection breaks, the client receives the events of  *)
(* the log from the first, each once and in order.                         *)
THEOREM EachOnceInOrder == StreamSpec => []NoGapNoDuplicate
<1>1. StreamInv => NoGapNoDuplicate
  BY DEF StreamInv
<1> QED
  BY <1>1, StreamCorrect, PTL

(* What the client has and what is on its way is all there is to have.     *)
THEOREM OpenStreamIsComplete == StreamSpec => []NothingSkipped
<1>1. StreamInv => NothingSkipped
  BY DEF StreamInv
<1> QED
  BY <1>1, StreamCorrect, PTL
=============================================================================
