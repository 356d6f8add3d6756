---------------------------- MODULE DecisionLadder ----------------------------
(***************************************************************************)
(* The decision ladder, src/core/decide.ts with runJudge of judge.ts: every *)
(* pair of surviving answers climbs from measured checks (S0) over one      *)
(* judge reading in both orders (S1), repetition (S2), other judges (S3) to *)
(* a claim that is checked rather than believed (S4), under a budget of     *)
(* judge calls; the resolved pairs are then counted.                        *)
(*                                                                          *)
(* The pairs are visited one after the other and one call is out at a time. *)
(* A judge's answer is which position it prefers, a tie, or "unreadable"    *)
(* when every parse retry failed.  A reading is one judge asked twice, with *)
(* the submissions in both orders.                                          *)
(*                                                                          *)
(* `heard` and `climbed` are history variables; no action reads them.       *)
(***************************************************************************)
EXTENDS Integers, Sequences, FiniteSets

CONSTANTS
  Subjects,       \* the surviving answers
  Pairs,          \* the sequence of <<a, b>> that decide()'s loops visit
  Scores,         \* counts of passed checks a subject may have
  NoScore,        \* objectiveScore null: the task declares no checks
  None,           \* no label
  Tie,            \* TIE_BUCKET
  MaxParseRetries, SelfConsistencyRounds, Ensemble, Probe, MaxJudgeCalls,
  AgreementPercent  \* 100 * agreementThreshold

ASSUME LadderAssumption ==
  /\ IsFiniteSet(Subjects)
  /\ Pairs \in Seq(Subjects \X Subjects) /\ Pairs # <<>>
  /\ \A p \in DOMAIN Pairs : Pairs[p][1] # Pairs[p][2]
  /\ Scores \subseteq Nat
  /\ None \notin Subjects /\ Tie \notin Subjects /\ None # Tie
  /\ MaxParseRetries \in Nat
  /\ SelfConsistencyRounds \in Nat
  /\ Ensemble \in Nat            \* how many other judges there are
  /\ Probe \in BOOLEAN
  /\ MaxJudgeCalls \in Nat
  /\ AgreementPercent \in 50..100

VARIABLES
  score,        \* subject -> objectiveScore
  stage,        \* where the ladder is
  readings,     \* the readings of the rung under way
  firstFailure, \* s1.failure of the pair under way
  spent,        \* budget.spent
  resolutions,  \* the resolutions pushed so far
  decision,     \* what decide() returned
  heard,        \* history: pair number -> kinds of readings on S1 to S3
  climbed       \* history: pair number -> rungs that ran

history == <<heard, climbed>>
vars == <<score, stage, readings, firstFailure, spent, resolutions, decision, history>>

Rungs == <<"S1", "S2", "S3", "S4">>
Stages == {"S0", "S1", "S2", "S3", "S4"}
Failures == {"none", "unavailable", "unstable"}
Answers == {"first", "second", "tie", "unreadable"}
Labels == Subjects \cup {None}
Reading == [label : Labels, failure : Failures]
Resolution == [label : Labels, at : Stages \cup {"none"}, starved : BOOLEAN,
               failure : Failures]
NoDecision == [winner |-> None, reason |-> "pending", at |-> "none"]

Pair == Len(resolutions) + 1
A == Pairs[Pair][1]
B == Pairs[Pair][2]

-----------------------------------------------------------------------------
Init ==
  /\ \/ score \in [Subjects -> Scores]
     \/ score = [s \in Subjects |-> NoScore]
  /\ stage = "S0" /\ readings = <<>> /\ firstFailure = "none" /\ spent = 0
  /\ resolutions = <<>> /\ decision = NoDecision
  /\ heard = [p \in DOMAIN Pairs |-> {}]
  /\ climbed = [p \in DOMAIN Pairs |-> {}]

\* Mutant of Affords: the ceiling is not looked at.
AffordsAll(used, calls) == TRUE
\* Budget.affords(): a rung fits whole or not at all.  Its price counts one
\* attempt per call; parse retries are added when they are spent.
Affords(used, calls) == used + calls <= MaxJudgeCalls

ReadingsOf(rung) ==
  CASE rung = "S1" -> 1
    [] rung = "S2" -> SelfConsistencyRounds
    [] rung = "S3" -> Ensemble
    [] rung = "S4" -> 0

Price(rung) == IF rung = "S4" THEN 1 ELSE 2 * ReadingsOf(rung)

\* A silent first judge is not asked again; S3 and S4 run when configured.
Enabled(rung, failure) ==
  CASE rung = "S1" -> TRUE
    [] rung = "S2" -> failure = "unstable" /\ SelfConsistencyRounds > 0
    [] rung = "S3" -> Ensemble > 0
    [] rung = "S4" -> Probe

\* The pair under way is over; the next pair starts at S0.
Resolve(label, at, starved, failure) ==
  /\ resolutions' = Append(resolutions, [label |-> label, at |-> at,
                                         starved |-> starved, failure |-> failure])
  /\ stage' = IF Pair = Len(Pairs) THEN "count" ELSE "S0"
  /\ firstFailure' = "none"

\* Leaving rung number n - 1 unsettled with `used` calls spent: enter the next
\* one that is enabled, unless the budget has no room for it or none is left.
Climb(n, failure, used) ==
  \/ \E k \in n..4 :
       /\ Enabled(Rungs[k], failure)
       /\ \A i \in n..(k - 1) : ~Enabled(Rungs[i], failure)
       /\ \/ /\ Affords(used, Price(Rungs[k]))
             /\ stage' = Rungs[k]
             /\ firstFailure' = failure
             /\ UNCHANGED resolutions
          \/ /\ ~Affords(used, Price(Rungs[k]))
             /\ Resolve(None, "none", TRUE, failure)
  \/ /\ \A i \in n..4 : ~Enabled(Rungs[i], failure)
     /\ Resolve(None, "none", FALSE, failure)

\* S0: checks that differ settle the pair without a judge.
Measure ==
  /\ stage = "S0"
  /\ \/ \E w, l \in {A, B} :
          /\ {score[w], score[l]} \subseteq Nat
          /\ score[w] > score[l]
          /\ Resolve(w, "S0", FALSE, "none")
     \/ /\ score[A] = score[B]
        /\ Climb(1, "none", spent)
  /\ UNCHANGED <<score, readings, spent, decision, history>>

\* readPair(): what two answers say together.  Submission A is first in the
\* order AB and second in BA; an unreadable answer ends the reading.
Preferred(answer, first, second) ==
  CASE answer = "first" -> first
    [] answer = "second" -> second
    [] answer = "tie" -> None

\* Mutant of Combine: positions are not mapped back to submissions.
CombinePositions(ab, ba) ==
  IF "unreadable" \in {ab, ba} THEN [label |-> None, failure |-> "unavailable"]
  ELSE IF ab = ba THEN [label |-> Preferred(ab, A, B), failure |-> "none"]
  ELSE [label |-> None, failure |-> "unstable"]

Combine(ab, ba) ==
  IF "unreadable" \in {ab, ba} THEN [label |-> None, failure |-> "unavailable"]
  ELSE IF Preferred(ab, A, B) = Preferred(ba, B, A)
       THEN [label |-> Preferred(ab, A, B), failure |-> "none"]
       ELSE [label |-> None, failure |-> "unstable"]

\* For the history: no reading, the same position twice, or an opinion.
Kinds == {"silence", "position", "preference"}
Kind(ab, ba) ==
  IF "unreadable" \in {ab, ba} THEN "silence"
  ELSE IF ab = ba /\ ab # "tie" THEN "position" ELSE "preference"

\* Attempts of runJudge(): all of them when the answer stays unreadable.
Attempts(answer) ==
  IF answer = "unreadable" THEN {MaxParseRetries + 1} ELSE 1..(MaxParseRetries + 1)

\* majority(): the one answer given most often, a tie being an answer; its
\* agreement is over the readings asked for, not over the usable ones.
Votes(rs, x) ==
  Cardinality({i \in DOMAIN rs : /\ rs[i].failure = "none"
                                 /\ x = IF rs[i].label = None THEN Tie ELSE rs[i].label})
Majority(rs) ==
  {x \in Subjects \cup {Tie} :
     /\ Votes(rs, x) > 0
     /\ \A y \in (Subjects \cup {Tie}) \ {x} : Votes(rs, y) < Votes(rs, x)}

Settles(rung, rs, x) ==
  /\ x \in Majority(rs)
  /\ CASE rung = "S2" -> 100 * Votes(rs, x) >= AgreementPercent * Len(rs)
       [] rung = "S3" -> 2 * Votes(rs, x) > Len(rs)

\* Mutant of RungVerdict: other judges are passed over.
RungVerdictSkipsJudges(r, rs, used) ==
  \/ stage = "S1" /\ r.failure = "none" /\ Resolve(r.label, "S1", FALSE, "none")
  \/ /\ stage = "S1" /\ r.failure # "none"
     /\ Climb(IF r.failure = "unstable" THEN 2 ELSE 4, r.failure, used)
  \/ \E x \in Majority(rs) :
       /\ stage # "S1" /\ Settles(stage, rs, x)
       /\ Resolve(IF x = Tie THEN None ELSE x, stage, FALSE, "none")
  \/ /\ stage # "S1" /\ \A x \in Majority(rs) : ~Settles(stage, rs, x)
     /\ Climb(4, firstFailure, used)

\* The rung has all its readings, r the last of them, and `used` calls are spent.
RungVerdict(r, rs, used) ==
  \/ /\ stage = "S1" /\ r.failure = "none"
     /\ Resolve(r.label, "S1", FALSE, "none")
  \/ /\ stage = "S1" /\ r.failure # "none"
     /\ Climb(2, r.failure, used)
  \/ \E x \in Majority(rs) :
       /\ stage # "S1" /\ Settles(stage, rs, x)
       /\ Resolve(IF x = Tie THEN None ELSE x, stage, FALSE, "none")
  \/ /\ stage # "S1" /\ \A x \in Majority(rs) : ~Settles(stage, rs, x)
     /\ Climb(IF stage = "S2" THEN 3 ELSE 4, firstFailure, used)

\* One reading of S1, S2 or S3, and after the last one of the rung its verdict.
Read ==
  /\ stage \in {"S1", "S2", "S3"}
  /\ \E ab, ba \in Answers :
       LET r  == Combine(ab, ba)
           rs == Append(readings, r)
       IN /\ ab = "unreadable" => ba = "unreadable"   \* the order BA is not asked
          /\ \E i \in Attempts(ab), j \in Attempts(ba) :
               spent' = spent + i + (IF ab = "unreadable" THEN 0 ELSE j)
          /\ heard' = [heard EXCEPT ![Pair] = @ \cup {Kind(ab, ba)}]
          /\ climbed' = [climbed EXCEPT ![Pair] = @ \cup {stage}]
          /\ \/ /\ Len(rs) < ReadingsOf(stage)
                /\ readings' = rs
                /\ UNCHANGED <<stage, firstFailure, resolutions>>
             \/ /\ Len(rs) = ReadingsOf(stage)
                /\ readings' = <<>>
                /\ RungVerdict(r, rs, spent')
  /\ UNCHANGED <<score, decision>>

\* S4: the judge credits one submission with a claim, and the claim is run on
\* both; it decides only when it is true of the credited one alone.
AskProbe ==
  /\ stage = "S4"
  /\ spent' = spent + 1
  /\ climbed' = [climbed EXCEPT ![Pair] = @ \cup {"S4"}]
  /\ \E better \in {A, B, None}, passes \in SUBSET {A, B} :
       \/ passes = {better} /\ Resolve(better, "S4", FALSE, "none")
       \/ passes # {better} /\ Resolve(None, "none", FALSE, firstFailure)
  /\ UNCHANGED <<score, readings, decision, heard>>

Wins(x) == Cardinality({p \in DOMAIN resolutions : resolutions[p].label = x})
Top == {x \in Subjects : /\ Wins(x) > 0
                         /\ \A y \in Subjects \ {x} : Wins(y) < Wins(x)}
Decides(winner, reason, at) ==
  decision' = [winner |-> winner, reason |-> reason, at |-> at]

\* decide() after its loops.
Count ==
  LET open == {p \in DOMAIN resolutions : resolutions[p].at = "none"}
      Depth(at) == CHOOSE i \in 1..5 : <<"S0", "S1", "S2", "S3", "S4">>[i] = at
      Deepest(at) == /\ \E p \in DOMAIN resolutions : resolutions[p].at = at
                     /\ \A p \in DOMAIN resolutions :
                          Depth(resolutions[p].at) <= Depth(at)
  IN /\ stage = "count"
     /\ stage' = "done"
     /\ \/ /\ \E p \in open : resolutions[p].starved
           /\ Decides(None, "budget_exhausted", "none")
        \/ /\ open # {} /\ \A p \in open : ~resolutions[p].starved
           /\ Decides(None, IF \A p \in open : resolutions[p].failure = "unavailable"
                             THEN "judge_unavailable" ELSE "undecidable", "none")
        \/ open = {} /\ Top = {} /\ Decides(None, "tie", "none")
        \/ \E x \in Top, at \in Stages :
             open = {} /\ Deepest(at) /\ Decides(x, "none", at)
     /\ UNCHANGED <<score, readings, firstFailure, spent, resolutions, history>>

Next == Measure \/ Read \/ AskProbe \/ Count

Spec == Init /\ [][Next]_vars

\* Every judge call ends (the client bounds it) and continuations run.
FairSpec == Spec /\ WF_vars(Next)

-----------------------------------------------------------------------------
Reasons == {"pending", "none", "tie", "judge_unavailable", "undecidable", "budget_exhausted"}

TypeOK ==
  /\ score \in [Subjects -> Scores \cup {NoScore}]
  /\ stage \in Stages \cup {"count", "done"}
  /\ readings \in Seq(Reading)
  /\ firstFailure \in Failures
  /\ spent \in Nat
  /\ resolutions \in Seq(Resolution) /\ Len(resolutions) <= Len(Pairs)
  /\ decision \in [winner : Labels, reason : Reasons, at : Stages \cup {"none"}]
  /\ heard \in [DOMAIN Pairs -> SUBSET Kinds]
  /\ climbed \in [DOMAIN Pairs -> SUBSET Stages]

\* The dearest rung in calls.
Dearest == LET prices == {Price(Rungs[k]) : k \in 1..4}
           IN CHOOSE m \in prices : \A q \in prices : q <= m

\* The budget may be overrun, but by no more than the parse retries of one
\* rung: a rung that was priced without them is the last that can start.
OverrunIsOneRung == spent <= MaxJudgeCalls + Dearest * MaxParseRetries

\* A judge that always names the same position, whatever stands there, never
\* makes a winner on the rungs that believe a judge.
PositionNeverWins ==
  \A p \in DOMAIN resolutions :
    resolutions[p].label # None /\ resolutions[p].at \in {"S1", "S2", "S3"} =>
      "preference" \in heard[p]

\* "Every rung of the ladder ran": giving up as undecidable means that on each
\* open pair each configured rung ran, repetition excepted when the first
\* judge was silent.
UndecidableMeansExhausted ==
  decision.reason = "undecidable" =>
    \A p \in DOMAIN resolutions :
      resolutions[p].at = "none" =>
        climbed[p] = {Rungs[k] : k \in {k \in 1..4 : Enabled(Rungs[k], resolutions[p].failure)}}

=============================================================================
