------------------------ MODULE DecisionLadderProofs -------------------------
(***************************************************************************)
(* Proofs about DecisionLadder: for any subjects, scores, judges, retries  *)
(* and budgets.                                                            *)
(***************************************************************************)
EXTENDS DecisionLadder, FiniteSetTheorems, TLAPS

Judging == {"S1", "S2", "S3"}

\* The types the proofs need; a pair is under way until all are resolved, and
\* a rung under way lacks a reading.
Valid ==
  /\ stage \in Stages \cup {"count", "done"}
  /\ readings \in Seq(Reading)
  /\ firstFailure \in Failures
  /\ spent \in Nat
  /\ resolutions \in Seq(Resolution)
  /\ heard \in [DOMAIN Pairs -> SUBSET Kinds]
  /\ climbed \in [DOMAIN Pairs -> SUBSET Stages]
  /\ stage \in Stages => Pair \in DOMAIN Pairs
  /\ IF stage \in Judging THEN Len(readings) < ReadingsOf(stage) ELSE readings = <<>>

-----------------------------------------------------------------------------
\* What Climb leaves: a rung entered, or the pair given up.
Entered(n, failure, used) ==
  \E k \in n..4 :
    /\ Enabled(Rungs[k], failure) /\ \A i \in n..(k - 1) : ~Enabled(Rungs[i], failure)
    /\ Affords(used, Price(Rungs[k])) /\ stage' = Rungs[k] /\ firstFailure' = failure /\ UNCHANGED resolutions

\* The ways a step can leave a rung.
LEMMA ClimbStep ==
  ASSUME NEW n \in 1..4, NEW failure, NEW used, Climb(n, failure, used)
  PROVE  \/ Entered(n, failure, used)
         \/ Resolve(None, "none", TRUE, failure)
         \/ /\ \A i \in n..4 : ~Enabled(Rungs[i], failure)
            /\ Resolve(None, "none", FALSE, failure)
BY DEF Climb, Entered

\* A rung that is entered has a reading to ask for.
LEMMA EnteredRung ==
  ASSUME NEW n \in 1..4, NEW failure, NEW used, Entered(n, failure, used)
  PROVE  /\ stage' \in {"S1", "S2", "S3", "S4"} /\ firstFailure' = failure /\ UNCHANGED resolutions
         /\ Affords(used, Price(stage')) /\ Enabled(stage', failure)
         /\ stage' \in Judging => ReadingsOf(stage') \in Nat /\ 0 < ReadingsOf(stage')
<1>1. PICK k \in 1..4 :
        /\ Enabled(Rungs[k], failure)
        /\ Affords(used, Price(Rungs[k])) /\ stage' = Rungs[k] /\ firstFailure' = failure /\ UNCHANGED resolutions
  BY DEF Entered
<1>2. Rungs[k] \in {"S1", "S2", "S3", "S4"}
  BY DEF Rungs
<1>3. Enabled(stage', failure) /\ Affords(used, Price(stage')) /\ stage' \in {"S1", "S2", "S3", "S4"}
  BY <1>1, <1>2
<1>4. stage' \in Judging => ReadingsOf(stage') \in Nat /\ 0 < ReadingsOf(stage')
  <2>1. CASE stage' = "S1"
    BY <2>1 DEF ReadingsOf
  <2>2. CASE stage' = "S2"
    BY <2>2, <1>3, LadderAssumption DEF Enabled, ReadingsOf
  <2>3. CASE stage' = "S3"
    BY <2>3, <1>3, LadderAssumption DEF Enabled, ReadingsOf
  <2> QED
    BY <2>1, <2>2, <2>3 DEF Judging
<1> QED
  BY <1>1, <1>3, <1>4

\* A resolved pair is the last of them; the next one begins at S0.
LEMMA Resolved ==
  ASSUME Valid, stage \in Stages,
         NEW label \in Labels, NEW at \in Stages \cup {"none"}, NEW starved \in BOOLEAN, NEW failure \in Failures,
         Resolve(label, at, starved, failure)
  PROVE  LET r == [label |-> label, at |-> at, starved |-> starved, failure |-> failure]
         IN  /\ resolutions' \in Seq(Resolution) /\ DOMAIN resolutions' = DOMAIN resolutions \cup {Pair}
             /\ resolutions'[Pair] = r /\ \A p \in DOMAIN resolutions : resolutions'[p] = resolutions[p]
             /\ Pair \notin DOMAIN resolutions /\ Pair \in Nat /\ Pair' = Pair + 1
             /\ stage' \in {"S0", "count"} /\ (stage' = "S0" => Pair' \in DOMAIN Pairs)
             /\ firstFailure' = "none"
<1> DEFINE r == [label |-> label, at |-> at, starved |-> starved, failure |-> failure]
<1>1. r \in Resolution /\ resolutions' = Append(resolutions, r) /\ resolutions \in Seq(Resolution)
  BY DEF Resolve, Resolution, Valid
<1> HIDE DEF r
<1>2. /\ resolutions' \in Seq(Resolution) /\ Len(resolutions') = Len(resolutions) + 1
      /\ resolutions'[Len(resolutions) + 1] = r /\ \A p \in DOMAIN resolutions : resolutions'[p] = resolutions[p]
      /\ Len(resolutions) \in Nat /\ DOMAIN resolutions = 1..Len(resolutions)
      /\ DOMAIN resolutions' = 1..(Len(resolutions) + 1)
  BY <1>1
<1>3. stage' \in {"S0", "count"} /\ (stage' = "S0" => Pair # Len(Pairs)) /\ firstFailure' = "none"
  BY DEF Resolve
<1>4. Pair \in 1..Len(Pairs) /\ Len(Pairs) \in Nat
  BY LadderAssumption DEF Valid
<1>5. Pair' = Pair + 1 /\ (stage' = "S0" => Pair' \in DOMAIN Pairs)
  BY <1>2, <1>3, <1>4, LadderAssumption DEF Pair
<1> QED
  BY <1>2, <1>3, <1>5 DEF r, Pair

\* A rung whose last reading is in: it settles the pair, or is left.
LEMMA VerdictStep ==
  ASSUME stage \in Judging, NEW r, NEW rs, NEW used, RungVerdict(r, rs, used)
  PROVE  \/ stage = "S1" /\ r.failure = "none" /\ Resolve(r.label, "S1", FALSE, "none")
         \/ \E x \in Majority(rs) : stage # "S1" /\ Resolve(IF x = Tie THEN None ELSE x, stage, FALSE, "none")
         \/ stage = "S1" /\ r.failure # "none" /\ Climb(2, r.failure, used)
         \/ stage = "S2" /\ Climb(3, firstFailure, used)
         \/ stage = "S3" /\ Climb(4, firstFailure, used)
BY DEF RungVerdict, Judging

\* A reading is well formed.
LEMMA CombineReading ==
  ASSUME Valid, stage \in Stages, NEW ab \in Answers, NEW ba \in Answers
  PROVE  Combine(ab, ba) \in Reading /\ A \in Subjects /\ B \in Subjects /\ A # B
<1>1. A \in Subjects /\ B \in Subjects /\ A # B
  BY LadderAssumption DEF Valid, A, B
<1> QED
  BY <1>1 DEF Combine, Preferred, Reading, Labels, Failures, Answers

\* What a majority gives is the label of one of the readings.
LEMMA MajorityHeard ==
  ASSUME NEW rs, NEW x \in Majority(rs), x # Tie
  PROVE  x \in Subjects /\ \E i \in DOMAIN rs : rs[i].failure = "none" /\ rs[i].label = x
<1>1. x \in Subjects /\ Votes(rs, x) > 0
  BY DEF Majority
<1> DEFINE votes == {i \in DOMAIN rs : rs[i].failure = "none" /\ x = IF rs[i].label = None THEN Tie ELSE rs[i].label}
<1>2. Votes(rs, x) = Cardinality(votes)
  BY DEF Votes
<1>3. votes # {}
  BY <1>1, <1>2, FS_EmptySet
<1>4. PICK i \in DOMAIN rs : rs[i].failure = "none" /\ x = IF rs[i].label = None THEN Tie ELSE rs[i].label
  BY <1>3
<1> QED
  BY <1>1, <1>4

-----------------------------------------------------------------------------
\* The types, and what is under way, in every reachable state.
THEOREM TypeInv == Spec => []Valid
<1> USE LadderAssumption
<1>1. Init => Valid
  <2> SUFFICES ASSUME Init PROVE Valid
    OBVIOUS
  <2>1. resolutions = <<>> /\ readings = <<>> /\ stage = "S0" /\ Len(resolutions) = 0
    BY DEF Init
  <2>2. Pair = 1 /\ 1 \in DOMAIN Pairs
    BY <2>1 DEF Pair
  <2>3. heard \in [DOMAIN Pairs -> SUBSET Kinds] /\ climbed \in [DOMAIN Pairs -> SUBSET Stages]
    BY DEF Init
  <2>4. firstFailure \in Failures /\ spent \in Nat
    BY DEF Init, Failures
  <2> QED
    BY <2>1, <2>2, <2>3, <2>4 DEF Valid, Stages, Judging
<1>2. Valid /\ [Next]_vars => Valid'
  <2> SUFFICES ASSUME Valid, [Next]_vars PROVE Valid'
    OBVIOUS
  \* what every step must show
  <2> DEFINE Flow == /\ stage' \in Stages \cup {"count", "done"} /\ firstFailure' \in Failures
                     /\ resolutions' \in Seq(Resolution)
                     /\ (stage' \in Stages => Pair' \in DOMAIN Pairs)
                     /\ (stage' \in Judging => ReadingsOf(stage') \in Nat /\ 0 < ReadingsOf(stage'))
  <2>resolve. ASSUME NEW label \in Labels, NEW at \in Stages \cup {"none"}, NEW starved \in BOOLEAN,
                     NEW failure \in Failures, stage \in Stages, Resolve(label, at, starved, failure)
              PROVE  Flow
    <3>1. /\ resolutions' \in Seq(Resolution) /\ stage' \in {"S0", "count"}
          /\ (stage' = "S0" => Pair' \in DOMAIN Pairs) /\ firstFailure' = "none"
      BY <2>resolve, Resolved
    <3> QED
      BY <3>1 DEF Stages, Judging, Failures
  <2>climb. ASSUME NEW n \in 1..4, NEW failure \in Failures, NEW used, stage \in Stages, Climb(n, failure, used)
            PROVE  Flow
    <3>1. CASE Entered(n, failure, used)
      <4>1. /\ stage' \in {"S1", "S2", "S3", "S4"} /\ firstFailure' = failure /\ UNCHANGED resolutions
            /\ stage' \in Judging => ReadingsOf(stage') \in Nat /\ 0 < ReadingsOf(stage')
        BY <3>1, EnteredRung
      <4>2. Pair' = Pair /\ Pair \in DOMAIN Pairs
        BY <4>1, <2>climb DEF Pair, Valid
      <4> QED
        BY <4>1, <4>2 DEF Valid, Stages
    <3>2. ASSUME NEW starved \in BOOLEAN, Resolve(None, "none", starved, failure) PROVE Flow
      BY <3>2, <2>climb, <2>resolve DEF Labels
    <3> QED
      BY <2>climb, <3>1, <3>2, ClimbStep
  <2>1. CASE Measure
    <3>1. stage = "S0" /\ readings = <<>> /\ UNCHANGED <<readings, spent, heard, climbed>>
      BY <2>1 DEF Measure, Valid, Judging, history
    <3>2. A \in Subjects /\ B \in Subjects /\ stage \in Stages
      BY <3>1, CombineReading DEF Stages, Answers
    <3>3. Flow
      <4> HIDE DEF Flow
      <4>1. "S0" \in Stages \cup {"none"} /\ FALSE \in BOOLEAN /\ "none" \in Failures /\ 1 \in 1..4
            /\ A \in Labels /\ B \in Labels
        BY <3>2 DEF Stages, Failures, Labels
      <4>2. CASE Climb(1, "none", spent)
        BY <4>1, <4>2, <3>2, <2>climb
      <4>3. ASSUME NEW w \in {A, B}, Resolve(w, "S0", FALSE, "none") PROVE Flow
        BY <4>1, <4>3, <3>2, <2>resolve
      <4> QED
        BY <2>1, <4>2, <4>3 DEF Measure
    <3> HIDE DEF Flow
    <3>4. stage' \in Judging => Len(readings') < ReadingsOf(stage')
      BY <3>1, <3>3 DEF Flow
    <3> QED
      BY <3>1, <3>3, <3>4 DEF Flow, Valid
  <2>2. CASE Read
    <3>1. PICK ab \in Answers, ba \in Answers :
            LET r == Combine(ab, ba)
                rs == Append(readings, r)
            IN  /\ \E i \in Attempts(ab), j \in Attempts(ba) :
                     spent' = spent + i + (IF ab = "unreadable" THEN 0 ELSE j)
                /\ heard' = [heard EXCEPT ![Pair] = @ \cup {Kind(ab, ba)}]
                /\ climbed' = [climbed EXCEPT ![Pair] = @ \cup {stage}]
                /\ \/ /\ Len(rs) < ReadingsOf(stage)
                      /\ readings' = rs
                      /\ UNCHANGED <<stage, firstFailure, resolutions>>
                   \/ /\ Len(rs) = ReadingsOf(stage)
                      /\ readings' = <<>>
                      /\ RungVerdict(r, rs, spent')
      BY <2>2 DEF Read
    <3> DEFINE r == Combine(ab, ba)
               rs == Append(readings, r)
    <3>2. stage \in Judging /\ stage \in Stages /\ r \in Reading /\ rs \in Seq(Reading)
      BY <2>2, CombineReading DEF Read, Judging, Stages, Valid
    <3>3. spent' \in Nat
      <4>1. PICK i \in Attempts(ab), j \in Attempts(ba) : spent' = spent + i + (IF ab = "unreadable" THEN 0 ELSE j)
        BY <3>1
      <4>2. i \in Nat /\ j \in Nat
        BY DEF Attempts
      <4> QED
        BY <4>1, <4>2 DEF Valid
    <3>4. heard' \in [DOMAIN Pairs -> SUBSET Kinds] /\ climbed' \in [DOMAIN Pairs -> SUBSET Stages]
      BY <3>1, <3>2 DEF Valid, Kind, Kinds
    <3>5. CASE Len(rs) < ReadingsOf(stage) /\ readings' = rs /\ UNCHANGED <<stage, firstFailure, resolutions>>
      BY <3>2, <3>3, <3>4, <3>5 DEF Valid, Pair
    <3>6. CASE readings' = <<>> /\ RungVerdict(r, rs, spent')
      <4>1. r.label \in Labels /\ r.failure \in Failures /\ firstFailure \in Failures
        BY <3>2 DEF Reading, Valid
      <4>2. \A x \in Majority(rs) : (IF x = Tie THEN None ELSE x) \in Labels
        BY DEF Majority, Labels
      <4> HIDE DEF r, rs
      <4>3. Flow
        <5> HIDE DEF Flow
        <5>1. stage \in Stages \cup {"none"} /\ "S1" \in Stages \cup {"none"} /\ "none" \in Failures /\ FALSE \in BOOLEAN
              /\ 2 \in 1..4 /\ 3 \in 1..4 /\ 4 \in 1..4
          BY <3>2 DEF Stages, Failures
        <5>2. CASE Resolve(r.label, "S1", FALSE, "none")
          BY <5>1, <5>2, <4>1, <3>2, <2>resolve
        <5>3. CASE \E x \in Majority(rs) : Resolve(IF x = Tie THEN None ELSE x, stage, FALSE, "none")
          <6>1. PICK x \in Majority(rs) : Resolve(IF x = Tie THEN None ELSE x, stage, FALSE, "none")
            BY <5>3
          <6>2. (IF x = Tie THEN None ELSE x) \in Labels
            BY <4>2
          <6> QED
            BY <5>1, <6>1, <6>2, <3>2, <2>resolve
        <5>4. CASE Climb(2, r.failure, spent') \/ Climb(3, firstFailure, spent') \/ Climb(4, firstFailure, spent')
          BY <5>1, <5>4, <4>1, <3>2, <2>climb
        <5> QED
          BY <5>2, <5>3, <5>4, <3>2, <3>6, VerdictStep
      <4> HIDE DEF Flow
      <4> QED
        BY <3>3, <3>4, <3>6, <4>3 DEF Valid, Flow
    <3> QED
      BY <3>1, <3>5, <3>6
  <2>3. CASE AskProbe
    <3>1. stage = "S4" /\ readings = <<>> /\ UNCHANGED <<readings, heard>> /\ spent' = spent + 1
          /\ climbed' = [climbed EXCEPT ![Pair] = @ \cup {"S4"}]
      BY <2>3 DEF AskProbe, Valid, Judging
    <3>2. A \in Subjects /\ B \in Subjects /\ stage \in Stages
      BY <3>1, CombineReading DEF Stages, Answers
    <3>3. \/ \E better \in {A, B, None} : Resolve(better, "S4", FALSE, "none")
          \/ Resolve(None, "none", FALSE, firstFailure)
      BY <2>3 DEF AskProbe
    <3>4. Flow
      BY <3>2, <3>3, <2>resolve DEF Labels, Stages, Failures, Valid
    <3> HIDE DEF Flow
    <3>5. climbed' \in [DOMAIN Pairs -> SUBSET Stages] /\ spent' \in Nat
      BY <3>1 DEF Valid, Stages
    <3> QED
      BY <3>1, <3>4, <3>5 DEF Valid, Flow
  <2>4. CASE Count
    BY <2>4 DEF Count, history, Valid, Stages, Judging
  <2>5. CASE UNCHANGED vars
    BY <2>5 DEF vars, history, Valid, Pair
  <2> QED
    BY <2>1, <2>2, <2>3, <2>4, <2>5 DEF Next
<1> QED
  BY <1>1, <1>2, PTL DEF Spec

-----------------------------------------------------------------------------
\* Whatever names a submission on the rungs that believe a judge, a preference
\* was heard for the pair.
HeardInv ==
  /\ PositionNeverWins
  /\ \A i \in DOMAIN readings : readings[i].failure = "none" /\ readings[i].label # None
                                  => "preference" \in heard[Pair]

\* A reading that names a submission is a preference.
LEMMA NamedIsPreferred ==
  ASSUME Valid, stage \in Stages, NEW ab \in Answers, NEW ba \in Answers,
         Combine(ab, ba).failure = "none", Combine(ab, ba).label # None
  PROVE  Kind(ab, ba) = "preference"
<1>1. A \in Subjects /\ B \in Subjects /\ A # B /\ None \notin Subjects
  BY CombineReading, LadderAssumption
<1>2. "unreadable" \notin {ab, ba}
  BY DEF Combine
<1>3. Preferred(ab, A, B) = Preferred(ba, B, A) /\ Preferred(ab, A, B) # None
  BY <1>2 DEF Combine
<1>4. ~(ab = ba /\ ab # "tie")
  BY <1>1, <1>2, <1>3 DEF Preferred, Answers
<1> QED
  BY <1>2, <1>4 DEF Kind

\* A judge that always names the same position never makes a winner.
THEOREM PositionLoses == Spec => []PositionNeverWins
<1> USE LadderAssumption
<1>1. Init => HeardInv
  BY DEF Init, HeardInv, PositionNeverWins
<1>2. Valid /\ HeardInv /\ [Next]_vars => HeardInv'
  <2> SUFFICES ASSUME Valid, HeardInv, [Next]_vars PROVE HeardInv'
    OBVIOUS
  <2>resolve. ASSUME NEW label \in Labels, NEW at \in Stages \cup {"none"}, NEW starved \in BOOLEAN,
                     NEW failure \in Failures, stage \in Stages, Resolve(label, at, starved, failure),
                     readings' = <<>>, \A p \in DOMAIN Pairs : heard[p] \subseteq heard'[p],
                     label = None \/ at \notin {"S1", "S2", "S3"} \/ "preference" \in heard'[Pair]
              PROVE  HeardInv'
    <3>1. /\ DOMAIN resolutions' = DOMAIN resolutions \cup {Pair}
          /\ resolutions'[Pair].label = label /\ resolutions'[Pair].at = at
          /\ \A p \in DOMAIN resolutions : resolutions'[p] = resolutions[p]
      <4>1. /\ DOMAIN resolutions' = DOMAIN resolutions \cup {Pair}
            /\ resolutions'[Pair] = [label |-> label, at |-> at, starved |-> starved, failure |-> failure]
            /\ \A p \in DOMAIN resolutions : resolutions'[p] = resolutions[p]
        BY <2>resolve, Resolved, Zenon
      <4> QED
        BY <4>1
    <3>2. \A p \in DOMAIN resolutions : p \in DOMAIN Pairs
      <4>1. Len(resolutions) \in Nat /\ Len(Pairs) \in Nat /\ Pair \in DOMAIN Pairs
        BY <2>resolve DEF Valid
      <4> QED
        BY <4>1 DEF Pair, Valid
    <3>3. PositionNeverWins'
      BY <2>resolve, <3>1, <3>2 DEF HeardInv, PositionNeverWins
    <3> QED
      BY <2>resolve, <3>3 DEF HeardInv
  <2>climb. ASSUME NEW n \in 1..4, NEW failure \in Failures, NEW used, stage \in Stages, Climb(n, failure, used),
                   readings' = <<>>, \A p \in DOMAIN Pairs : heard[p] \subseteq heard'[p]
            PROVE  HeardInv'
    <3>1. CASE Entered(n, failure, used)
      <4>1. UNCHANGED resolutions /\ \A p \in DOMAIN resolutions : p \in DOMAIN Pairs
        <5>1. Len(resolutions) \in Nat /\ Len(Pairs) \in Nat /\ Pair \in DOMAIN Pairs /\ UNCHANGED resolutions
          BY <2>climb, <3>1, EnteredRung DEF Valid
        <5> QED
          BY <5>1 DEF Pair, Valid
      <4> QED
        BY <4>1, <2>climb DEF HeardInv, PositionNeverWins
    <3>2. ASSUME NEW starved \in BOOLEAN, Resolve(None, "none", starved, failure) PROVE HeardInv'
      BY <3>2, <2>climb, <2>resolve DEF Labels
    <3> QED
      BY <2>climb, <3>1, <3>2, ClimbStep
  <2>1. CASE Measure
    <3>1. stage = "S0" /\ readings = <<>> /\ UNCHANGED <<readings, heard>>
      BY <2>1 DEF Measure, Valid, Judging, history
    <3>2. A \in Labels /\ B \in Labels /\ stage \in Stages
      BY <3>1, CombineReading DEF Stages, Answers, Labels
    <3>3. "S0" \in Stages \cup {"none"} /\ FALSE \in BOOLEAN /\ "none" \in Failures /\ 1 \in 1..4
      BY DEF Stages, Failures
    <3>4. CASE Climb(1, "none", spent)
      BY <3>1, <3>2, <3>3, <3>4, <2>climb
    <3>5. ASSUME NEW w \in {A, B}, Resolve(w, "S0", FALSE, "none") PROVE HeardInv'
      BY <3>1, <3>2, <3>3, <3>5, <2>resolve
    <3> QED
      BY <2>1, <3>4, <3>5 DEF Measure
  <2>2. CASE Read
    <3>1. PICK ab \in Answers, ba \in Answers :
            LET r == Combine(ab, ba)
                rs == Append(readings, r)
            IN  /\ heard' = [heard EXCEPT ![Pair] = @ \cup {Kind(ab, ba)}]
                /\ \/ /\ readings' = rs
                      /\ UNCHANGED <<stage, firstFailure, resolutions>>
                   \/ /\ readings' = <<>>
                      /\ RungVerdict(r, rs, spent')
      BY <2>2 DEF Read
    <3> DEFINE r == Combine(ab, ba)
               rs == Append(readings, r)
    <3>2. stage \in Judging /\ stage \in Stages /\ r \in Reading /\ readings \in Seq(Reading)
      BY <2>2, CombineReading DEF Read, Judging, Stages, Valid
    <3>3. /\ \A p \in DOMAIN Pairs : heard[p] \subseteq heard'[p]
          /\ Kind(ab, ba) \in heard'[Pair] /\ Pair \in DOMAIN Pairs
      BY <3>1, <3>2 DEF Valid
    <3>4. r.failure = "none" /\ r.label # None => "preference" \in heard'[Pair]
      BY <3>2, <3>3, NamedIsPreferred
    <3> HIDE DEF r
    <3>5. \A i \in DOMAIN rs : rs[i].failure = "none" /\ rs[i].label # None => "preference" \in heard'[Pair]
      <4> SUFFICES ASSUME NEW i \in DOMAIN rs, rs[i].failure = "none", rs[i].label # None
                   PROVE  "preference" \in heard'[Pair]
        OBVIOUS
      <4>1. rs[i] = r \/ (i \in DOMAIN readings /\ rs[i] = readings[i])
        BY <3>2
      <4> QED
        BY <4>1, <3>3, <3>4 DEF HeardInv
    <3>6. CASE readings' = rs /\ UNCHANGED <<stage, firstFailure, resolutions>>
      <4>1. Pair' = Pair /\ \A p \in DOMAIN resolutions : p \in DOMAIN Pairs
        <5>1. Len(resolutions) \in Nat /\ Len(Pairs) \in Nat /\ Pair \in DOMAIN Pairs
          BY <3>3 DEF Valid
        <5> QED
          BY <5>1, <3>6 DEF Pair, Valid
      <4> QED
        BY <3>3, <3>5, <3>6, <4>1 DEF HeardInv, PositionNeverWins
    <3>7. CASE readings' = <<>> /\ RungVerdict(r, rs, spent')
      <4>1. r.label \in Labels /\ r.failure \in Failures /\ firstFailure \in Failures
        BY <3>2 DEF Reading, Valid
      <4>2. stage \in Stages \cup {"none"} /\ "S1" \in Stages \cup {"none"} /\ "none" \in Failures /\ FALSE \in BOOLEAN
            /\ 2 \in 1..4 /\ 3 \in 1..4 /\ 4 \in 1..4
        BY <3>2 DEF Stages, Failures
      <4> HIDE DEF rs
      <4>3. CASE r.failure = "none" /\ Resolve(r.label, "S1", FALSE, "none")
        BY <4>1, <4>2, <4>3, <3>2, <3>3, <3>4, <3>7, <2>resolve
      <4>4. CASE \E x \in Majority(rs) : Resolve(IF x = Tie THEN None ELSE x, stage, FALSE, "none")
        <5>1. PICK x \in Majority(rs) : Resolve(IF x = Tie THEN None ELSE x, stage, FALSE, "none")
          BY <4>4
        <5>2. CASE x = Tie
          <6>1. Resolve(None, stage, FALSE, "none") /\ None \in Labels
            BY <5>1, <5>2 DEF Labels
          <6> QED
            BY <6>1, <4>2, <3>2, <3>3, <3>7, <2>resolve
        <5>3. CASE x # Tie
          <6>1. Resolve(x, stage, FALSE, "none")
            BY <5>1, <5>3
          <6>2. x \in Labels /\ x # None /\ \E i \in DOMAIN rs : rs[i].failure = "none" /\ rs[i].label = x
            BY <5>3, MajorityHeard DEF Labels
          <6>3. "preference" \in heard'[Pair]
            BY <6>2, <3>5
          <6> QED
            BY <6>1, <6>2, <6>3, <4>2, <3>2, <3>3, <3>7, <2>resolve
        <5> QED
          BY <5>2, <5>3
      <4>5. CASE Climb(2, r.failure, spent') \/ Climb(3, firstFailure, spent') \/ Climb(4, firstFailure, spent')
        BY <4>1, <4>2, <4>5, <3>2, <3>3, <3>7, <2>climb
      <4> QED
        BY <3>2, <3>7, <4>3, <4>4, <4>5, VerdictStep
    <3> QED
      BY <3>1, <3>6, <3>7 DEF r
  <2>3. CASE AskProbe
    <3>1. stage = "S4" /\ readings = <<>> /\ UNCHANGED <<readings, heard>>
      BY <2>3 DEF AskProbe, Valid, Judging
    <3>2. A \in Labels /\ B \in Labels /\ None \in Labels /\ stage \in Stages
      BY <3>1, CombineReading DEF Stages, Answers, Labels
    <3>3. "S4" \in Stages \cup {"none"} /\ "none" \in Stages \cup {"none"} /\ FALSE \in BOOLEAN /\ "none" \in Failures
          /\ firstFailure \in Failures
      BY DEF Stages, Failures, Valid
    <3>4. \/ \E better \in {A, B, None} : Resolve(better, "S4", FALSE, "none")
          \/ Resolve(None, "none", FALSE, firstFailure)
      BY <2>3 DEF AskProbe
    <3> QED
      BY <3>1, <3>2, <3>3, <3>4, <2>resolve
  <2>4. CASE Count
    BY <2>4 DEF Count, history, HeardInv, PositionNeverWins, Pair
  <2>5. CASE UNCHANGED vars
    BY <2>5 DEF vars, history, HeardInv, PositionNeverWins, Pair
  <2> QED
    BY <2>1, <2>2, <2>3, <2>4, <2>5 DEF Next
<1>3. HeardInv => PositionNeverWins
  BY DEF HeardInv
<1> QED
  BY <1>1, <1>2, <1>3, TypeInv, PTL DEF Spec

-----------------------------------------------------------------------------
\* The enabled rungs up to number k.
UpTo(k, failure) == {Rungs[i] : i \in {i \in 1..k : Enabled(Rungs[i], failure)}}

\* The rungs that ran for a pair are the enabled ones up to the one under way;
\* a pair given up without a shortage saw them all.
ClimbedInv ==
  /\ \A p \in DOMAIN resolutions :
       resolutions[p].at = "none" /\ ~resolutions[p].starved => climbed[p] = UpTo(4, resolutions[p].failure)
  /\ \A p \in DOMAIN Pairs : p > Pair \/ (p = Pair /\ stage = "S0") => climbed[p] = {}
  /\ \A k \in 1..4 : stage = Rungs[k] => climbed[Pair] \cup {Rungs[k]} = UpTo(k, firstFailure)
  /\ decision.reason = "undecidable" =>
       /\ stage = "done"
       /\ \A p \in DOMAIN resolutions : resolutions[p].at = "none" => ~resolutions[p].starved

\* Rungs passed over as not enabled add nothing to those that ran.
LEMMA UpToSkips ==
  ASSUME NEW n \in 1..4, NEW k \in (n - 1)..4, NEW failure, \A i \in n..k : ~Enabled(Rungs[i], failure)
  PROVE  UpTo(k, failure) = UpTo(n - 1, failure)
<1>1. ASSUME NEW i \in 1..k, Enabled(Rungs[i], failure) PROVE i \in 1..(n - 1)
  BY <1>1
<1>2. \A i \in 1..(n - 1) : i \in 1..k
  OBVIOUS
<1>3. {i \in 1..k : Enabled(Rungs[i], failure)} = {i \in 1..(n - 1) : Enabled(Rungs[i], failure)}
  BY <1>1, <1>2
<1> QED
  BY <1>3 DEF UpTo

\* One more enabled rung.
LEMMA UpToEnabled ==
  ASSUME NEW k \in 1..4, NEW failure, Enabled(Rungs[k], failure)
  PROVE  UpTo(k, failure) = UpTo(k - 1, failure) \cup {Rungs[k]}
<1>1. {i \in 1..k : Enabled(Rungs[i], failure)} = {i \in 1..(k - 1) : Enabled(Rungs[i], failure)} \cup {k}
  OBVIOUS
<1> QED
  BY <1>1 DEF UpTo

\* Giving up as undecidable means that every configured rung ran.
THEOREM Exhausted == Spec => []UndecidableMeansExhausted
<1> USE LadderAssumption
<1>1. Init => ClimbedInv
  <2> SUFFICES ASSUME Init PROVE ClimbedInv
    OBVIOUS
  <2>1. stage = "S0" /\ resolutions = <<>> /\ decision.reason = "pending" /\ \A p \in DOMAIN Pairs : climbed[p] = {}
    BY DEF Init, NoDecision
  <2>2. \A k \in 1..4 : Rungs[k] # "S0"
    BY DEF Rungs
  <2> QED
    BY <2>1, <2>2 DEF ClimbedInv
<1>2. Valid /\ ClimbedInv /\ [Next]_vars => ClimbedInv'
  <2> SUFFICES ASSUME Valid, ClimbedInv, [Next]_vars PROVE ClimbedInv'
    OBVIOUS
  <2>rungs. /\ Rungs[1] = "S1" /\ Rungs[2] = "S2" /\ Rungs[3] = "S3" /\ Rungs[4] = "S4"
    BY DEF Rungs
  <2>pairs. ASSUME stage \in Stages
            PROVE  /\ Pair \in DOMAIN Pairs /\ Pair \in Nat
                   /\ \A p \in DOMAIN resolutions : p \in DOMAIN Pairs /\ p < Pair
    <3>1. Len(resolutions) \in Nat /\ Len(Pairs) \in Nat /\ Pair \in DOMAIN Pairs
      BY <2>pairs DEF Valid
    <3> QED
      BY <3>1 DEF Pair, Valid
  \* nothing is decided while a pair is under way
  <2>open. ASSUME stage \in Stages, UNCHANGED decision PROVE decision'.reason # "undecidable"
    BY <2>open DEF ClimbedInv, Stages
  <2>resolve. ASSUME NEW label \in Labels, NEW at \in Stages \cup {"none"}, NEW starved \in BOOLEAN,
                     NEW failure \in Failures, stage \in Stages, Resolve(label, at, starved, failure),
                     UNCHANGED decision,
                     \A p \in DOMAIN Pairs : p # Pair => climbed'[p] = climbed[p],
                     at # "none" \/ starved \/ climbed'[Pair] = UpTo(4, failure)
              PROVE  ClimbedInv'
    <3>1. /\ DOMAIN resolutions' = DOMAIN resolutions \cup {Pair}
          /\ resolutions'[Pair] = [label |-> label, at |-> at, starved |-> starved, failure |-> failure]
          /\ \A p \in DOMAIN resolutions : resolutions'[p] = resolutions[p]
          /\ Pair' = Pair + 1 /\ stage' \in {"S0", "count"}
      <4>1. /\ DOMAIN resolutions' = DOMAIN resolutions \cup {Pair}
            /\ resolutions'[Pair] = [label |-> label, at |-> at, starved |-> starved, failure |-> failure]
            /\ \A p \in DOMAIN resolutions : resolutions'[p] = resolutions[p]
        BY <2>resolve, Resolved, Zenon
      <4>2. Pair' = Pair + 1 /\ stage' \in {"S0", "count"}
        BY <2>resolve, Resolved
      <4> QED
        BY <4>1, <4>2, Zenon
    <3>2. /\ resolutions'[Pair].at = at /\ resolutions'[Pair].starved = starved
          /\ resolutions'[Pair].failure = failure
      BY <3>1
    <3>3. \A p \in DOMAIN resolutions' :
            resolutions'[p].at = "none" /\ ~resolutions'[p].starved => climbed'[p] = UpTo(4, resolutions'[p].failure)
      <4> SUFFICES ASSUME NEW p \in DOMAIN resolutions', resolutions'[p].at = "none", ~resolutions'[p].starved
                   PROVE  climbed'[p] = UpTo(4, resolutions'[p].failure)
        OBVIOUS
      <4>1. CASE p = Pair
        BY <4>1, <3>2, <2>resolve
      <4>2. CASE p # Pair
        <5>1. p \in DOMAIN resolutions /\ resolutions'[p] = resolutions[p]
          BY <4>2, <3>1
        <5>2. climbed'[p] = climbed[p]
          BY <5>1, <4>2, <2>pairs, <2>resolve
        <5>3. climbed[p] = UpTo(4, resolutions[p].failure)
          BY <5>1 DEF ClimbedInv
        <5> QED
          BY <5>1, <5>2, <5>3
      <4> QED
        BY <4>1, <4>2
    <3>4. \A p \in DOMAIN Pairs : p > Pair' \/ (p = Pair' /\ stage' = "S0") => climbed'[p] = {}
      <4> SUFFICES ASSUME NEW p \in DOMAIN Pairs, p > Pair' \/ p = Pair' PROVE climbed'[p] = {}
        OBVIOUS
      <4>1. p \in Nat /\ p > Pair
        BY <3>1, <2>pairs, <2>resolve
      <4>2. climbed[p] = {} /\ p # Pair
        BY <4>1, <2>pairs, <2>resolve DEF ClimbedInv
      <4> QED
        BY <4>2, <2>resolve
    <3>5. \A k \in 1..4 : stage' # Rungs[k]
      BY <3>1, <2>rungs
    <3>6. decision'.reason # "undecidable"
      BY <2>open, <2>resolve
    <3> QED
      BY <3>3, <3>4, <3>5, <3>6 DEF ClimbedInv
  <2>climb. ASSUME NEW n \in 1..4, NEW failure \in Failures, NEW used, stage \in Stages, Climb(n, failure, used),
                   UNCHANGED decision,
                   \A p \in DOMAIN Pairs : p # Pair => climbed'[p] = climbed[p],
                   climbed'[Pair] = UpTo(n - 1, failure)
            PROVE  ClimbedInv'
    <3>1. CASE Entered(n, failure, used)
      <4>1. PICK k \in n..4 :
              /\ Enabled(Rungs[k], failure) /\ \A i \in n..(k - 1) : ~Enabled(Rungs[i], failure)
              /\ stage' = Rungs[k] /\ firstFailure' = failure /\ UNCHANGED resolutions
        BY <3>1 DEF Entered
      <4>2. UpTo(k, failure) = climbed'[Pair] \cup {Rungs[k]}
        <5>1. k \in 1..4 /\ (k - 1) \in (n - 1)..4
          OBVIOUS
        <5>2. UpTo(k - 1, failure) = UpTo(n - 1, failure)
          BY <5>1, <4>1, UpToSkips
        <5>3. UpTo(k, failure) = UpTo(k - 1, failure) \cup {Rungs[k]}
          BY <5>1, <4>1, UpToEnabled
        <5> QED
          BY <5>2, <5>3, <2>climb
      <4>3. Pair' = Pair
        BY <4>1 DEF Pair
      <4>4. \A j \in 1..4 : stage' = Rungs[j] => j = k
        <5>1. k \in 1..4 /\ \A i \in 1..4 : i = 1 \/ i = 2 \/ i = 3 \/ i = 4
          OBVIOUS
        <5> QED
          BY <5>1, <4>1, <2>rungs
      <4>5. \A p \in DOMAIN resolutions' :
              resolutions'[p].at = "none" /\ ~resolutions'[p].starved => climbed'[p] = UpTo(4, resolutions'[p].failure)
        BY <4>1, <2>pairs, <2>climb DEF ClimbedInv
      <4>6. \A p \in DOMAIN Pairs : p > Pair' \/ (p = Pair' /\ stage' = "S0") => climbed'[p] = {}
        <5>1. stage' # "S0"
          BY <4>1, <2>rungs
        <5> QED
          BY <5>1, <4>3, <2>pairs, <2>climb DEF ClimbedInv
      <4>7. \A j \in 1..4 : stage' = Rungs[j] => climbed'[Pair'] \cup {Rungs[j]} = UpTo(j, firstFailure')
        BY <4>1, <4>2, <4>3, <4>4
      <4>8. decision'.reason # "undecidable"
        BY <2>open, <2>climb
      <4> QED
        BY <4>5, <4>6, <4>7, <4>8 DEF ClimbedInv
    <3>2. CASE Resolve(None, "none", TRUE, failure)
      BY <3>2, <2>climb, <2>resolve DEF Labels
    <3>3. CASE /\ \A i \in n..4 : ~Enabled(Rungs[i], failure)
               /\ Resolve(None, "none", FALSE, failure)
      <4>1. 4 \in (n - 1)..4
        OBVIOUS
      <4>2. climbed'[Pair] = UpTo(4, failure)
        BY <3>3, <4>1, <2>climb, UpToSkips
      <4> QED
        BY <3>3, <4>2, <2>climb, <2>resolve DEF Labels
    <3> QED
      BY <2>climb, <3>1, <3>2, <3>3, ClimbStep
  \* the rung under way is among those that ran
  <2>ran. ASSUME NEW k \in 1..4, stage = Rungs[k], climbed' = [climbed EXCEPT ![Pair] = @ \cup {stage}]
          PROVE  /\ stage \in Stages
                 /\ \A p \in DOMAIN Pairs : p # Pair => climbed'[p] = climbed[p]
                 /\ climbed'[Pair] = UpTo(k, firstFailure)
    <3>1. stage \in Stages
      BY <2>ran, <2>rungs DEF Stages
    <3>2. Pair \in DOMAIN climbed /\ climbed'[Pair] = climbed[Pair] \cup {Rungs[k]}
          /\ \A p \in DOMAIN Pairs : p # Pair => climbed'[p] = climbed[p]
      BY <3>1, <2>ran, <2>pairs DEF Valid
    <3> QED
      BY <3>1, <3>2, <2>ran DEF ClimbedInv
  <2>1. CASE Measure
    <3>1. stage = "S0" /\ UNCHANGED <<decision, climbed>> /\ stage \in Stages
      BY <2>1 DEF Measure, history, Stages
    <3>2. A \in Labels /\ B \in Labels
      BY <3>1, CombineReading DEF Answers, Labels
    <3>3. "S0" \in Stages \cup {"none"} /\ FALSE \in BOOLEAN /\ "none" \in Failures /\ 1 \in 1..4 /\ "S0" # "none"
      BY DEF Stages, Failures
    <3>4. CASE Climb(1, "none", spent)
      <4>1. climbed'[Pair] = {}
        BY <3>1, <2>pairs DEF ClimbedInv
      <4>2. UpTo(1 - 1, "none") = {}
        BY DEF UpTo
      <4> QED
        BY <3>1, <3>3, <3>4, <4>1, <4>2, <2>climb
    <3>5. ASSUME NEW w \in {A, B}, Resolve(w, "S0", FALSE, "none") PROVE ClimbedInv'
      BY <3>1, <3>2, <3>3, <3>5, <2>resolve
    <3> QED
      BY <2>1, <3>4, <3>5 DEF Measure
  <2>2. CASE Read
    <3>1. PICK ab \in Answers, ba \in Answers :
            LET r == Combine(ab, ba)
                rs == Append(readings, r)
            IN  /\ climbed' = [climbed EXCEPT ![Pair] = @ \cup {stage}]
                /\ \/ UNCHANGED <<stage, firstFailure, resolutions>>
                   \/ RungVerdict(r, rs, spent')
      BY <2>2 DEF Read
    <3> DEFINE r == Combine(ab, ba)
               rs == Append(readings, r)
    <3>2. stage \in Judging /\ stage \in Stages /\ r \in Reading /\ UNCHANGED decision
      BY <2>2, CombineReading DEF Read, Judging, Stages
    <3>3. PICK k \in 1..3 : stage = Rungs[k]
      BY <3>2, <2>rungs DEF Judging
    <3>4. /\ \A p \in DOMAIN Pairs : p # Pair => climbed'[p] = climbed[p]
          /\ climbed'[Pair] = UpTo(k, firstFailure)
      BY <3>1, <3>3, <2>ran
    <3>5. CASE UNCHANGED <<stage, firstFailure, resolutions>>
      <4>1. Pair' = Pair /\ \A j \in 1..4 : stage' = Rungs[j] => j = k
        BY <3>3, <3>5, <2>rungs DEF Pair
      <4>2. \A p \in DOMAIN resolutions' :
              resolutions'[p].at = "none" /\ ~resolutions'[p].starved => climbed'[p] = UpTo(4, resolutions'[p].failure)
        BY <3>2, <3>4, <3>5, <2>pairs DEF ClimbedInv
      <4>3. \A p \in DOMAIN Pairs : p > Pair' \/ (p = Pair' /\ stage' = "S0") => climbed'[p] = {}
        <5>1. stage' # "S0"
          BY <3>5, <3>2 DEF Judging
        <5> QED
          BY <5>1, <4>1, <3>2, <3>4, <2>pairs DEF ClimbedInv
      <4>4. \A j \in 1..4 : stage' = Rungs[j] => climbed'[Pair'] \cup {Rungs[j]} = UpTo(j, firstFailure')
        <5>1. climbed'[Pair] \cup {Rungs[k]} = UpTo(k, firstFailure)
          <6>1. climbed[Pair] \cup {Rungs[k]} = UpTo(k, firstFailure)
            BY <3>3 DEF ClimbedInv
          <6> QED
            BY <6>1, <3>4
        <5> QED
          BY <5>1, <4>1, <3>5
      <4>5. decision'.reason # "undecidable"
        BY <2>open, <3>2
      <4> QED
        BY <4>2, <4>3, <4>4, <4>5 DEF ClimbedInv
    <3>6. CASE RungVerdict(r, rs, spent')
      <4>1. r.label \in Labels /\ r.failure \in Failures /\ firstFailure \in Failures
        BY <3>2 DEF Reading, Valid
      <4>2. stage \in Stages \cup {"none"} /\ "S1" \in Stages \cup {"none"} /\ "none" \in Failures /\ FALSE \in BOOLEAN
            /\ 2 \in 1..4 /\ 3 \in 1..4 /\ 4 \in 1..4 /\ stage # "none"
        BY <3>2 DEF Stages, Failures
      <4>3. \A x \in Majority(rs) : (IF x = Tie THEN None ELSE x) \in Labels
        BY DEF Majority, Labels
      <4> HIDE DEF r, rs
      <4>4. CASE Resolve(r.label, "S1", FALSE, "none")
        BY <4>1, <4>2, <4>4, <3>2, <3>4, <2>resolve
      <4>5. CASE \E x \in Majority(rs) : Resolve(IF x = Tie THEN None ELSE x, stage, FALSE, "none")
        <5>1. PICK x \in Majority(rs) : Resolve(IF x = Tie THEN None ELSE x, stage, FALSE, "none")
          BY <4>5
        <5>2. (IF x = Tie THEN None ELSE x) \in Labels
          BY <4>3
        <5> QED
          BY <5>1, <5>2, <4>2, <3>2, <3>4, <2>resolve
      <4>6. CASE stage = "S1" /\ Climb(2, r.failure, spent')
        <5>1. k = 1
          BY <4>6, <3>3, <2>rungs
        <5>2. UpTo(1, firstFailure) = UpTo(2 - 1, r.failure)
          <6>1. Enabled(Rungs[1], firstFailure) /\ Enabled(Rungs[1], r.failure)
            BY <2>rungs DEF Enabled
          <6>2. ASSUME NEW f, Enabled(Rungs[1], f) PROVE {i \in 1..1 : Enabled(Rungs[i], f)} = {1}
            BY <6>2
          <6> QED
            BY <6>1, <6>2 DEF UpTo
        <5> QED
          BY <4>1, <4>2, <4>6, <5>1, <5>2, <3>2, <3>4, <2>climb
      <4>7. CASE stage = "S2" /\ Climb(3, firstFailure, spent')
        <5>1. k = 3 - 1
          BY <4>7, <3>3, <2>rungs
        <5> QED
          BY <4>1, <4>2, <4>7, <5>1, <3>2, <3>4, <2>climb
      <4>8. CASE stage = "S3" /\ Climb(4, firstFailure, spent')
        <5>1. k = 4 - 1
          BY <4>8, <3>3, <2>rungs
        <5> QED
          BY <4>1, <4>2, <4>8, <5>1, <3>2, <3>4, <2>climb
      <4> QED
        BY <3>2, <3>6, <4>4, <4>5, <4>6, <4>7, <4>8, VerdictStep
    <3> HIDE DEF r, rs
    <3> QED
      BY <3>1, <3>5, <3>6 DEF r, rs
  <2>3. CASE AskProbe
    <3>1. stage = "S4" /\ UNCHANGED decision /\ climbed' = [climbed EXCEPT ![Pair] = @ \cup {stage}]
      BY <2>3 DEF AskProbe
    <3>2. /\ stage \in Stages
          /\ \A p \in DOMAIN Pairs : p # Pair => climbed'[p] = climbed[p]
          /\ climbed'[Pair] = UpTo(4, firstFailure)
      BY <3>1, <2>rungs, <2>ran
    <3>3. A \in Labels /\ B \in Labels /\ None \in Labels
      BY <3>2, CombineReading DEF Answers, Labels
    <3>4. "S4" \in Stages \cup {"none"} /\ "none" \in Stages \cup {"none"} /\ FALSE \in BOOLEAN /\ "none" \in Failures
          /\ firstFailure \in Failures /\ "S4" # "none"
      BY DEF Stages, Failures, Valid
    <3>5. \/ \E better \in {A, B, None} : Resolve(better, "S4", FALSE, "none")
          \/ Resolve(None, "none", FALSE, firstFailure)
      BY <2>3 DEF AskProbe
    <3> QED
      BY <3>1, <3>2, <3>3, <3>4, <3>5, <2>resolve
  <2>4. CASE Count
    <3>1. stage' = "done" /\ UNCHANGED <<resolutions, climbed, firstFailure>> /\ stage = "count"
      BY <2>4 DEF Count, history
    <3>2. decision'.reason = "undecidable" =>
            \A p \in DOMAIN resolutions : resolutions[p].at = "none" => ~resolutions[p].starved
      BY <2>4 DEF Count, Decides
    <3> QED
      BY <3>1, <3>2, <2>rungs DEF ClimbedInv, Pair
  <2>5. CASE UNCHANGED vars
    BY <2>5 DEF vars, history, ClimbedInv, Pair
  <2> QED
    BY <2>1, <2>2, <2>3, <2>4, <2>5 DEF Next
<1>3. ClimbedInv => UndecidableMeansExhausted
  BY DEF ClimbedInv, UndecidableMeansExhausted, UpTo
<1> QED
  BY <1>1, <1>2, <1>3, TypeInv, PTL DEF Spec

-----------------------------------------------------------------------------
\* What one reading may cost with every parse retry in both orders.
Full == 2 * (MaxParseRetries + 1)

\* A rung began with room for its price; since then each reading cost at most
\* Full, and a finished rung at most its price and its retries.
SpentInv ==
  /\ OverrunIsOneRung
  /\ stage \in Judging => spent + Price(stage) <= MaxJudgeCalls + Len(readings) * Full
  /\ stage = "S4" => spent + 1 <= MaxJudgeCalls

\* No rung is dearer than the dearest.
LEMMA DearestPrice ==
  /\ Dearest \in Nat
  /\ \A k \in 1..4 : Price(Rungs[k]) \in Nat /\ Price(Rungs[k]) <= Dearest
<1> DEFINE prices == {Price(Rungs[k]) : k \in 1..4}
<1>1. Price(Rungs[1]) \in Nat /\ Price(Rungs[2]) \in Nat /\ Price(Rungs[3]) \in Nat /\ Price(Rungs[4]) \in Nat
  <2>1. Rungs[1] = "S1" /\ Rungs[2] = "S2" /\ Rungs[3] = "S3" /\ Rungs[4] = "S4"
    BY DEF Rungs
  <2>2. Price("S1") = 2 /\ Price("S2") = 2 * SelfConsistencyRounds /\ Price("S3") = 2 * Ensemble /\ Price("S4") = 1
    BY DEF Price, ReadingsOf
  <2> QED
    BY <2>1, <2>2, LadderAssumption
<1>2. prices = {Price(Rungs[1]), Price(Rungs[2]), Price(Rungs[3]), Price(Rungs[4])}
  <2>1. \A k : k \in 1..4 <=> k = 1 \/ k = 2 \/ k = 3 \/ k = 4
    OBVIOUS
  <2> QED
    BY <2>1
<1> HIDE DEF prices
<1>3. ASSUME NEW a \in Nat, NEW b \in Nat, NEW c \in Nat, NEW d \in Nat
      PROVE  \E m \in {a, b, c, d} : \A q \in {a, b, c, d} : q <= m
  <2>1. PICK x \in {a, b} : a <= x /\ b <= x
    OBVIOUS
  <2>2. PICK y \in {c, d} : c <= y /\ d <= y
    OBVIOUS
  <2>3. CASE x <= y
    BY <2>1, <2>2, <2>3
  <2>4. CASE y <= x
    BY <2>1, <2>2, <2>4
  <2> QED
    BY <2>1, <2>2, <2>3, <2>4
<1>4. \E m \in prices : \A q \in prices : q <= m
  BY <1>1, <1>2, <1>3
<1>5. Dearest \in prices /\ \A q \in prices : q <= Dearest
  <2>1. Dearest = CHOOSE m \in prices : \A q \in prices : q <= m
    BY DEF Dearest, prices
  <2> QED
    BY <2>1, <1>4
<1>6. \A k \in 1..4 : Price(Rungs[k]) \in prices
  BY DEF prices
<1> QED
  BY <1>1, <1>2, <1>5, <1>6

\* The retries of a rung, in calls: n readings at the full cost are the price of
\* n readings and as many retries of each call.
LEMMA RungCost ==
  ASSUME NEW m \in Nat, NEW n \in Nat, m <= n
  PROVE  /\ m * Full <= n * Full
         /\ (m + 1) * Full = m * Full + Full
         /\ n * Full = 2 * n + (2 * n) * MaxParseRetries
<1>1. Full \in Nat /\ MaxParseRetries \in Nat
  BY LadderAssumption DEF Full
<1>2. m * Full <= n * Full
  <2>1. n = m + (n - m) /\ (n - m) \in Nat
    OBVIOUS
  <2>2. \A x, y, z \in Nat : (x + y) * z = x * z + y * z /\ y * z \in Nat /\ x * z \in Nat
    OBVIOUS
  <2> QED
    BY <1>1, <2>1, <2>2
<1>3. (m + 1) * Full = m * Full + Full
  BY <1>1
<1>4. n * Full = 2 * n + (2 * n) * MaxParseRetries
  BY <1>1 DEF Full
<1> QED
  BY <1>2, <1>3, <1>4

\* The ceiling on judge calls is overrun by the retries of one rung at most.
THEOREM Overrun == Spec => []OverrunIsOneRung
<1> USE LadderAssumption
<1>bound. /\ MaxJudgeCalls \in Nat /\ MaxParseRetries \in Nat /\ Full \in Nat
          /\ Dearest * MaxParseRetries \in Nat
          /\ \A k \in 1..4 : Price(Rungs[k]) * MaxParseRetries <= Dearest * MaxParseRetries
  <2>1. MaxParseRetries \in Nat /\ Full \in Nat /\ Dearest \in Nat
    BY DearestPrice DEF Full
  <2>2. \A x, y, z \in Nat : x <= y => x * z <= y * z
    <3>1. ASSUME NEW x \in Nat, NEW y \in Nat, NEW z \in Nat, x <= y PROVE x * z <= y * z
      <4>1. y = x + (y - x) /\ (y - x) \in Nat
        BY <3>1
      <4>2. \A u, v, w \in Nat : (u + v) * w = u * w + v * w /\ v * w \in Nat /\ u * w \in Nat
        OBVIOUS
      <4> QED
        BY <4>1, <4>2
    <3> QED
      BY <3>1
  <2>3. \A x, y \in Nat : x * y \in Nat
    OBVIOUS
  <2> QED
    BY <2>1, <2>2, <2>3, DearestPrice
<1>1. Init => SpentInv
  BY <1>bound DEF Init, SpentInv, OverrunIsOneRung, Judging
<1>2. Valid /\ SpentInv /\ [Next]_vars => SpentInv'
  <2> SUFFICES ASSUME Valid, SpentInv, [Next]_vars PROVE SpentInv'
    OBVIOUS
  <2>rungs. /\ Rungs[1] = "S1" /\ Rungs[2] = "S2" /\ Rungs[3] = "S3" /\ Rungs[4] = "S4"
    BY DEF Rungs
  <2>idle. ASSUME stage' \in {"S0", "count", "done"}, OverrunIsOneRung' PROVE SpentInv'
    BY <2>idle DEF SpentInv, Judging
  <2>resolve. ASSUME NEW label, NEW at, NEW starved, NEW failure,
                     Resolve(label, at, starved, failure), OverrunIsOneRung'
              PROVE  SpentInv'
    BY <2>resolve, <2>idle DEF Resolve
  <2>climb. ASSUME NEW n \in 1..4, NEW failure, Climb(n, failure, spent'), readings' = <<>>, spent' \in Nat,
                   OverrunIsOneRung'
            PROVE  SpentInv'
    <3>1. CASE Entered(n, failure, spent')
      <4>1. stage' \in {"S1", "S2", "S3", "S4"} /\ Affords(spent', Price(stage'))
        BY <3>1, EnteredRung
      <4>2. spent' + Price(stage') <= MaxJudgeCalls
        BY <4>1 DEF Affords
      <4>3. Len(readings') = 0 /\ 0 * Full = 0
        BY <2>climb, <1>bound
      <4>4. Price(stage)' = Price(stage')
        BY DEF Price, ReadingsOf
      <4>5. stage' \in Judging => spent' + Price(stage') <= MaxJudgeCalls + Len(readings') * Full
        BY <4>2, <4>3, <1>bound
      <4>6. stage' = "S4" => spent' + 1 <= MaxJudgeCalls
        BY <4>2 DEF Price
      <4> QED
        BY <2>climb, <4>5, <4>6 DEF SpentInv, Full
    <3>2. ASSUME NEW starved, Resolve(None, "none", starved, failure) PROVE SpentInv'
      BY <3>2, <2>climb, <2>resolve
    <3> QED
      BY <2>climb, <3>1, <3>2, ClimbStep
  <2>1. CASE Measure
    <3>1. readings = <<>> /\ UNCHANGED <<readings, spent>> /\ spent \in Nat
      BY <2>1 DEF Measure, Valid, Judging
    <3>2. OverrunIsOneRung'
      BY <3>1 DEF SpentInv, OverrunIsOneRung
    <3>3. CASE Climb(1, "none", spent)
      BY <3>1, <3>2, <3>3, <2>climb
    <3>4. ASSUME NEW w, Resolve(w, "S0", FALSE, "none") PROVE SpentInv'
      BY <3>2, <3>4, <2>resolve
    <3> QED
      BY <2>1, <3>3, <3>4 DEF Measure
  <2>2. CASE Read
    <3>1. PICK ab \in Answers, ba \in Answers :
            LET r == Combine(ab, ba)
                rs == Append(readings, r)
            IN  /\ \E i \in Attempts(ab), j \in Attempts(ba) :
                     spent' = spent + i + (IF ab = "unreadable" THEN 0 ELSE j)
                /\ \/ /\ Len(rs) < ReadingsOf(stage)
                      /\ readings' = rs
                      /\ UNCHANGED <<stage, firstFailure, resolutions>>
                   \/ /\ Len(rs) = ReadingsOf(stage)
                      /\ readings' = <<>>
                      /\ RungVerdict(r, rs, spent')
      BY <2>2 DEF Read
    <3> DEFINE r == Combine(ab, ba)
               rs == Append(readings, r)
               m == Len(readings)
               n == ReadingsOf(stage)
    <3>2. /\ stage \in Judging /\ stage \in Stages /\ r \in Reading /\ readings \in Seq(Reading)
          /\ \E k \in 1..4 : stage = Rungs[k]
      BY <2>2, <2>rungs, CombineReading DEF Read, Judging, Stages, Valid
    <3>3. Len(rs) = m + 1 /\ m \in Nat
      BY <3>2
    <3>4. n \in Nat /\ Price(stage) = 2 * n /\ m < n
      BY <3>2 DEF Price, ReadingsOf, Judging, Valid
    <3>5. spent' \in Nat /\ spent \in Nat /\ spent' <= spent + Full
      <4>1. PICK i \in Attempts(ab), j \in Attempts(ba) : spent' = spent + i + (IF ab = "unreadable" THEN 0 ELSE j)
        BY <3>1
      <4>2. i \in Nat /\ j \in Nat /\ i <= MaxParseRetries + 1 /\ j <= MaxParseRetries + 1
        BY DEF Attempts
      <4> QED
        BY <4>1, <4>2 DEF Valid, Full
    <3>6. spent + 2 * n <= MaxJudgeCalls + m * Full
      BY <3>2, <3>4 DEF SpentInv
    <3>7. (2 * n) * MaxParseRetries <= Dearest * MaxParseRetries
      BY <3>2, <3>4, <1>bound
    <3> HIDE DEF m, n, r
    <3>8. (m + 1) \in Nat /\ m + 1 <= n /\ m <= m
      BY <3>3, <3>4
    <3>9. (m + 1) * Full = m * Full + Full
      BY <3>3, <3>8, RungCost
    <3>10. (m + 1) * Full <= n * Full /\ n * Full = 2 * n + (2 * n) * MaxParseRetries
      BY <3>4, <3>8, RungCost
    <3>11. m * Full \in Nat /\ n * Full \in Nat /\ (2 * n) * MaxParseRetries \in Nat
      <4>1. \A x, y \in Nat : x * y \in Nat
        OBVIOUS
      <4> QED
        BY <4>1, <3>3, <3>4, <1>bound
    <3>12. spent' + 2 * n <= MaxJudgeCalls + (m + 1) * Full
      BY <3>4, <3>5, <3>6, <3>9, <3>11, <1>bound
    <3>13. spent' <= MaxJudgeCalls + Dearest * MaxParseRetries
      <4>1. \A s, a, b, c, d, e \in Nat : s + a <= b + c /\ c <= a + d /\ d <= e => s <= b + e
        OBVIOUS
      <4>2. 2 * n \in Nat /\ (m + 1) * Full \in Nat
        BY <3>4, <3>9, <3>11, <1>bound
      <4>3. (m + 1) * Full <= 2 * n + (2 * n) * MaxParseRetries
        BY <3>10
      <4> QED
        BY <4>1, <4>2, <4>3, <3>5, <3>7, <3>11, <3>12, <1>bound
    <3>14. OverrunIsOneRung'
      BY <3>13 DEF OverrunIsOneRung, Dearest, Price, ReadingsOf
    <3>15. CASE readings' = rs /\ UNCHANGED <<stage, firstFailure, resolutions>>
      <4>1. Len(readings') = m + 1 /\ stage' = stage
        BY <3>3, <3>15
      <4>2. (spent + Price(stage) <= MaxJudgeCalls + Len(readings) * Full)'
            <=> spent' + 2 * n <= MaxJudgeCalls + (m + 1) * Full
        BY <4>1, <3>4 DEF Price, ReadingsOf, Full
      <4>3. stage' # "S4"
        BY <4>1, <3>2 DEF Judging
      <4> QED
        BY <3>12, <3>14, <4>2, <4>3 DEF SpentInv
    <3>16. CASE readings' = <<>> /\ RungVerdict(r, rs, spent')
      <4> HIDE DEF rs
      <4>1. ASSUME NEW label, NEW at, Resolve(label, at, FALSE, "none") PROVE SpentInv'
        BY <4>1, <3>14, <2>resolve
      <4>2. ASSUME NEW k \in 1..4, NEW failure, Climb(k, failure, spent') PROVE SpentInv'
        BY <4>2, <3>5, <3>14, <3>16, <2>climb
      <4>3. 2 \in 1..4 /\ 3 \in 1..4 /\ 4 \in 1..4
        OBVIOUS
      <4> QED
        BY <3>2, <3>16, <4>1, <4>2, <4>3, VerdictStep
    <3> QED
      BY <3>1, <3>15, <3>16 DEF r
  <2>3. CASE AskProbe
    <3>1. stage = "S4" /\ spent' = spent + 1 /\ spent \in Nat
      BY <2>3 DEF AskProbe, Valid
    <3>2. spent' <= MaxJudgeCalls + Dearest * MaxParseRetries
      BY <3>1, <1>bound DEF SpentInv
    <3>3. OverrunIsOneRung'
      BY <3>2 DEF OverrunIsOneRung, Dearest, Price, ReadingsOf
    <3>4. \/ \E better \in {A, B, None} : Resolve(better, "S4", FALSE, "none")
          \/ Resolve(None, "none", FALSE, firstFailure)
      BY <2>3 DEF AskProbe
    <3> QED
      BY <3>3, <3>4, <2>resolve
  <2>4. CASE Count
    <3>1. stage' = "done" /\ UNCHANGED spent
      BY <2>4 DEF Count
    <3>2. OverrunIsOneRung'
      BY <3>1 DEF SpentInv, OverrunIsOneRung
    <3> QED
      BY <3>1, <3>2, <2>idle
  <2>5. CASE UNCHANGED vars
    BY <2>5 DEF vars, SpentInv, OverrunIsOneRung
  <2> QED
    BY <2>1, <2>2, <2>3, <2>4, <2>5 DEF Next
<1>3. SpentInv => OverrunIsOneRung
  BY DEF SpentInv
<1> QED
  BY <1>1, <1>2, <1>3, TypeInv, PTL DEF Spec
=============================================================================
