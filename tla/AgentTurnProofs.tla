--------------------------- MODULE AgentTurnProofs ---------------------------
(***************************************************************************)
(* Proofs about a turn of the agent and about its way back: AgentTurn for  *)
(* any tools, budgets, policies and histories, and any number of turns;    *)
(* Checkpoint for any sets of changes and any bounds.                      *)
(***************************************************************************)
EXTENDS AgentTurn, Checkpoint, WellFoundedInduction, FiniteSetTheorems, SequenceTheorems, TLAPS

\* The counters are numbers, the flags are flags.
CountersInv ==
    /\ steps \in Nat /\ streak \in Nat /\ fruitless \in Nat /\ ranAfterAbort \in Nat /\ replies \in Nat
    /\ protocolRepairs \in Nat /\ claimRepairs \in Nat
    /\ nudged \in BOOLEAN /\ reconciled \in BOOLEAN /\ challenged \in BOOLEAN

\* A call that came to a result: the streak, and what it leads to.
Result(moved) ==
    /\ streak' = (IF moved THEN 0 ELSE streak + 1) /\ fruitless' = (IF moved THEN 0 ELSE fruitless + 1)
    /\ \/ stage' = "idle" /\ challenged' \in {challenged, challenged /\ ~moved}
       \/ /\ stage' \in {"top", "calls"} /\ ~(challenged /\ streak' >= WarnAt + TerminateAfter)
          /\ \/ ~challenged /\ streak' >= WarnAt /\ challenged' = TRUE
             \/ (challenged \/ streak' < WarnAt) /\ challenged' = (challenged /\ ~moved)

\* Steps of the user and of the clock leave the flow of the turn alone.
Aside == UNCHANGED <<control, budget, chances, executed, progress, marks, turns, denied, ranAfterAbort, replies>>

-----------------------------------------------------------------------------
\* What a call that has its result does to the streak.
LEMMA ConcludedResult ==
  ASSUME NEW moved \in BOOLEAN, Concluded(moved)
  PROVE  Result(moved)
BY DEF Concluded, Observed, Result, End

\* What the user, the clock and the store do around the loop.
LEMMA AsideSteps ==
  ASSUME Restore \/ Cancel \/ Expire \/ Timer \/ SetMode \/ RevokeGrants \/ UNCHANGED vars
  PROVE  /\ Aside
         /\ aborted' = "no" => aborted = "no"
         /\ UNCHANGED <<granted, always>> \/ granted' = {}
BY DEF Restore, Cancel, Expire, Timer, SetMode, RevokeGrants, Around, vars, Aside, control, budget, chances,
       progress, signals, approvals, marks

\* The counters are numbers in every reachable state.
THEOREM CountersCorrect == Spec => []CountersInv
<1> USE DEF CountersInv
<1>1. Init => CountersInv
  <2> SUFFICES ASSUME Init PROVE CountersInv
    OBVIOUS
  <2>1. /\ steps = 0 /\ streak = 0 /\ fruitless = 0 /\ ranAfterAbort = 0 /\ replies = 0
        /\ protocolRepairs = 0 /\ claimRepairs = 0
    BY DEF Init
  <2>2. nudged = FALSE /\ reconciled = FALSE /\ challenged = FALSE
    BY DEF Init
  <2> QED
    BY <2>1, <2>2
<1>2. CountersInv /\ [Next]_vars => CountersInv'
  <2> SUFFICES ASSUME CountersInv, [Next]_vars PROVE CountersInv'
    OBVIOUS
  <2>1. CASE Begin
    BY <2>1 DEF Begin
  <2>2. CASE Restore \/ Cancel \/ Expire \/ Timer \/ SetMode \/ RevokeGrants \/ UNCHANGED vars
    BY <2>2, AsideSteps DEF Aside, control, budget, chances, progress, marks
  <2>3. CASE Ask \/ ModelThrows(TRUE) \/ ModelThrows(FALSE) \/ TooLate \/ Unreadable \/ Answer
    <3>1. UNCHANGED <<streak, challenged, fruitless, ranAfterAbort, replies>>
      BY <2>3 DEF Ask, ModelThrows, TooLate, Unreadable, Answer, Spoken, progress
    <3>2. steps' \in {steps, steps + 1}
      BY <2>3 DEF Ask, ModelThrows, TooLate, Unreadable, Answer
    <3>3. protocolRepairs' \in {protocolRepairs, protocolRepairs + 1} /\ claimRepairs' \in {claimRepairs, claimRepairs + 1}
      BY <2>3 DEF Ask, ModelThrows, TooLate, Unreadable, Answer, chances
    <3>4. nudged' \in {nudged, TRUE} /\ reconciled' \in {reconciled, TRUE}
      BY <2>3 DEF Ask, ModelThrows, TooLate, Unreadable, Answer, chances
    <3>5. nudged' \in BOOLEAN /\ reconciled' \in BOOLEAN /\ challenged' \in BOOLEAN
      BY <3>1, <3>4, Zenon
    <3>6. /\ steps' \in Nat /\ streak' \in Nat /\ fruitless' \in Nat /\ ranAfterAbort' \in Nat /\ replies' \in Nat
          /\ protocolRepairs' \in Nat /\ claimRepairs' \in Nat
      BY <3>1, <3>2, <3>3
    <3> QED
      BY <3>5, <3>6
  <2>4. CASE CallTools
    BY <2>4 DEF CallTools, chances, progress
  <2>5. CASE CutShort \/ Decline
    BY <2>5 DEF CutShort, Decline, Untouched, progress, chances
  <2>6. ASSUME NEW moved \in BOOLEAN, Result(moved), UNCHANGED <<steps, ranAfterAbort, replies, chances>>
        PROVE  CountersInv'
    <3>1. streak' \in Nat /\ fruitless' \in Nat
      BY <2>6 DEF Result
    <3>2. challenged' \in BOOLEAN
      BY <2>6, Zenon DEF Result
    <3> QED
      BY <2>6, <3>1, <3>2 DEF chances
  <2>7. CASE Refused
    BY <2>7, <2>6, ConcludedResult DEF Refused
  <2>8. CASE Decide \/ Grant \/ Protect
    <3>1. ranAfterAbort' \in {ranAfterAbort, ranAfterAbort + 1}
      BY <2>8 DEF Decide, Grant, Protect, Start
    <3>2. UNCHANGED <<steps, streak, fruitless, challenged, replies, chances>>
      BY <2>8 DEF Decide, Grant, Protect, progress, budget
    <3> QED
      BY <3>1, <3>2 DEF chances
  <2>9. CASE Execute
    <3>1. UNCHANGED <<steps, chances, ranAfterAbort, replies>>
      BY <2>9 DEF Execute, budget
    <3>2. CASE \E moved \in BOOLEAN : Concluded(moved)
      BY <3>1, <3>2, <2>6, ConcludedResult
    <3>3. CASE \E moved \in BOOLEAN : Observed(moved) /\ challenged' = (challenged /\ ~moved)
      BY <3>1, <3>3 DEF Observed, chances
    <3>4. CASE UNCHANGED progress
      BY <3>1, <3>4 DEF progress, chances
    <3> QED
      BY <2>9, <3>2, <3>3, <3>4 DEF Execute
  <2> QED
    BY <2>1, <2>2, <2>3, <2>4, <2>5, <2>7, <2>8, <2>9 DEF Next, Looping
<1> QED
  BY <1>1, <1>2, PTL DEF Spec

-----------------------------------------------------------------------------
\* While the turn goes on, the streak is what was observed, and is not spent.
StreakInv ==
    /\ fruitless <= WarnAt + TerminateAfter
    /\ stage # "idle" => /\ fruitless = streak /\ streak < WarnAt + TerminateAfter
                         /\ challenged \/ streak < WarnAt

\* A turn makes only so many fruitless actions in a row.
THEOREM Stalls == Spec => []StallsEnd
<1> USE StallAssumption
<1>1. Init => StreakInv
  BY DEF Init, StreakInv
<1>2. CountersInv /\ StreakInv /\ [Next]_vars => StreakInv'
  <2> SUFFICES ASSUME CountersInv, StreakInv, [Next]_vars PROVE StreakInv'
    OBVIOUS
  <2>same. ASSUME UNCHANGED progress, stage # "idle" \/ stage' = "idle" PROVE StreakInv'
    BY <2>same DEF StreakInv, progress
  <2>1. CASE Begin
    BY <2>1 DEF Begin, StreakInv
  <2>2. CASE Restore \/ Cancel \/ Expire \/ Timer \/ SetMode \/ RevokeGrants \/ UNCHANGED vars
    BY <2>2, <2>same, AsideSteps DEF Aside, control
  <2>3. CASE Ask \/ ModelThrows(TRUE) \/ ModelThrows(FALSE) \/ TooLate \/ Unreadable \/ Answer
    BY <2>3, <2>same DEF Ask, ModelThrows, TooLate, Unreadable, Answer, Spoken, Replying
  <2>4. CASE CallTools \/ CutShort \/ Decline \/ Decide \/ Grant \/ Protect
    BY <2>4, <2>same DEF CallTools, CutShort, Decline, Decide, Grant, Protect, Counted, Replying
  <2>5. ASSUME NEW moved \in BOOLEAN, Concluded(moved), stage # "idle" PROVE StreakInv'
    <3> DEFINE limit == WarnAt + TerminateAfter
    <3>1. /\ streak \in Nat /\ fruitless = streak /\ streak < limit /\ (challenged \/ streak < WarnAt)
          /\ limit \in Nat /\ WarnAt < limit /\ 0 < WarnAt
      BY <2>5 DEF StreakInv, CountersInv
    <3>2. Result(moved)
      BY <2>5, ConcludedResult
    <3>3. streak' \in Nat /\ fruitless' = streak' /\ streak' <= limit /\ (moved => streak' = 0)
          /\ (~challenged => streak' <= WarnAt)
      BY <3>1, <3>2 DEF Result
    <3> HIDE DEF limit
    <3>4. stage' # "idle" => streak' < limit /\ (challenged' \/ streak' < WarnAt)
      <4> SUFFICES ASSUME stage' # "idle" PROVE streak' < limit /\ (challenged' \/ streak' < WarnAt)
        OBVIOUS
      <4>1. ~(challenged /\ streak' >= limit)
            /\ \/ ~challenged /\ streak' >= WarnAt /\ challenged' = TRUE
               \/ (challenged \/ streak' < WarnAt) /\ challenged' = (challenged /\ ~moved)
        BY <3>2 DEF Result, limit
      <4>2. CASE ~challenged /\ streak' >= WarnAt /\ challenged' = TRUE
        BY <4>2, <3>1, <3>3
      <4>3. CASE (challenged \/ streak' < WarnAt) /\ challenged' = (challenged /\ ~moved)
        <5>1. CASE streak' < WarnAt
          BY <5>1, <3>1, <3>3
        <5>2. CASE ~(streak' < WarnAt)
          <6>1. challenged /\ ~moved
            BY <5>2, <4>3, <3>1, <3>3
          <6>2. challenged'
            BY <6>1, <4>3
          <6> QED
            BY <6>1, <6>2, <4>1, <3>1, <3>3
        <5> QED
          BY <5>1, <5>2
      <4> QED
        BY <4>1, <4>2, <4>3
    <3> QED
      BY <3>3, <3>4 DEF StreakInv, limit
  <2>6. CASE Refused
    BY <2>6, <2>5 DEF Refused, Counted
  <2>7. CASE Execute
    <3>1. stage = "running"
      BY <2>7 DEF Execute
    <3>2. CASE \E moved \in BOOLEAN : Concluded(moved)
      BY <3>1, <3>2, <2>5
    <3>3. CASE \E moved \in BOOLEAN : Observed(moved) /\ stage' = "idle"
      BY <3>1, <3>3 DEF Observed, StreakInv, CountersInv
    <3>4. CASE UNCHANGED progress
      BY <3>1, <3>4, <2>same
    <3> QED
      BY <2>7, <3>2, <3>3, <3>4 DEF Execute, End
  <2> QED
    BY <2>1, <2>2, <2>3, <2>4, <2>6, <2>7 DEF Next, Looping
<1>3. StreakInv => StallsEnd
  BY DEF StreakInv, StallsEnd
<1> QED
  BY <1>1, <1>2, <1>3, CountersCorrect, PTL DEF Spec

-----------------------------------------------------------------------------
\* Before the tool of a cancelled turn starts, none has.
AbortInv ==
    /\ aborted = "no" => ranAfterAbort = 0
    /\ stage \in {"model", "asking", "protecting"} => ranAfterAbort = 0
    /\ ranAfterAbort \in {0, 1}

\* A cancelled turn starts at most one more tool.
THEOREM AbortStops == Spec => []OneAfterAbort
<1>1. Init => AbortInv
  BY DEF Init, AbortInv
<1>2. AbortInv /\ [Next]_vars => AbortInv'
  <2> SUFFICES ASSUME AbortInv, [Next]_vars PROVE AbortInv'
    OBVIOUS
  <2>same. ASSUME UNCHANGED ranAfterAbort, aborted' = "no" => aborted = "no",
                  stage' \notin {"model", "asking", "protecting"} \/ ranAfterAbort = 0
           PROVE  AbortInv'
    BY <2>same DEF AbortInv
  <2>1. CASE Begin
    BY <2>1 DEF Begin, AbortInv
  <2>2. CASE Restore \/ Cancel \/ Expire \/ Timer \/ SetMode \/ RevokeGrants \/ UNCHANGED vars
    BY <2>2, AsideSteps DEF Aside, control, AbortInv
  <2>3. CASE Ask
    <3>1. UNCHANGED <<ranAfterAbort, aborted>> /\ (stage' = "idle" \/ aborted = "no")
      BY <2>3 DEF Ask, Spoken, End, signals
    <3> QED
      BY <3>1, <2>same DEF AbortInv
  <2>4. CASE ModelThrows(TRUE) \/ ModelThrows(FALSE) \/ TooLate \/ Unreadable \/ Answer
    <3>1. UNCHANGED <<ranAfterAbort, aborted>> /\ stage' \in {"idle", "top"}
      BY <2>4 DEF ModelThrows, TooLate, Unreadable, Answer, AskAgain, Spoken, End, signals
    <3> QED
      BY <3>1, <2>same
  <2>5. CASE CallTools \/ CutShort \/ Decline
    <3>1. UNCHANGED <<ranAfterAbort, aborted>> /\ stage' \in {"idle", "calls"}
      BY <2>5 DEF CallTools, CutShort, Decline, End, signals
    <3> QED
      BY <3>1, <2>same
  <2>6. ASSUME NEW moved \in BOOLEAN, Concluded(moved) PROVE UNCHANGED aborted /\ stage' \in {"idle", "top", "calls"}
    BY <2>6 DEF Concluded, End, signals
  <2>7. CASE Refused
    BY <2>7, <2>6, <2>same DEF Refused
  <2>8. ASSUME NEW t, Start(t), ranAfterAbort = 0, UNCHANGED aborted PROVE AbortInv'
    <3>1. CASE Risk[t] = 0
      BY <2>8, <3>1 DEF Start, AbortInv
    <3>2. CASE Risk[t] # 0
      BY <2>8, <3>2 DEF Start, AbortInv
    <3> QED
      BY <3>1, <3>2
  <2>9. CASE Decide
    <3>1. aborted = "no" /\ ranAfterAbort = 0 /\ UNCHANGED aborted
      BY <2>9 DEF Decide, Counted, Watched, AbortInv, signals
    <3>2. Start(tool) \/ UNCHANGED ranAfterAbort
      BY <2>9 DEF Decide
    <3> QED
      BY <3>1, <3>2, <2>8, <2>same
  <2>10. CASE Grant
    BY <2>10, <2>8 DEF Grant, AbortInv, signals
  <2>11. CASE Protect
    <3>1. ranAfterAbort = 0 /\ UNCHANGED aborted
      BY <2>11 DEF Protect, AbortInv, End, signals
    <3>2. CASE stage' = "running"
      BY <2>11, <3>1, <3>2 DEF Protect, AbortInv, End
    <3>3. CASE End(Thrown) /\ UNCHANGED ranAfterAbort
      BY <3>1, <3>3, <2>same DEF End
    <3> QED
      BY <2>11, <3>2, <3>3 DEF Protect
  <2>12. CASE Execute
    <3>1. UNCHANGED ranAfterAbort
      BY <2>12 DEF Execute
    <3>2. UNCHANGED aborted /\ stage' \in {"idle", "top", "calls"}
      BY <2>12, <2>6 DEF Execute, End, signals
    <3> QED
      BY <3>1, <3>2, <2>same
  <2> QED
    BY <2>1, <2>2, <2>3, <2>4, <2>5, <2>7, <2>9, <2>10, <2>11, <2>12 DEF Next, Looping
<1>3. AbortInv => OneAfterAbort
  BY DEF AbortInv, OneAfterAbort
<1> QED
  BY <1>1, <1>2, <1>3, PTL DEF Spec

-----------------------------------------------------------------------------
\* Every standing grant was given under the policy of the moment.
GrantInv == granted \subseteq always

\* A call runs without a question only under the policy of the moment, or
\* for a tool the user said "always" to under it.
THEOREM Asked == Spec => NothingUnasked
<1>1. Init => GrantInv
  BY DEF Init, GrantInv
<1>2. GrantInv /\ [Next]_vars => GrantInv'
  <2> SUFFICES ASSUME GrantInv, [Next]_vars PROVE GrantInv'
    OBVIOUS
  <2> USE DEF GrantInv
  <2>same. ASSUME \/ UNCHANGED approvals
                  \/ granted' = Left(granted) /\ always' = Left(always)
           PROVE  GrantInv'
    BY <2>same DEF approvals, Left
  <2>1. CASE Begin
    BY <2>1, <2>same DEF Begin
  <2>2. CASE Restore \/ Cancel \/ Expire \/ Timer \/ SetMode \/ RevokeGrants \/ UNCHANGED vars
    BY <2>2, AsideSteps
  <2>3. CASE Ask \/ ModelThrows(TRUE) \/ ModelThrows(FALSE) \/ TooLate \/ Unreadable \/ Answer \/ CallTools
    BY <2>3, <2>same DEF Ask, ModelThrows, TooLate, Unreadable, Answer, AskAgain, CallTools, End
  <2>4. CASE CutShort \/ Decline \/ Decide \/ Protect
    BY <2>4, <2>same DEF CutShort, Decline, Decide, Protect, End
  <2>5. ASSUME NEW moved \in BOOLEAN, Concluded(moved) PROVE GrantInv'
    BY <2>5, <2>same DEF Concluded, End
  <2>6. CASE Refused \/ Execute
    BY <2>6, <2>5, <2>same DEF Refused, Execute, End
  <2>7. CASE Grant
    BY <2>7 DEF Grant
  <2> QED
    BY <2>1, <2>2, <2>3, <2>4, <2>6, <2>7 DEF Next, Looping
<1>3. GrantInv /\ [Next]_vars =>
        [stage = "calls" /\ stage' \in {"protecting", "running"} => Automatic(tool) \/ tool \in always]_vars
  <2> SUFFICES ASSUME GrantInv, Next, stage = "calls", stage' \in {"protecting", "running"}
               PROVE  Automatic(tool) \/ tool \in always
    OBVIOUS
  <2>1. Decide
    <3>1. ~(Restore \/ Cancel \/ Expire \/ Timer \/ SetMode \/ RevokeGrants)
      BY AsideSteps DEF Aside, control
    <3>2. ~(Begin \/ Ask \/ ModelThrows(TRUE) \/ ModelThrows(FALSE) \/ TooLate \/ Unreadable \/ Answer
            \/ CallTools \/ Grant \/ Decline \/ Protect \/ Execute)
      BY DEF Begin, Ask, ModelThrows, TooLate, Unreadable, Answer, CallTools, Replying, Grant, Decline, Protect, Execute
    <3>3. ~(CutShort \/ Refused)
      BY DEF CutShort, Refused, Concluded, End
    <3> QED
      BY <3>1, <3>2, <3>3 DEF Next, Looping
  <2>2. Automatic(tool) \/ Standing(tool)
    BY <2>1 DEF Decide
  <2> QED
    BY <2>2 DEF Standing, GrantInv
<1> QED
  BY <1>1, <1>2, <1>3, PTL DEF Spec, NothingUnasked

-----------------------------------------------------------------------------
\* After the user's "no" nothing more happens in the turn.
THEOREM Denied == Spec => []NothingAfterDenial
<1> USE DEF NothingAfterDenial
<1>1. Init => NothingAfterDenial
  BY DEF Init
<1>2. NothingAfterDenial /\ [Next]_vars => NothingAfterDenial'
  <2> SUFFICES ASSUME NothingAfterDenial, [Next]_vars PROVE NothingAfterDenial'
    OBVIOUS
  <2>1. CASE Restore \/ Cancel \/ Expire \/ Timer \/ SetMode \/ RevokeGrants \/ UNCHANGED vars
    BY <2>1, AsideSteps DEF Aside, control
  <2>2. CASE Begin \/ Decline
    BY <2>2 DEF Begin, Decline, End
  <2>3. CASE Ask \/ ModelThrows(TRUE) \/ ModelThrows(FALSE) \/ TooLate \/ Unreadable \/ Answer \/ CallTools
    BY <2>3 DEF Ask, ModelThrows, TooLate, Unreadable, Answer, CallTools, Spoken, Replying
  <2>4. CASE CutShort \/ Refused \/ Decide \/ Grant \/ Protect \/ Execute
    BY <2>4 DEF CutShort, Refused, Decide, Grant, Protect, Execute, Counted
  <2> QED
    BY <2>1, <2>2, <2>3, <2>4 DEF Next, Looping
<1> QED
  BY <1>1, <1>2, PTL DEF Spec

-----------------------------------------------------------------------------
\* Every model call but the one under way was paid for.
PaidInv ==
    /\ steps <= replies + Spent + 1
    /\ stage \notin {"idle", "model"} => steps <= replies + Spent

\* A turn that talks without acting is short.
THEOREM Talk == Spec => []TalkIsBounded
<1>1. Init => PaidInv
  BY DEF Init, PaidInv, Spent, Had
<1>2. CountersInv /\ PaidInv /\ [Next]_vars => PaidInv'
  <2> SUFFICES ASSUME CountersInv, PaidInv, [Next]_vars PROVE PaidInv'
    OBVIOUS
  <2>ty. steps \in Nat /\ replies \in Nat /\ Spent \in Nat
    BY DEF CountersInv, Spent, Had
  <2>same. ASSUME UNCHANGED <<steps, replies, chances>>, stage' = "idle" \/ stage \notin {"idle", "model"} \/ UNCHANGED stage
           PROVE  PaidInv'
    BY <2>same DEF PaidInv, Spent, Had, chances
  <2>1. CASE Begin
    BY <2>1 DEF Begin, PaidInv, Spent, Had
  <2>2. CASE Restore \/ Cancel \/ Expire \/ Timer \/ SetMode \/ RevokeGrants \/ UNCHANGED vars
    BY <2>2, <2>same, AsideSteps DEF Aside, control, budget
  <2>3. CASE Ask
    <3>1. UNCHANGED <<replies, chances>> /\ stage = "top"
          /\ \/ stage' = "idle" /\ steps' = steps
             \/ stage' = "model" /\ steps' = steps + 1
      BY <2>3 DEF Ask, End
    <3>2. Spent' = Spent
      BY <3>1 DEF chances, Spent, Had
    <3> QED
      BY <3>1, <3>2, <2>ty DEF PaidInv
  <2>4. CASE ModelThrows(TRUE) \/ ModelThrows(FALSE) \/ TooLate
    BY <2>4, <2>same DEF ModelThrows, TooLate, End
  <2>5. CASE Unreadable \/ Answer
    <3>1. UNCHANGED <<steps, replies>>
      BY <2>5 DEF Unreadable, Answer
    <3>2. \/ stage' = "idle" /\ UNCHANGED chances
          \/ Spent' = Spent + 1
      <4>1. CASE Unreadable
        <5>1. UNCHANGED <<nudged, reconciled, claimRepairs>>
              /\ \/ protocolRepairs' = protocolRepairs + 1
                 \/ stage' = "idle" /\ UNCHANGED protocolRepairs
          BY <4>1 DEF Unreadable, End
        <5> QED
          BY <5>1 DEF Spent, Had, CountersInv, chances
      <4>2. CASE Answer
        <5>1. UNCHANGED protocolRepairs
              /\ \/ ~nudged /\ nudged' = TRUE /\ UNCHANGED <<reconciled, claimRepairs>>
                 \/ ~reconciled /\ reconciled' = TRUE /\ UNCHANGED <<nudged, claimRepairs>>
                 \/ claimRepairs' = claimRepairs + 1 /\ UNCHANGED <<nudged, reconciled>>
                 \/ stage' = "idle" /\ UNCHANGED <<nudged, reconciled, claimRepairs>>
          BY <4>2 DEF Answer, Announces, End
        <5> QED
          BY <5>1 DEF Spent, Had, CountersInv, chances
      <4> QED
        BY <2>5, <4>1, <4>2
    <3>3. CASE stage' = "idle" /\ UNCHANGED chances
      BY <3>1, <3>3, <2>same
    <3>4. CASE Spent' = Spent + 1
      BY <3>1, <3>4, <2>ty DEF PaidInv
    <3> QED
      BY <3>2, <3>3, <3>4
  <2>6. CASE CallTools
    <3>1. replies' = replies + 1 /\ UNCHANGED <<steps, chances>>
      BY <2>6 DEF CallTools
    <3>2. Spent' = Spent
      BY <3>1 DEF chances, Spent, Had
    <3> QED
      BY <3>1, <3>2, <2>ty DEF PaidInv
  <2>7. CASE CutShort \/ Decline \/ Refused \/ Decide \/ Grant \/ Protect \/ Execute
    <3>1. UNCHANGED <<steps, replies, chances>>
      BY <2>7 DEF CutShort, Decline, Refused, Decide, Grant, Protect, Execute, Untouched, budget
    <3>2. stage \notin {"idle", "model"}
      BY <2>7 DEF CutShort, Decline, Refused, Decide, Grant, Protect, Execute, Counted
    <3> QED
      BY <3>1, <3>2, <2>same
  <2> QED
    BY <2>1, <2>2, <2>3, <2>4, <2>5, <2>6, <2>7 DEF Next, Looping
<1>3. PaidInv => TalkIsBounded
  BY DEF PaidInv, TalkIsBounded
<1> QED
  BY <1>1, <1>2, <1>3, CountersCorrect, PTL DEF Spec

-----------------------------------------------------------------------------
(* Induction over data: in terms of sets, for operators cannot be passed. *)

\* Of the numbers of a set one is the least: intervals are well-ordered.
LEMMA Least ==
  ASSUME NEW T, T \subseteq Nat, T # {}
  PROVE  \E n \in T : \A m \in T : n <= m
<1> DEFINE U == {1..n : n \in T}
<1>1. ASSUME NEW n \in T PROVE 1..n \in FiniteSubsetsOf(Nat)
  <2>1. IsFiniteSet(1..n)
    BY FS_Interval
  <2> QED
    BY <2>1 DEF FiniteSubsetsOf
<1>2. U \subseteq FiniteSubsetsOf(Nat) /\ U # {}
  BY <1>1
<1>3. PICK x \in U : \A y \in U : ~(<<y, x>> \in StrictSubsetOrdering(Nat))
  BY <1>2, FS_StrictSubsetOrderingWellFounded, WFMin
<1>4. PICK n \in T : x = 1..n
  BY <1>3
<1>5. ASSUME NEW m \in T, m < n PROVE FALSE
  <2>1. 1..m \in U /\ 1..m \in SUBSET Nat /\ 1..n \in SUBSET Nat
    OBVIOUS
  <2>2. 1..m \subseteq 1..n /\ n \in 1..n /\ n \notin 1..m
    BY <1>5
  <2> QED
    BY <1>3, <1>4, <2>1, <2>2 DEF StrictSubsetOrdering
<1> QED
  BY <1>5

\* A set that holds 0, and with each number up to n but the last the next one, holds all of them.
LEMMA Induction ==
  ASSUME NEW n \in Nat, NEW P, 0 \in P, \A m \in 0..(n - 1) : m \in P => m + 1 \in P
  PROVE  \A m \in 0..n : m \in P
<1> DEFINE T == (0..n) \ P
<1> SUFFICES ASSUME T # {} PROVE FALSE
  OBVIOUS
<1>0. T \subseteq Nat
  OBVIOUS
<1>1. PICK m \in T : \A k \in T : m <= k
  <2> HIDE DEF T
  <2> QED
    BY <1>0, Least
<1>2. m - 1 \in 0..(n - 1) /\ m - 1 \notin T
  BY <1>1
<1> QED
  BY <1>2

\* A function of what it is one step before.
Steps(f, n, v, G) == DOMAIN f = 0..n /\ f[0] = v /\ \A i \in 1..n : f[i] = G[<<i, f[i - 1]>>]

\* There is one.
LEMMA Recursion ==
  ASSUME NEW n \in Nat, NEW v, NEW G
  PROVE  \E f : f = [i \in 0..n |-> f[i]] /\ Steps(f, n, v, G)
<1> DEFINE P == {m \in 0..n : \E f : f = [i \in 0..m |-> f[i]] /\ Steps(f, m, v, G)}
<1>1. 0 \in P
  <2> DEFINE f == [i \in 0..0 |-> v]
  <2>1. f = [i \in 0..0 |-> f[i]] /\ Steps(f, 0, v, G)
    BY DEF Steps
  <2> HIDE DEF f
  <2> QED
    BY <2>1
<1>2. ASSUME NEW m \in 0..(n - 1), m \in P PROVE m + 1 \in P
  <2>1. PICK f : f = [i \in 0..m |-> f[i]] /\ Steps(f, m, v, G)
    BY <1>2
  <2> DEFINE g == [i \in 0..(m + 1) |-> IF i = m + 1 THEN G[<<m + 1, f[m]>>] ELSE f[i]]
  <2>2. g[0] = v /\ g[m + 1] = G[<<m + 1, g[m]>>] /\ \A i \in 0..m : g[i] = f[i]
    BY <2>1 DEF Steps
  <2>3. DOMAIN g = 0..(m + 1) /\ g = [i \in 0..(m + 1) |-> g[i]]
    OBVIOUS
  <2> HIDE DEF g
  <2>4. ASSUME NEW i \in 1..m PROVE g[i] = G[<<i, g[i - 1]>>]
    <3>1. i \in 0..m /\ i - 1 \in 0..m
      OBVIOUS
    <3>2. g[i] = f[i] /\ g[i - 1] = f[i - 1]
      BY <2>2, <3>1
    <3> QED
      BY <2>1, <3>2 DEF Steps
  <2>5. \A i \in 1..(m + 1) : i \in 1..m \/ (i = m + 1 /\ i - 1 = m)
    OBVIOUS
  <2>6. \A i \in 1..(m + 1) : g[i] = G[<<i, g[i - 1]>>]
    BY <2>2, <2>4, <2>5
  <2>7. Steps(g, m + 1, v, G)
    BY <2>2, <2>3, <2>6 DEF Steps
  <2> QED
    BY <2>3, <2>7
<1> HIDE DEF P
<1>3. n \in P
  BY <1>1, <1>2, Induction
<1> QED
  BY <1>3 DEF P

\* It stays in a set that its steps do not leave.
LEMMA RecursionStays ==
  ASSUME NEW n \in Nat, NEW v, NEW G, NEW f, Steps(f, n, v, G),
         NEW V, v \in V, \A i \in 1..n, w \in V : G[<<i, w>>] \in V
  PROVE  \A i \in 0..n : f[i] \in V
<1> DEFINE P == {i \in 0..n : f[i] \in V}
<1>1. 0 \in P
  BY DEF Steps
<1>2. ASSUME NEW m \in 0..(n - 1), m \in P PROVE m + 1 \in P
  <2>1. m + 1 \in 1..n /\ (m + 1) - 1 = m /\ m + 1 \in 0..n
    BY <1>2
  <2>2. f[m + 1] = G[<<m + 1, f[m]>>]
    BY <2>1 DEF Steps
  <2> QED
    BY <1>2, <2>1, <2>2
<1> HIDE DEF P
<1>3. \A m \in 0..n : m \in P
  BY <1>1, <1>2, Induction
<1> QED
  BY <1>3 DEF P

\* What FlattenSeq defines by recursion is there, and of the kind of its parts.
LEMMA FlattenIsSeq ==
  ASSUME NEW S, NEW ss \in Seq(Seq(S))
  PROVE  FlattenSeq(ss) \in Seq(S)
<1>0. CASE Len(ss) = 0
  <2>1. FlattenSeq(ss) = ss /\ ss = <<>>
    BY <1>0, EmptySeq DEF FlattenSeq
  <2> QED
    BY <2>1
<1> SUFFICES ASSUME Len(ss) # 0 PROVE FlattenSeq(ss) \in Seq(S)
  BY <1>0
<1> DEFINE n == Len(ss)
           Of(f) == [i \in 1..n |-> IF i = 1 THEN ss[i] ELSE f[i - 1] \o ss[i]]
           flat == CHOOSE f : f = Of(f)
           G == [p \in (1..(n - 1)) \X Seq(S) |-> p[2] \o ss[p[1] + 1]]
<1>1. n \in Nat /\ n # 0 /\ \A i \in 1..n : ss[i] \in Seq(S)
  BY LenProperties, ElementOfSeq
<1>2. FlattenSeq(ss) = flat[n]
  BY <1>1 DEF FlattenSeq
<1>3. ASSUME NEW i \in 1..(n - 1), NEW w \in Seq(S)
      PROVE  G[<<i, w>>] = w \o ss[i + 1] /\ G[<<i, w>>] \in Seq(S)
  <2>1. i + 1 \in 1..n
    BY <1>1
  <2>2. w \o ss[i + 1] \in Seq(S)
    BY <1>1, <2>1, ConcatProperties
  <2> QED
    BY <2>2
<1> HIDE DEF G, n
<1>4. ss[1] \in Seq(S) /\ n - 1 \in Nat
  BY <1>1
<1>5. PICK g : g = [i \in 0..(n - 1) |-> g[i]] /\ Steps(g, n - 1, ss[1], G)
  BY <1>4, Recursion
<1>6. \A i \in 0..(n - 1) : g[i] \in Seq(S)
  BY <1>3, <1>4, <1>5, RecursionStays
<1> DEFINE h == [i \in 1..n |-> g[i - 1]]
<1>7. h = Of(h)
  <2>1. ASSUME NEW i \in 1..n PROVE Of(h)[i] = g[i - 1]
    <3>1. CASE i = 1
      BY <1>5, <3>1 DEF Steps
    <3>2. CASE i # 1
      <4>1. i - 1 \in 1..(n - 1) /\ i - 1 \in 1..n /\ (i - 1) - 1 \in 0..(n - 1) /\ (i - 1) + 1 = i
        BY <1>1, <3>2
      <4>2. g[i - 1] = G[<<i - 1, g[(i - 1) - 1]>>]
        BY <1>5, <4>1 DEF Steps
      <4>3. g[i - 1] = g[(i - 1) - 1] \o ss[i]
        BY <1>3, <1>6, <4>1, <4>2
      <4>4. h[i - 1] = g[(i - 1) - 1]
        BY <4>1
      <4> HIDE DEF h
      <4> QED
        BY <3>2, <4>3, <4>4
    <3> QED
      BY <3>1, <3>2
  <2> QED
    BY <2>1
<1>8. flat = Of(flat)
  <2> HIDE DEF Of, h
  <2> QED
    BY <1>7
<1> HIDE DEF flat, h
<1>9. flat[1] = ss[1] /\ \A i \in 1..(n - 1) : flat[i + 1] = flat[i] \o ss[i + 1]
  <2>1. 1 \in 1..n /\ \A i \in 1..(n - 1) : i + 1 \in 1..n /\ i + 1 # 1 /\ (i + 1) - 1 = i
    BY <1>1
  <2> QED
    BY <1>8, <2>1
<1>10. flat \in [1..n -> Seq(S)]
  <2> DEFINE P == {i \in 0..(n - 1) : flat[i + 1] \in Seq(S)}
  <2>1. 0 \in P
    <3>1. 0 + 1 = 1 /\ 0 \in 0..(n - 1)
      BY <1>1
    <3> QED
      BY <1>4, <1>9, <3>1
  <2>2. ASSUME NEW m \in 0..((n - 1) - 1), m \in P PROVE m + 1 \in P
    <3>1. m + 1 \in 1..(n - 1) /\ (m + 1) + 1 \in 1..n /\ m + 1 \in 0..(n - 1)
      BY <1>1, <2>2
    <3>2. flat[m + 1] \in Seq(S) /\ ss[(m + 1) + 1] \in Seq(S)
      BY <1>1, <2>2, <3>1
    <3>3. flat[(m + 1) + 1] \in Seq(S)
      BY <1>9, <3>1, <3>2, ConcatProperties
    <3> QED
      BY <3>1, <3>3
  <2> HIDE DEF P
  <2>3. \A m \in 0..(n - 1) : m \in P
    BY <1>4, <2>1, <2>2, Induction
  <2>4. ASSUME NEW i \in 1..n PROVE flat[i] \in Seq(S)
    <3>1. i - 1 \in 0..(n - 1) /\ (i - 1) + 1 = i
      BY <1>1
    <3> QED
      BY <2>3, <3>1 DEF P
  <2> QED
    BY <1>8, <2>4
<1> QED
  BY <1>1, <1>2, <1>10

-----------------------------------------------------------------------------
(* The messages and the calls among them that have no result. *)

\* A repaired chain is a chain of messages.
LEMMA RepairedIsSeq ==
  ASSUME NEW said \in Seq(Message)
  PROVE  Repaired(said) \in Seq(Message)
<1> DEFINE lacks(k, i) == LET id == said[k].calls[i]
                          IN  /\ id \in Dangling(said)
                              /\ \A j \in Replies(said) : j < k => id \notin Range(said[j].calls)
                              /\ \A j \in 1..(i - 1) : said[k].calls[j] # id
           results(k) == [i \in DOMAIN said[k].calls |->
                             IF lacks(k, i) THEN <<ResultOf(said[k].calls[i])>> ELSE <<>>]
           piece(k) == IF k \in Replies(said) THEN <<said[k]>> \o FlattenSeq(results(k)) ELSE <<said[k]>>
<1>1. ASSUME NEW k \in DOMAIN said PROVE piece(k) \in Seq(Message)
  <2>1. said[k] \in Message /\ said[k].calls \in Seq(Nat)
    <3>1. said[k] \in Message
      BY <1>1, LenProperties, ElementOfSeq
    <3> QED
      BY <3>1 DEF Message
  <2> HIDE DEF lacks
  <2>2. results(k) \in Seq(Seq(Message))
    <3>1. PICK n \in Nat : DOMAIN said[k].calls = 1..n
      BY <2>1, LenProperties
    <3>2. ASSUME NEW i \in 1..n PROVE results(k)[i] \in Seq(Message)
      <4>1. said[k].calls[i] \in Nat
        BY <2>1, <3>1, ElementOfSeq, LenProperties
      <4>2. ResultOf(said[k].calls[i]) \in Message
        BY <4>1 DEF ResultOf, Message
      <4> QED
        BY <3>1, <4>2
    <3> QED
      BY <3>1, <3>2
  <2> HIDE DEF results
  <2>3. FlattenSeq(results(k)) \in Seq(Message)
    BY <2>2, FlattenIsSeq
  <2>4. <<said[k]>> \in Seq(Message)
    BY <2>1
  <2> QED
    BY <2>3, <2>4, ConcatProperties
<1>2. Repaired(said) = FlattenSeq([k \in DOMAIN said |-> piece(k)])
  BY DEF Repaired
<1> HIDE DEF piece
<1>3. [k \in DOMAIN said |-> piece(k)] \in Seq(Seq(Message))
  <2>1. PICK n \in Nat : DOMAIN said = 1..n
    BY LenProperties
  <2> QED
    BY <1>1, <2>1
<1> QED
  BY <1>2, <1>3, FlattenIsSeq

\* What the messages after the first d ask for that no message after them answers.
Calls(said, d) == UNION {Range(said[k].calls) : k \in {j \in (d + 1)..Len(said) : said[j].role = "assistant"}}
Answers(said, d) == {said[k].calls[1] : k \in {j \in (d + 1)..Len(said) : said[j].role = "tool"}}
Unanswered(said, d) == Calls(said, d) \ Answers(said, d)

\* It is what lacks a result in what they make by themselves.
LEMMA DanglingOfRest ==
  ASSUME NEW said \in Seq(Message), NEW d \in 0..Len(said)
  PROVE  Dangling(SubSeq(said, d + 1, Len(said))) = Unanswered(said, d)
<1> DEFINE n == Len(said)
           rest == SubSeq(said, d + 1, n)
<1>1. n \in Nat /\ DOMAIN rest = 1..(n - d) /\ \A k \in 1..(n - d) : rest[k] = said[d + k]
  BY LenProperties
<1>2. /\ \A k \in 1..(n - d) : d + k \in (d + 1)..n
      /\ \A j \in (d + 1)..n : j - d \in 1..(n - d) /\ d + (j - d) = j
  BY <1>1
<1> HIDE DEF rest, n
<1>3. \A x : (\E m \in Range(rest) : m.role = "tool" /\ x = m.calls[1]) <=> x \in Answers(said, d)
  <2>1. ASSUME NEW j \in 1..(n - d), rest[j].role = "tool" PROVE rest[j].calls[1] \in Answers(said, d)
    BY <1>1, <1>2, <2>1 DEF Answers, n
  <2>2. ASSUME NEW j \in (d + 1)..n, said[j].role = "tool"
        PROVE  \E m \in Range(rest) : m.role = "tool" /\ said[j].calls[1] = m.calls[1]
    <3>1. rest[j - d] = said[j] /\ rest[j - d] \in Range(rest)
      BY <1>1, <1>2 DEF Range
    <3> QED
      BY <2>2, <3>1
  <2>3. ASSUME NEW m \in Range(rest), m.role = "tool" PROVE m.calls[1] \in Answers(said, d)
    <3>1. PICK j \in 1..(n - d) : m = rest[j]
      BY <1>1 DEF Range
    <3> QED
      BY <2>1, <2>3, <3>1
  <2>4. ASSUME NEW x \in Answers(said, d)
        PROVE  \E j \in (d + 1)..n : said[j].role = "tool" /\ x = said[j].calls[1]
    BY <2>4 DEF Answers, n
  <2> QED
    BY <2>2, <2>3, <2>4
<1>4. \A x : (\E k \in Replies(rest) : x \in Range(rest[k].calls)) <=> x \in Calls(said, d)
  <2>1. ASSUME NEW j \in 1..(n - d), rest[j].role = "assistant", NEW x \in Range(rest[j].calls)
        PROVE  x \in Calls(said, d)
    BY <1>1, <1>2, <2>1 DEF Calls, n
  <2>2. ASSUME NEW j \in (d + 1)..n, said[j].role = "assistant", NEW x \in Range(said[j].calls)
        PROVE  \E k \in Replies(rest) : x \in Range(rest[k].calls)
    <3>1. rest[j - d] = said[j] /\ j - d \in Replies(rest)
      BY <1>1, <1>2, <2>2 DEF Replies
    <3> QED
      BY <2>2, <3>1
  <2>3. ASSUME NEW x \in Calls(said, d)
        PROVE  \E j \in (d + 1)..n : said[j].role = "assistant" /\ x \in Range(said[j].calls)
    BY <2>3 DEF Calls, n
  <2>4. ASSUME NEW k \in Replies(rest) PROVE k \in 1..(n - d) /\ rest[k].role = "assistant"
    BY <1>1 DEF Replies
  <2> QED
    BY <2>1, <2>2, <2>3, <2>4
<1>5. ASSUME NEW x PROVE x \in Dangling(rest) <=> x \in Unanswered(said, d)
  <2>1. x \in Dangling(rest) <=> /\ \E k \in Replies(rest) : x \in Range(rest[k].calls)
                                 /\ ~\E m \in Range(rest) : m.role = "tool" /\ x = m.calls[1]
    <3>1. x \in UNION {Range(rest[k].calls) : k \in Replies(rest)} <=> \E k \in Replies(rest) : x \in Range(rest[k].calls)
      OBVIOUS
    <3>2. x \in {m.calls[1] : m \in {y \in Range(rest) : y.role = "tool"}}
              <=> \E m \in Range(rest) : m.role = "tool" /\ x = m.calls[1]
      OBVIOUS
    <3> DEFINE C == UNION {Range(rest[k].calls) : k \in Replies(rest)}
               A == {m.calls[1] : m \in {y \in Range(rest) : y.role = "tool"}}
    <3>3. Dangling(rest) = C \ A
      BY DEF Dangling
    <3> HIDE DEF C, A
    <3>4. x \in Dangling(rest) <=> x \in C /\ x \notin A
      BY <3>3
    <3> QED
      BY <3>1, <3>2, <3>4, Zenon DEF C, A
  <2> QED
    BY <1>3, <1>4, <2>1 DEF Unanswered
<1> QED
  BY <1>5 DEF rest, n

\* One message more.
LEMMA OneMore ==
  ASSUME NEW said \in Seq(Message), NEW d \in 0..Len(said), NEW m \in Message
  PROVE  /\ Append(said, m) \in Seq(Message) /\ d \in 0..Len(Append(said, m))
         /\ m.role = "text" => Unanswered(Append(said, m), d) = Unanswered(said, d)
         /\ m.role = "assistant" => Unanswered(Append(said, m), d) \subseteq Unanswered(said, d) \cup Range(m.calls)
         /\ m.role = "tool" => Unanswered(Append(said, m), d) \subseteq Unanswered(said, d) \ {m.calls[1]}
<1> DEFINE n == Len(said)
           longer == Append(said, m)
<1>1. /\ n \in Nat /\ longer \in Seq(Message) /\ Len(longer) = n + 1 /\ longer[n + 1] = m
      /\ \A k \in 1..n : longer[k] = said[k]
  BY LenProperties, AppendProperties
<1>2. (d + 1)..(n + 1) = ((d + 1)..n) \cup {n + 1} /\ \A k \in (d + 1)..n : k \in 1..n
  BY <1>1
<1> HIDE DEF longer, n
<1>3. \A x : x \in Calls(longer, d) <=> x \in Calls(said, d) \/ (m.role = "assistant" /\ x \in Range(m.calls))
  BY <1>1, <1>2 DEF Calls, n
<1>4. \A x : x \in Answers(longer, d) <=> x \in Answers(said, d) \/ (m.role = "tool" /\ x = m.calls[1])
  BY <1>1, <1>2 DEF Answers, n
<1>5. d \in 0..Len(longer)
  BY <1>1 DEF n
<1>6. m.role = "text" => Unanswered(longer, d) = Unanswered(said, d)
  BY <1>3, <1>4 DEF Unanswered
<1>7. m.role = "assistant" => Unanswered(longer, d) \subseteq Unanswered(said, d) \cup Range(m.calls)
  BY <1>3, <1>4 DEF Unanswered
<1>8. m.role = "tool" => Unanswered(longer, d) \subseteq Unanswered(said, d) \ {m.calls[1]}
  BY <1>3, <1>4 DEF Unanswered
<1> QED
  BY <1>1, <1>5, <1>6, <1>7, <1>8 DEF longer

\* A text asks for nothing.
LEMMA SaidAsksNothing ==
  ASSUME NEW said \in Seq(Message)
  PROVE  /\ Said(said) \in Seq(Message) /\ Len(Said(said)) \in Nat /\ Len(said) <= Len(Said(said))
         /\ \A d \in 0..Len(said) : d \in 0..Len(Said(said)) /\ Unanswered(Said(said), d) = Unanswered(said, d)
         /\ Unanswered(Said(said), Len(said)) = {}
<1>1. Text \in Message /\ Text.role = "text" /\ Len(said) \in Nat /\ Len(said) \in 0..Len(said)
  BY LenProperties DEF Text, Message
<1>2. Unanswered(said, Len(said)) = {}
  <2>1. (Len(said) + 1)..Len(said) = {}
    BY <1>1
  <2> QED
    BY <2>1 DEF Unanswered, Calls
<1>3. CASE Said(said) = said
  BY <1>1, <1>2, <1>3
<1>4. CASE Said(said) = Append(said, Text)
  <2>1. Append(said, Text) \in Seq(Message) /\ Len(Append(said, Text)) = Len(said) + 1
    BY <1>1, AppendProperties
  <2>2. \A d \in 0..Len(said) : /\ d \in 0..Len(Append(said, Text))
                                   /\ Unanswered(Append(said, Text), d) = Unanswered(said, d)
    BY <1>1, OneMore
  <2> QED
    BY <1>1, <1>2, <1>4, <2>1, <2>2
<1> QED
  BY <1>3, <1>4 DEF Said

\* The calls an earlier turn has made can be counted.
LEMMA CallsAreCounted ==
  ASSUME NEW said \in Seq(Message)
  PROVE  Cardinality(UNION {Range(m.calls) : m \in Range(said)}) \in Nat
<1>1. ASSUME NEW s, NEW S, s \in Seq(S) PROVE IsFiniteSet(Range(s))
  <2>1. PICK n \in Nat : DOMAIN s = 1..n
    BY <1>1, LenProperties
  <2>2. IsFiniteSet({s[i] : i \in 1..n})
    <3>1. IsFiniteSet(1..n)
      BY FS_Interval
    <3> DEFINE f == [i \in 1..n |-> s[i]]
               R == {s[i] : i \in 1..n}
    <3>2. f \in Surjection(1..n, R)
      BY DEF Surjection
    <3> HIDE DEF f, R
    <3>3. IsFiniteSet(R)
      BY <3>1, <3>2, FS_Surjection
    <3> QED
      BY <3>3 DEF R
  <2> QED
    BY <2>1, <2>2 DEF Range
<1> DEFINE f == [m \in Range(said) |-> Range(m.calls)]
           C == {Range(m.calls) : m \in Range(said)}
<1>2. IsFiniteSet(Range(said))
  BY <1>1
<1>3. f \in Surjection(Range(said), C)
  BY DEF Surjection
<1>4. IsFiniteSet(C)
  <2> HIDE DEF f, C
  <2> QED
    BY <1>2, <1>3, FS_Surjection
<1>5. \A c \in C : IsFiniteSet(c)
  <2>1. ASSUME NEW m \in Range(said) PROVE IsFiniteSet(Range(m.calls))
    <3>1. m \in Message
      BY <2>1, LenProperties, ElementOfSeq DEF Range
    <3>2. m.calls \in Seq(Nat)
      BY <3>1 DEF Message
    <3> QED
      BY <1>1, <3>2
  <2> QED
    BY <2>1
<1> HIDE DEF C
<1>6. IsFiniteSet(UNION C)
  BY <1>4, <1>5, FS_UNION
<1> QED
  BY <1>6, FS_CardinalityType DEF C

-----------------------------------------------------------------------------
(* Types. *)

\* A call the model has made.
Proposals == [tool : Tools, id : Nat]
Busy == {"calls", "asking", "protecting", "running"}

\* Where the turn stands, what it is to do, what was said.
FlowOK ==
    /\ stage \in Stages /\ reason \in Reasons
    /\ queue \in Seq(Proposals) /\ (stage \in Busy <=> queue # <<>>)
    /\ messages \in Seq(Message) /\ deltaStart \in Nat /\ proposed \in Nat

(* What is counted against a budget; a call that is let through was        *)
(* counted before it runs, and a model call before its reply.              *)
CountsOK ==
    /\ steps \in 0..MaxSteps /\ replies \in 0..steps /\ (stage = "model" => replies < steps)
    /\ toolCalls \in 0..MaxToolCalls /\ executed \in 0..toolCalls
    /\ stage \in {"asking", "protecting", "running"} => executed < toolCalls
    /\ callCounts \in [Tools -> 0..MaxRepeatedCalls]
    /\ protocolRepairs \in 0..MaxProtocolRepairs /\ claimRepairs \in 0..MaxFinalClaimRepairs
    /\ turns \in 0..MaxTurns

\* What the user and the clock have done.
FlagsOK ==
    /\ aborted \in {"no", "user", "timer"} /\ expired \in BOOLEAN /\ denied \in BOOLEAN
    /\ mode \in Modes /\ granted \subseteq Tools /\ always \subseteq Tools

\* The call at the head of the queue and those behind it.
LEMMA HeadOfQueue ==
  ASSUME queue \in Seq(Proposals), queue # <<>>
  PROVE  /\ tool \in Tools /\ queue[1].id \in Nat /\ 1 \in DOMAIN queue
         /\ Len(queue) \in Nat /\ Tail(queue) \in Seq(Proposals) /\ (Len(queue) = 1 <=> Tail(queue) = <<>>)
         /\ \A i \in DOMAIN queue : i # 1 => i - 1 \in DOMAIN Tail(queue) /\ Tail(queue)[i - 1] = queue[i]
<1>1. Len(queue) \in Nat /\ Len(queue) # 0 /\ DOMAIN queue = 1..Len(queue)
  BY LenProperties, EmptySeq
<1>2. queue[1] \in Proposals
  BY <1>1, ElementOfSeq
<1>3. /\ Tail(queue) \in Seq(Proposals) /\ Len(Tail(queue)) = Len(queue) - 1
      /\ \A i \in 1..(Len(queue) - 1) : Tail(queue)[i] = queue[i + 1]
  BY <1>1, HeadTailProperties
<1>4. DOMAIN Tail(queue) = 1..(Len(queue) - 1)
  BY <1>1, <1>3, LenProperties
<1>5. Len(queue) = 1 <=> Tail(queue) = <<>>
  <2>1. Tail(queue) = <<>> <=> Len(Tail(queue)) = 0
    BY <1>3, EmptySeq
  <2> QED
    BY <1>1, <1>3, <2>1
<1>6. ASSUME NEW i \in 1..Len(queue), i # 1
      PROVE  i - 1 \in 1..(Len(queue) - 1) /\ Tail(queue)[i - 1] = queue[i]
  <2>1. i - 1 \in 1..(Len(queue) - 1) /\ (i - 1) + 1 = i
    BY <1>1, <1>6
  <2> QED
    BY <1>3, <2>1
<1>7. queue[1].tool \in Tools /\ queue[1].id \in Nat
  BY <1>2 DEF Proposals
<1>8. tool \in Tools /\ 1 \in DOMAIN queue
  BY <1>1, <1>7 DEF tool
<1> QED
  BY <1>1, <1>3, <1>4, <1>5, <1>6, <1>7, <1>8

\* Its result is a message like any other.
LEMMA ResultIsMessage ==
  ASSUME FlowOK, queue # <<>>
  PROVE  ResultOf(queue[1].id) \in Message /\ Resulted \in Seq(Message) /\ Said(Resulted) \in Seq(Message)
<1>1. queue[1].id \in Nat
  BY HeadOfQueue DEF FlowOK
<1>2. ResultOf(queue[1].id) \in Message
  BY <1>1 DEF ResultOf, Message
<1>3. Resulted \in Seq(Message)
  BY <1>2, AppendProperties DEF FlowOK, Resulted
<1> QED
  BY <1>2, <1>3, SaidAsksNothing

\* What a turn that goes on, or ends, says of where it stands.
LEMMA FlowEnds ==
  ASSUME NEW why \in Reasons, End(why), messages' \in Seq(Message), deltaStart' \in Nat, proposed' \in Nat
  PROVE  FlowOK'
BY DEF FlowOK, End, Stages, Busy, Proposals

\* A call that came to a result: it is among the messages, and the call is done with.
LEMMA FlowConcludes ==
  ASSUME FlowOK, stage \in Busy, NEW moved \in BOOLEAN, Concluded(moved), UNCHANGED marks
  PROVE  /\ FlowOK' /\ messages' \in {Resulted, Said(Resulted)}
         /\ \/ stage' = "idle" /\ reason' = "no_progress"
            \/ stage' \in {"top", "calls"} /\ queue' = Tail(queue)
<1>1. queue \in Seq(Proposals) /\ queue # <<>> /\ reason \in Reasons
  BY DEF FlowOK
<1>2. deltaStart' \in Nat /\ proposed' \in Nat
  BY DEF FlowOK, marks
<1>3. Resulted \in Seq(Message) /\ Said(Resulted) \in Seq(Message)
  BY <1>1, ResultIsMessage
<1>4. CASE End("no_progress") /\ messages' = Resulted
  <2>1. "no_progress" \in Reasons
    BY DEF Reasons
  <2>2. FlowOK'
    BY <1>2, <1>3, <1>4, <2>1, FlowEnds
  <2> QED
    BY <1>4, <2>2 DEF End
<1>5. CASE /\ stage' = IF Len(queue) = 1 THEN "top" ELSE "calls"
           /\ queue' = Tail(queue) /\ messages' \in {Resulted, Said(Resulted)} /\ UNCHANGED reason
  <2>1. Tail(queue) \in Seq(Proposals) /\ (Len(queue) = 1 <=> Tail(queue) = <<>>)
    BY <1>1, HeadOfQueue
  <2>2. messages' \in Seq(Message)
    BY <1>3, <1>5
  <2>3. stage' \in Stages /\ (stage' \in Busy <=> queue' # <<>>) /\ stage' \in {"top", "calls"}
    BY <1>5, <2>1 DEF Stages, Busy
  <2> QED
    BY <1>1, <1>2, <1>5, <2>1, <2>2, <2>3 DEF FlowOK
<1> QED
  BY <1>4, <1>5 DEF Concluded

\* Every step leaves the turn somewhere.
LEMMA FlowStep == FlowOK /\ [Next]_vars => FlowOK'
<1> SUFFICES ASSUME FlowOK, [Next]_vars PROVE FlowOK'
  OBVIOUS
<1>0. /\ stage \in Stages /\ reason \in Reasons /\ queue \in Seq(Proposals) /\ (stage \in Busy <=> queue # <<>>)
      /\ messages \in Seq(Message) /\ deltaStart \in Nat /\ proposed \in Nat
  BY DEF FlowOK
<1>said. Said(messages) \in Seq(Message) /\ Len(messages) \in Nat
  BY <1>0, SaidAsksNothing, LenProperties
<1>end. ASSUME NEW why \in Reasons, End(why), messages' \in Seq(Message), UNCHANGED marks
        PROVE  FlowOK'
  BY <1>0, <1>end, FlowEnds DEF marks
<1>same. UNCHANGED messages => messages' \in Seq(Message)
  BY <1>0
<1>why. /\ Thrown \in Reasons
        /\ {"aborted", "timeout", "max_steps", "protocol_error", "finished", "max_tool_calls", "loop_detected",
            "denied", "blocked"} \subseteq Reasons
  BY DEF Thrown, Reasons
<1>1. CASE Begin
  BY <1>1, <1>0, <1>said DEF Begin, FlowOK, Stages, Reasons, Busy, Proposals
<1>2. CASE Restore
  <2>1. Repaired(messages) \in Seq(Message)
    BY <1>0, RepairedIsSeq
  <2> QED
    BY <1>0, <1>2, <2>1 DEF Restore, FlowOK, control, marks
<1>3. CASE Cancel \/ Expire \/ Timer \/ SetMode \/ RevokeGrants \/ UNCHANGED vars
  <2>1. UNCHANGED <<control, messages, marks>>
    BY <1>3 DEF Cancel, Expire, Timer, SetMode, RevokeGrants, Around, vars
  <2> QED
    BY <1>0, <2>1 DEF FlowOK, control, marks
<1>4. ASSUME stage \in {"top", "model"}, stage' \in {"top", "model"}, messages' \in {messages, Said(messages)},
             UNCHANGED <<queue, reason, marks>>
      PROVE  FlowOK'
  <2>1. messages' \in Seq(Message)
    BY <1>0, <1>4, <1>said
  <2> QED
    BY <1>0, <1>4, <2>1 DEF FlowOK, marks, Stages, Busy
<1>5. CASE Ask
  <2>1. CASE End("aborted") \/ End("timeout") \/ End("max_steps")
    BY <1>5, <2>1, <1>end, <1>why, <1>same DEF Ask, Spoken
  <2>2. CASE stage' = "model" /\ UNCHANGED <<queue, reason>>
    BY <1>4, <1>5, <2>2 DEF Ask, Spoken
  <2> QED
    BY <1>5, <2>1, <2>2 DEF Ask
<1>6. CASE ModelThrows(TRUE) \/ ModelThrows(FALSE) \/ TooLate
  BY <1>6, <1>end, <1>why, <1>same DEF ModelThrows, TooLate, Spoken
<1>7. CASE Unreadable \/ Answer
  <2>1. stage = "model" /\ UNCHANGED marks
    BY <1>7 DEF Unreadable, Answer, Replying, Spoken
  <2>2. CASE AskAgain
    BY <2>1, <2>2, <1>4 DEF AskAgain
  <2>3. CASE (End("protocol_error") \/ End("finished")) /\ messages' \in {messages, Said(messages)}
    <3>1. messages' \in Seq(Message)
      BY <1>0, <1>said, <2>3
    <3> QED
      BY <1>end, <1>why, <2>1, <2>3, <3>1
  <2> QED
    BY <1>7, <2>2, <2>3 DEF Unreadable, Answer
<1>8. CASE CallTools
  <2>1. PICK n \in 1..MaxPerReply : \E called \in [1..n -> Tools] :
           /\ queue' = [i \in 1..n |-> [tool |-> called[i], id |-> CallId(i)]]
           /\ messages' = Append(messages, Calling([i \in 1..n |-> CallId(i)]))
           /\ proposed' = proposed + n
    BY <1>8 DEF CallTools
  <2>2. PICK called \in [1..n -> Tools] :
           /\ queue' = [i \in 1..n |-> [tool |-> called[i], id |-> CallId(i)]]
           /\ messages' = Append(messages, Calling([i \in 1..n |-> CallId(i)]))
           /\ proposed' = proposed + n
    BY <2>1
  <2>3. n \in Nat /\ n # 0 /\ \A i \in 1..n : CallId(i) \in Nat
    BY <1>0, BoundsAssumption DEF CallId
  <2>4. queue' \in Seq(Proposals) /\ queue' # <<>>
    <3>1. \A i \in 1..n : [tool |-> called[i], id |-> CallId(i)] \in Proposals
      BY <2>3 DEF Proposals
    <3>2. queue' \in Seq(Proposals) /\ Len(queue') = n
      BY <2>2, <2>3, <3>1
    <3> QED
      BY <2>3, <3>2, EmptySeq
  <2>5. [i \in 1..n |-> CallId(i)] \in Seq(Nat)
    BY <2>3
  <2>6. Calling([i \in 1..n |-> CallId(i)]) \in Message
    BY <2>5 DEF Calling, Message
  <2>7. messages' \in Seq(Message)
    BY <1>0, <2>2, <2>6, AppendProperties
  <2>8. stage' = "calls" /\ UNCHANGED <<reason, deltaStart>> /\ proposed' \in Nat
    BY <1>0, <1>8, <2>2, <2>3 DEF CallTools
  <2>9. stage' \in Stages /\ stage' \in Busy
    BY <2>8 DEF Stages, Busy
  <2> QED
    BY <1>0, <2>4, <2>7, <2>8, <2>9 DEF FlowOK
<1>9. CASE CutShort
  <2>1. queue # <<>>
    BY <1>0, <1>9 DEF CutShort, Busy
  <2>2. messages' \in Seq(Message)
    BY <1>0, <1>9, <2>1, ResultIsMessage DEF CutShort
  <2>3. UNCHANGED marks
    BY <1>9 DEF CutShort, Untouched
  <2> QED
    BY <1>9, <2>2, <2>3, <1>end, <1>why DEF CutShort
<1>10. CASE Refused
  <2>1. stage \in Busy /\ UNCHANGED marks
    BY <1>10 DEF Refused, Counted, Busy
  <2> QED
    BY <1>10, <2>1, FlowConcludes DEF Refused
<1>11. CASE Decide \/ Grant
  <2>1. stage \in Busy /\ stage' \in {"asking", "running", "protecting"} /\ UNCHANGED <<queue, reason, messages, marks>>
    BY <1>11 DEF Decide, Grant, Start, Counted, Busy
  <2> QED
    BY <1>0, <2>1 DEF FlowOK, Stages, Busy, marks
<1>12. CASE Decline
  <2>1. queue # <<>>
    BY <1>0, <1>12 DEF Decline, Busy
  <2>2. messages' \in Seq(Message)
    BY <1>0, <1>12, <2>1, ResultIsMessage DEF Decline
  <2>3. UNCHANGED marks
    BY <1>12 DEF Decline, Untouched
  <2> QED
    BY <1>12, <2>2, <2>3, <1>end, <1>why DEF Decline
<1>13. CASE Protect
  <2>1. stage \in Busy /\ UNCHANGED <<messages, marks>>
    BY <1>13 DEF Protect, Busy
  <2>2. CASE stage' = "running" /\ UNCHANGED <<queue, reason>>
    BY <1>0, <2>1, <2>2 DEF FlowOK, Stages, Busy, marks
  <2>3. CASE End(Thrown)
    BY <2>1, <2>3, <1>end, <1>why, <1>same
  <2> QED
    BY <1>13, <2>2, <2>3 DEF Protect
<1>14. CASE Execute
  <2>1. stage \in Busy /\ UNCHANGED marks
    BY <1>14 DEF Execute, Busy
  <2>2. CASE \E moved \in BOOLEAN : Concluded(moved)
    BY <2>1, <2>2, FlowConcludes
  <2>3. CASE (End("blocked") /\ messages' = Resulted) \/ (End(Thrown) /\ UNCHANGED messages)
    <3>1. messages' \in Seq(Message)
      BY <1>0, <2>1, <2>3, ResultIsMessage
    <3> QED
      BY <1>end, <1>why, <2>1, <2>3, <3>1
  <2> QED
    BY <1>14, <2>2, <2>3 DEF Execute
<1> QED
  BY <1>1, <1>2, <1>3, <1>5, <1>6, <1>7, <1>8, <1>9, <1>10, <1>11, <1>12, <1>13, <1>14 DEF Next, Looping

\* A call that is let through is counted.
LEMMA CountedCounts ==
  ASSUME FlowOK, CountsOK, Counted
  PROVE  /\ toolCalls' \in 0..MaxToolCalls /\ toolCalls' = toolCalls + 1 /\ executed < toolCalls'
         /\ executed \in 0..toolCalls' /\ callCounts' \in [Tools -> 0..MaxRepeatedCalls]
<1>1. toolCalls \in Nat /\ executed \in 0..toolCalls /\ MaxToolCalls \in Nat /\ MaxRepeatedCalls \in Nat
  BY BudgetAssumption DEF CountsOK
<1>2. toolCalls < MaxToolCalls /\ toolCalls' = toolCalls + 1
  BY DEF Counted
<1>3. callCounts' \in [Tools -> 0..MaxRepeatedCalls]
  <2>1. queue \in Seq(Proposals) /\ queue # <<>>
    BY DEF FlowOK, Counted, Busy
  <2>2. tool \in Tools
    BY <2>1, HeadOfQueue
  <2>3. callCounts[tool] \in 0..MaxRepeatedCalls /\ ~(callCounts[tool] >= MaxRepeatedCalls)
    BY <2>2 DEF CountsOK, Counted, TooOften
  <2>4. callCounts[tool] + 1 \in 0..MaxRepeatedCalls
    BY <1>1, <2>3
  <2> QED
    BY <2>2, <2>4 DEF Counted, CountsOK
<1> QED
  BY <1>1, <1>2, <1>3

\* No budget is overdrawn.
LEMMA CountsStep == FlowOK /\ CountsOK /\ [Next]_vars => CountsOK'
<1> SUFFICES ASSUME FlowOK, CountsOK, [Next]_vars PROVE CountsOK'
  OBVIOUS
<1>0. /\ steps \in 0..MaxSteps /\ replies \in 0..steps /\ (stage = "model" => replies < steps)
      /\ toolCalls \in 0..MaxToolCalls /\ executed \in 0..toolCalls
      /\ (stage \in {"asking", "protecting", "running"} => executed < toolCalls)
      /\ callCounts \in [Tools -> 0..MaxRepeatedCalls]
      /\ protocolRepairs \in 0..MaxProtocolRepairs /\ claimRepairs \in 0..MaxFinalClaimRepairs
      /\ turns \in 0..MaxTurns
  BY DEF CountsOK
<1>nat. /\ MaxSteps \in Nat /\ MaxToolCalls \in Nat /\ MaxRepeatedCalls \in Nat /\ MaxProtocolRepairs \in Nat
        /\ MaxFinalClaimRepairs \in Nat /\ MaxTurns \in Nat
  BY BudgetAssumption, BoundsAssumption
\* What the loop leaves alone when nothing is counted.
<1>same. ASSUME UNCHANGED <<steps, replies, toolCalls, executed, callCounts, protocolRepairs, claimRepairs, turns>>,
                stage' \in {"idle", "top", "calls"}
         PROVE  CountsOK'
  BY <1>0, <1>same DEF CountsOK
<1>1. CASE Begin
  <2>1. [t \in Tools |-> 0] \in [Tools -> 0..MaxRepeatedCalls]
    BY <1>nat
  <2>2. turns' \in 0..MaxTurns
    BY <1>0, <1>1, <1>nat DEF Begin
  <2> QED
    BY <1>1, <1>nat, <2>1, <2>2 DEF Begin, CountsOK
<1>2. CASE Restore \/ Cancel \/ Expire \/ Timer \/ SetMode \/ RevokeGrants \/ UNCHANGED vars
  <2>1. UNCHANGED <<stage, steps, replies, toolCalls, executed, callCounts, protocolRepairs, claimRepairs, turns>>
    BY <1>2 DEF Restore, Cancel, Expire, Timer, SetMode, RevokeGrants, Around, vars, control, budget, chances
  <2> QED
    BY <1>0, <2>1 DEF CountsOK
<1>3. CASE Ask
  <2>1. UNCHANGED <<replies, toolCalls, executed, callCounts, protocolRepairs, claimRepairs, turns>>
    BY <1>3 DEF Ask, Spoken, chances, End
  <2>2. CASE stage' = "idle" /\ UNCHANGED steps
    BY <1>same, <2>1, <2>2
  <2>3. CASE stage' = "model" /\ steps' = steps + 1 /\ steps # MaxSteps
    <3>1. steps' \in 0..MaxSteps /\ replies' \in 0..steps' /\ replies' < steps'
      BY <1>0, <1>nat, <2>1, <2>3
    <3> QED
      BY <1>0, <2>1, <2>3, <3>1 DEF CountsOK
  <2> QED
    BY <1>3, <1>0, <1>nat, <2>2, <2>3 DEF Ask, End
<1>4. CASE ModelThrows(TRUE) \/ ModelThrows(FALSE) \/ TooLate
  BY <1>4, <1>same DEF ModelThrows, TooLate, Spoken, chances, End
<1>5. CASE Unreadable \/ Answer
  <2>1. UNCHANGED <<steps, replies, toolCalls, executed, callCounts, turns>> /\ stage' \in {"idle", "top"}
    BY <1>5 DEF Unreadable, Answer, Spoken, AskAgain, End
  <2>2. protocolRepairs' \in 0..MaxProtocolRepairs
    BY <1>0, <1>5, <1>nat DEF Unreadable, Answer
  <2>3. claimRepairs' \in 0..MaxFinalClaimRepairs
    BY <1>0, <1>5, <1>nat DEF Unreadable, Answer
  <2> QED
    BY <1>0, <2>1, <2>2, <2>3 DEF CountsOK
<1>6. CASE CallTools
  <2>1. /\ UNCHANGED <<steps, toolCalls, executed, callCounts, protocolRepairs, claimRepairs, turns>>
        /\ replies' = replies + 1 /\ stage = "model" /\ stage' = "calls"
    BY <1>6 DEF CallTools, Replying, chances
  <2>2. replies' \in 0..steps'
    BY <1>0, <2>1
  <2> QED
    BY <1>0, <2>1, <2>2 DEF CountsOK
<1>7. CASE CutShort \/ Decline
  BY <1>7, <1>same DEF CutShort, Decline, Untouched, chances, End
<1>8. ASSUME NEW moved \in BOOLEAN, Concluded(moved) PROVE UNCHANGED turns /\ stage' \in {"idle", "top", "calls"}
  BY <1>8 DEF Concluded, End
<1>9. ASSUME Counted, UNCHANGED <<steps, replies, executed, protocolRepairs, claimRepairs, turns>>,
             stage' \notin {"model"}
      PROVE  CountsOK'
  <2>1. toolCalls' \in 0..MaxToolCalls /\ executed' < toolCalls' /\ executed' \in 0..toolCalls'
    BY <1>9, CountedCounts
  <2>2. callCounts' \in [Tools -> 0..MaxRepeatedCalls]
    BY <1>9, CountedCounts
  <2> QED
    BY <1>0, <1>9, <2>1, <2>2 DEF CountsOK
<1>10. CASE Refused
  BY <1>10, <1>8, <1>9 DEF Refused, chances
<1>11. CASE Decide
  <2>1. stage' # "model" /\ UNCHANGED <<steps, replies, executed, protocolRepairs, claimRepairs, turns>> /\ Counted
    BY <1>11 DEF Decide, Start, chances
  <2> QED
    BY <2>1, <1>9
<1>12. CASE Grant \/ Protect
  <2>1. /\ UNCHANGED <<steps, replies, toolCalls, executed, callCounts, protocolRepairs, claimRepairs, turns>>
        /\ stage' # "model" /\ stage \in {"asking", "protecting"}
    BY <1>12 DEF Grant, Protect, Start, budget, chances, End
  <2> QED
    BY <1>0, <2>1 DEF CountsOK
<1>13. CASE Execute
  <2>1. /\ UNCHANGED <<steps, replies, toolCalls, callCounts, protocolRepairs, claimRepairs>>
        /\ executed' \in {executed, executed + 1} /\ stage = "running"
    BY <1>13 DEF Execute, budget, chances
  <2>2. UNCHANGED turns /\ stage' \in {"idle", "top", "calls"}
    BY <1>13, <1>8 DEF Execute, End
  <2>3. executed' \in 0..toolCalls'
    BY <1>0, <2>1
  <2> QED
    BY <1>0, <2>1, <2>2, <2>3 DEF CountsOK
<1> QED
  BY <1>1, <1>2, <1>3, <1>4, <1>5, <1>6, <1>7, <1>10, <1>11, <1>12, <1>13 DEF Next, Looping

\* Grants are for tools there are.
LEMMA FlagsStep == FlowOK /\ FlagsOK /\ [Next]_vars => FlagsOK'
<1> SUFFICES ASSUME FlowOK, FlagsOK, [Next]_vars PROVE FlagsOK'
  OBVIOUS
<1>same. ASSUME UNCHANGED signals, denied' \in {denied, TRUE},
                UNCHANGED approvals \/ (mode' = mode /\ granted' = Left(granted) /\ always' = Left(always))
         PROVE  FlagsOK'
  BY <1>same DEF FlagsOK, signals, approvals, Left
<1>1. CASE Begin
  BY <1>1 DEF Begin, FlagsOK, approvals
<1>2. CASE Restore \/ UNCHANGED vars
  BY <1>2, <1>same DEF Restore, vars
<1>3. CASE Cancel \/ Expire \/ Timer \/ SetMode \/ RevokeGrants
  <2>1. denied' = denied
    BY <1>3 DEF Cancel, Expire, Timer, SetMode, RevokeGrants, Around
  <2>2. aborted' \in {aborted, "user", "timer"} /\ expired' \in {expired, TRUE}
    BY <1>3 DEF Cancel, Expire, Timer, SetMode, RevokeGrants, signals
  <2>3. mode' \in Modes /\ granted' \in {granted, {}} /\ always' \in {always, {}}
    BY <1>3 DEF Cancel, Expire, Timer, SetMode, RevokeGrants, approvals, FlagsOK
  <2> QED
    BY <2>1, <2>2, <2>3 DEF FlagsOK
<1>4. CASE Ask \/ ModelThrows(TRUE) \/ ModelThrows(FALSE) \/ TooLate
  BY <1>4, <1>same DEF Ask, ModelThrows, TooLate, Spoken, End
<1>5. CASE Unreadable \/ Answer
  BY <1>5, <1>same DEF Unreadable, Answer, AskAgain, Spoken, End
<1>6. CASE CallTools \/ CutShort \/ Decline
  BY <1>6, <1>same DEF CallTools, CutShort, Decline, End
<1>7. ASSUME NEW moved \in BOOLEAN, Concluded(moved), UNCHANGED denied PROVE FlagsOK'
  BY <1>7, <1>same DEF Concluded, End
<1>8. CASE Refused \/ Execute
  BY <1>8, <1>7, <1>same DEF Refused, Execute, End
<1>9. CASE Decide \/ Protect
  BY <1>9, <1>same DEF Decide, Protect, End
<1>10. CASE Grant
  <2>1. queue \in Seq(Proposals) /\ queue # <<>>
    BY <1>10 DEF Grant, FlowOK, Busy
  <2>2. tool \in Tools
    BY <2>1, HeadOfQueue
  <2>3. granted' \subseteq granted \cup {tool} /\ always' \subseteq always \cup {tool}
    BY <1>10 DEF Grant
  <2>4. UNCHANGED <<aborted, expired, denied, mode>>
    BY <1>10 DEF Grant, signals
  <2> QED
    BY <2>2, <2>3, <2>4 DEF FlagsOK
<1> QED
  BY <1>1, <1>2, <1>3, <1>4, <1>5, <1>6, <1>8, <1>9, <1>10 DEF Next, Looping

\* All of it.
TurnInv == FlowOK /\ CountsOK /\ FlagsOK

\* So it begins.
LEMMA TurnInit == Init => TurnInv
<1> SUFFICES ASSUME Init PROVE TurnInv
  OBVIOUS
<1>1. messages \in Seq(Message) /\ Len(messages) \in Nat /\ <<>> \in Seq(Proposals)
  BY HistoryAssumption, LenProperties DEF Init
<1>2. proposed \in Nat
  BY <1>1, CallsAreCounted DEF Init
<1>3. FlowOK
  BY <1>1, <1>2 DEF Init, FlowOK, Stages, Reasons, Busy
<1>4. CountsOK
  BY BudgetAssumption, BoundsAssumption DEF Init, CountsOK
<1>5. FlagsOK
  BY DEF Init, FlagsOK
<1> QED
  BY <1>3, <1>4, <1>5 DEF TurnInv

\* So it stays.
LEMMA TurnInvariant == Spec => []TurnInv
<1>1. TurnInv /\ [Next]_vars => TurnInv'
  BY FlowStep, CountsStep, FlagsStep DEF TurnInv
<1> QED
  BY <1>1, TurnInit, PTL DEF Spec

\* Every reachable state of a turn is well typed, and within its budgets.
THEOREM TurnTypeCorrect == Spec => []TypeOK
<1>1. TurnInv /\ CountersInv => TypeOK
  <2> SUFFICES ASSUME TurnInv, CountersInv PROVE TypeOK
    OBVIOUS
  <2>1. executed \in 0..MaxToolCalls /\ replies \in 0..MaxSteps
    BY BudgetAssumption DEF TurnInv, CountsOK
  <2> QED
    BY <2>1, Zenon DEF TurnInv, FlowOK, CountsOK, FlagsOK, CountersInv, TypeOK, Proposals, Busy
<1> QED
  BY <1>1, TurnInvariant, CountersCorrect, PTL

-----------------------------------------------------------------------------
(* What a turn leaves behind. *)

\* Between calls nothing of the turn is without its result but what is still to be done.
Awaited == {queue[i].id : i \in DOMAIN queue}
PendingInv == stage # "idle" => deltaStart \in 0..Len(messages) /\ Unanswered(messages, deltaStart) \subseteq Awaited

\* The timer fires under the model call and nowhere else, and late is late.
TimerInv == aborted = "timer" /\ stage # "idle" => stage = "model" /\ expired

\* A reply's calls are the ones to be done.
LEMMA CallsAreAwaited ==
  ASSUME NEW n \in Nat, NEW called, queue' = [i \in 1..n |-> [tool |-> called[i], id |-> CallId(i)]]
  PROVE  Range([i \in 1..n |-> CallId(i)]) \subseteq Awaited'
BY DEF Range, Awaited

\* With its result the first call is done with.
LEMMA ResultAnswers ==
  ASSUME FlowOK, PendingInv, stage \in Busy, UNCHANGED marks,
         messages' \in {Resulted, Said(Resulted)}
  PROVE  /\ deltaStart' \in 0..Len(messages')
         /\ queue' = Tail(queue) => Unanswered(messages', deltaStart') \subseteq Awaited'
<1>1. /\ queue \in Seq(Proposals) /\ queue # <<>> /\ messages \in Seq(Message)
      /\ deltaStart \in 0..Len(messages) /\ deltaStart' = deltaStart
      /\ Unanswered(messages, deltaStart) \subseteq Awaited
  BY DEF FlowOK, PendingInv, Busy, marks
<1>2. ResultOf(queue[1].id) \in Message /\ Resulted \in Seq(Message)
  BY <1>1, ResultIsMessage
<1>3. ResultOf(queue[1].id).role = "tool" /\ ResultOf(queue[1].id).calls[1] = queue[1].id
  BY DEF ResultOf
<1>4. /\ deltaStart \in 0..Len(Resulted)
      /\ Unanswered(Resulted, deltaStart) \subseteq Unanswered(messages, deltaStart) \ {queue[1].id}
  BY <1>1, <1>2, <1>3, OneMore DEF Resulted
<1>5. deltaStart \in 0..Len(messages') /\ Unanswered(messages', deltaStart) = Unanswered(Resulted, deltaStart)
  BY <1>2, <1>4, SaidAsksNothing
<1>6. ASSUME queue' = Tail(queue) PROVE Awaited \ {queue[1].id} \subseteq Awaited'
  BY <1>1, <1>6, HeadOfQueue DEF Awaited
<1> QED
  BY <1>1, <1>4, <1>5, <1>6

\* What the loop has said and asked for.
LEMMA PendingStep == FlowOK /\ PendingInv /\ [Next]_vars => PendingInv'
<1> SUFFICES ASSUME FlowOK, PendingInv, [Next]_vars PROVE PendingInv'
  OBVIOUS
<1>0. messages \in Seq(Message) /\ queue \in Seq(Proposals) /\ (stage \in Busy <=> queue # <<>>) /\ stage \in Stages
  BY DEF FlowOK
<1>idle. stage' = "idle" => PendingInv'
  BY DEF PendingInv
<1>same. ASSUME stage # "idle" \/ stage' = "idle", UNCHANGED <<queue, deltaStart>>, messages' \in {messages, Said(messages)}
         PROVE  PendingInv'
  <2>1. CASE stage' = "idle"
    BY <2>1, <1>idle
  <2>2. CASE stage # "idle"
    <3>1. deltaStart \in 0..Len(messages) /\ Unanswered(messages, deltaStart) \subseteq Awaited
      BY <2>2 DEF PendingInv
    <3>2. deltaStart \in 0..Len(messages') /\ Unanswered(messages', deltaStart) = Unanswered(messages, deltaStart)
      BY <1>0, <1>same, <3>1, SaidAsksNothing
    <3>3. Awaited' = Awaited
      BY <1>same DEF Awaited
    <3> QED
      BY <1>same, <3>1, <3>2, <3>3 DEF PendingInv
  <2> QED
    BY <1>same, <2>1, <2>2
<1>1. CASE Begin
  <2>1. messages' = Said(messages) /\ deltaStart' = Len(messages)
    BY <1>1 DEF Begin
  <2>2. /\ Len(messages) \in 0..Len(messages)
    BY <1>0, LenProperties
  <2>3. Len(messages) \in 0..Len(Said(messages)) /\ Unanswered(Said(messages), Len(messages)) = {}
    BY <1>0, <2>2, SaidAsksNothing
  <2> QED
    BY <2>1, <2>3 DEF PendingInv
<1>2. CASE Restore
  BY <1>2, <1>idle DEF Restore, control
<1>3. CASE Cancel \/ Expire \/ Timer \/ SetMode \/ RevokeGrants \/ UNCHANGED vars
  <2>1. UNCHANGED <<stage, queue, messages, deltaStart>>
    BY <1>3 DEF Cancel, Expire, Timer, SetMode, RevokeGrants, Around, vars, control, marks
  <2> QED
    BY <1>same, <2>1
<1>4. CASE Ask \/ ModelThrows(TRUE) \/ ModelThrows(FALSE) \/ TooLate \/ Unreadable \/ Answer
  <2>1. stage # "idle" /\ UNCHANGED deltaStart
    BY <1>4 DEF Ask, ModelThrows, TooLate, Unreadable, Answer, Replying, Spoken, marks
  <2>2. stage' = "idle" \/ (UNCHANGED queue /\ messages' \in {messages, Said(messages)})
    BY <1>4 DEF Ask, ModelThrows, TooLate, Unreadable, Answer, AskAgain, End
  <2> QED
    BY <1>idle, <1>same, <2>1, <2>2
<1>5. CASE CallTools
  <2>1. PICK n \in 1..MaxPerReply : \E called \in [1..n -> Tools] :
           /\ queue' = [i \in 1..n |-> [tool |-> called[i], id |-> CallId(i)]]
           /\ messages' = Append(messages, Calling([i \in 1..n |-> CallId(i)]))
    BY <1>5 DEF CallTools
  <2>2. PICK called \in [1..n -> Tools] :
           /\ queue' = [i \in 1..n |-> [tool |-> called[i], id |-> CallId(i)]]
           /\ messages' = Append(messages, Calling([i \in 1..n |-> CallId(i)]))
    BY <2>1
  <2>3. n \in Nat /\ \A i \in 1..n : CallId(i) \in Nat
    BY BoundsAssumption DEF CallId, FlowOK
  <2> DEFINE ids == [i \in 1..n |-> CallId(i)]
  <2>4. ids \in Seq(Nat) /\ Range(ids) \subseteq Awaited'
    <3>1. ids \in Seq(Nat)
      BY <2>3
    <3>2. queue' = [i \in 1..n |-> [tool |-> called[i], id |-> CallId(i)]]
      BY <2>2
    <3>3. Range([i \in 1..n |-> CallId(i)]) \subseteq Awaited'
      BY <2>3, <3>2, CallsAreAwaited
    <3> QED
      BY <3>1, <3>3
  <2> HIDE DEF ids
  <2>5. Calling(ids) \in Message /\ Calling(ids).role = "assistant" /\ Calling(ids).calls = ids
    BY <2>4 DEF Calling, Message
  <2>6. stage = "model" /\ UNCHANGED deltaStart
    BY <1>5 DEF CallTools, Replying
  <2>7. deltaStart \in 0..Len(messages) /\ Unanswered(messages, deltaStart) = {}
    <3>1. queue = <<>>
      BY <1>0, <2>6 DEF Busy
    <3>2. Awaited = {}
      BY <3>1 DEF Awaited
    <3> QED
      BY <2>6, <3>2 DEF PendingInv
  <2>8. messages' = Append(messages, Calling(ids))
    BY <2>2 DEF ids
  <2>9. deltaStart \in 0..Len(messages') /\ Unanswered(messages', deltaStart) \subseteq Range(ids)
    BY <1>0, <2>5, <2>7, <2>8, OneMore
  <2> QED
    BY <2>4, <2>6, <2>9 DEF PendingInv
<1>6. CASE CutShort \/ Decline
  BY <1>6, <1>idle DEF CutShort, Decline, End
<1>7. ASSUME NEW moved \in BOOLEAN, Concluded(moved), stage \in Busy, UNCHANGED marks PROVE PendingInv'
  <2>1. /\ messages' \in {Resulted, Said(Resulted)}
        /\ stage' = "idle" \/ queue' = Tail(queue)
    BY <1>7, FlowConcludes
  <2>2. /\ deltaStart' \in 0..Len(messages')
        /\ queue' = Tail(queue) => Unanswered(messages', deltaStart') \subseteq Awaited'
    BY <1>7, <2>1, ResultAnswers
  <2> QED
    BY <2>1, <2>2 DEF PendingInv
<1>8. CASE Refused
  BY <1>8, <1>7 DEF Refused, Counted, Busy
<1>9. CASE Decide \/ Grant \/ Protect
  <2>1. stage # "idle" /\ (stage' = "idle" \/ UNCHANGED <<queue, messages, deltaStart>>)
    BY <1>9 DEF Decide, Grant, Protect, Counted, End, marks
  <2> QED
    BY <1>idle, <1>same, <2>1
<1>10. CASE Execute
  BY <1>10, <1>7, <1>idle DEF Execute, End, Busy
<1> QED
  BY <1>1, <1>2, <1>3, <1>4, <1>5, <1>6, <1>8, <1>9, <1>10 DEF Next, Looping

\* After the timer fired the turn only ends.
LEMMA TimerStep == TimerInv /\ [Next]_vars => TimerInv'
<1> SUFFICES ASSUME TimerInv, [Next]_vars PROVE TimerInv'
  OBVIOUS
<1>same. ASSUME UNCHANGED signals, stage' \in {stage, "idle"} \/ stage \notin {"model", "idle"}
         PROVE  TimerInv'
  BY <1>same DEF TimerInv, signals
<1>1. CASE Begin
  BY <1>1 DEF Begin, TimerInv
<1>2. CASE Restore \/ SetMode \/ RevokeGrants \/ UNCHANGED vars
  BY <1>2, <1>same DEF Restore, SetMode, RevokeGrants, Around, vars, control
<1>3. CASE Cancel \/ Expire \/ Timer
  BY <1>3 DEF Cancel, Expire, Timer, Around, control, TimerInv
<1>4. CASE Ask \/ ModelThrows(TRUE) \/ ModelThrows(FALSE) \/ TooLate
  BY <1>4, <1>same DEF Ask, ModelThrows, TooLate, End
<1>5. CASE Unreadable \/ Answer \/ CallTools
  <2>1. ~expired /\ stage = "model" /\ UNCHANGED signals
    BY <1>5 DEF Unreadable, Answer, CallTools, Replying, AskAgain, End
  <2> QED
    BY <2>1 DEF TimerInv, signals
<1>6. CASE CutShort \/ Decline
  BY <1>6, <1>same DEF CutShort, Decline, End
<1>7. ASSUME NEW moved \in BOOLEAN, Concluded(moved) PROVE UNCHANGED signals
  BY <1>7 DEF Concluded, End
<1>8. CASE Refused \/ Execute
  BY <1>8, <1>7, <1>same DEF Refused, Counted, Execute, End
<1>9. CASE Decide \/ Grant \/ Protect
  BY <1>9, <1>same DEF Decide, Grant, Protect, Counted, End
<1> QED
  BY <1>1, <1>2, <1>3, <1>4, <1>5, <1>6, <1>8, <1>9 DEF Next, Looping

(* A turn that ends in its own time can be continued from: none of its     *)
(* calls lacks a result.                                                   *)
THEOREM EndsRestorable == Spec => EndsAnswered
<1>1. Init => PendingInv /\ TimerInv
  BY DEF Init, PendingInv, TimerInv
<1>2. FlowOK /\ PendingInv /\ TimerInv /\ [Next]_vars => PendingInv' /\ TimerInv'
  BY PendingStep, TimerStep
<1>3. FlowOK /\ PendingInv /\ TimerInv /\ [Next]_vars =>
        [stage # "idle" /\ stage' = "idle"
             /\ reason' \in {"finished", "timeout", "max_steps", "protocol_error"} =>
                 Restorable(SubSeq(messages', deltaStart + 1, Len(messages')))]_vars
  <2> SUFFICES ASSUME FlowOK, PendingInv, TimerInv, Next, stage # "idle", stage' = "idle",
                      reason' \in {"finished", "timeout", "max_steps", "protocol_error"}
               PROVE  Restorable(SubSeq(messages', deltaStart + 1, Len(messages')))
    OBVIOUS
  <2>1. messages \in Seq(Message) /\ (stage \in Busy <=> queue # <<>>)
    BY DEF FlowOK
  <2>2. deltaStart \in 0..Len(messages) /\ Unanswered(messages, deltaStart) \subseteq Awaited
    BY DEF PendingInv
  \* Only where no call is left to be done, with the messages as they are or one more text.
  <2>3. stage \in {"top", "model"} /\ messages' \in {messages, Said(messages)}
    <3>1. ~(Begin \/ Restore \/ Cancel \/ Expire \/ Timer \/ SetMode \/ RevokeGrants)
      BY AsideSteps DEF Begin, Aside, control
    <3>2. ~(CutShort \/ Decline \/ Decide \/ Grant \/ CallTools)
      BY DEF CutShort, Decline, Decide, Grant, Start, CallTools, End
    <3>3. ASSUME NEW moved \in BOOLEAN, Concluded(moved) PROVE FALSE
      BY <3>3 DEF Concluded, End
    <3>4. ~Refused
      BY <3>3 DEF Refused
    <3>5. ~(Protect \/ Execute)
      BY <3>3 DEF Protect, Execute, End, Thrown, TimerInv
    <3>6. CASE Ask \/ ModelThrows(TRUE) \/ ModelThrows(FALSE) \/ TooLate
      BY <3>6 DEF Ask, ModelThrows, TooLate
    <3>7. CASE Unreadable \/ Answer
      BY <3>7 DEF Unreadable, Answer, Replying, AskAgain
    <3> QED
      BY <3>1, <3>2, <3>4, <3>5, <3>6, <3>7 DEF Next, Looping
  <2>4. Unanswered(messages, deltaStart) = {}
    <3>1. queue = <<>>
      BY <2>1, <2>3 DEF Busy
    <3> QED
      BY <2>2, <3>1 DEF Awaited
  <2>5. /\ messages' \in Seq(Message) /\ deltaStart \in 0..Len(messages')
        /\ Unanswered(messages', deltaStart) = {}
    BY <2>1, <2>2, <2>3, <2>4, SaidAsksNothing
  <2> QED
    BY <2>5, DanglingOfRest DEF Restorable
<1>4. TurnInv => FlowOK
  BY DEF TurnInv
<1> QED
  BY <1>1, <1>2, <1>3, <1>4, TurnInvariant, PTL DEF Spec, EndsAnswered

-----------------------------------------------------------------------------
(* The checkpoint: what it puts away is never lost, and agent work that is *)
(* still in the tree always has a checkpoint undo can start from.          *)

Entries == [id : Nat, changes : SUBSET Changes]

\* git stash push puts the entry on top and keeps the others.
LEMMA RangeOfPush ==
  ASSUME NEW S, NEW s \in Seq(S), NEW e \in S
  PROVE  /\ <<e>> \o s \in Seq(S)
         /\ Range(<<e>> \o s) = {e} \cup Range(s)
<1>. DEFINE t == <<e>> \o s
<1>1. t \in Seq(S) /\ Len(t) = Len(s) + 1 /\ t[1] = e
  OBVIOUS
<1>2. \A i \in 1..Len(s) : t[i + 1] = s[i]
  OBVIOUS
<1>3. \A i \in 2..Len(t) : i - 1 \in 1..Len(s) /\ t[i] = s[i - 1]
  BY <1>1
<1>. HIDE DEF t
<1>4. Range(t) \subseteq {e} \cup Range(s)
  <2>. SUFFICES ASSUME NEW i \in 1..Len(t) PROVE t[i] \in {e} \cup Range(s)
    BY <1>1 DEF Range
  <2>1. CASE i = 1
    BY <2>1, <1>1
  <2>2. CASE i # 1
    BY <2>2, <1>1, <1>3 DEF Range
  <2>. QED
    BY <2>1, <2>2
<1>5. {e} \cup Range(s) \subseteq Range(t)
  <2>1. e \in Range(t)
    BY <1>1 DEF Range
  <2>2. ASSUME NEW i \in 1..Len(s) PROVE s[i] \in Range(t)
    BY <1>1, <1>2 DEF Range
  <2>. QED
    BY <2>1, <2>2 DEF Range
<1>. QED
  BY <1>1, <1>4, <1>5 DEF t

\* git stash pop takes one entry off and keeps the others.
LEMMA RangeOfPop ==
  ASSUME NEW S, NEW s \in Seq(S), NEW k \in DOMAIN s
  PROVE  /\ RemoveAt(s, k) \in Seq(S)
         /\ Range(s) \subseteq Range(RemoveAt(s, k)) \cup {s[k]}
<1>. DEFINE t == RemoveAt(s, k)
<1>1. k \in 1..Len(s) /\ Len(s) \in Nat
  OBVIOUS
<1>. DEFINE l == SubSeq(s, 1, k - 1)
            r == SubSeq(s, k + 1, Len(s))
<1>2. /\ l \in Seq(S) /\ Len(l) = k - 1 /\ \A i \in 1..(k - 1) : l[i] = s[i]
      /\ r \in Seq(S) /\ Len(r) = Len(s) - k /\ \A i \in 1..(Len(s) - k) : r[i] = s[k + i]
  BY <1>1
<1>3. t = l \o r
  BY DEF RemoveAt
<1>. HIDE DEF t, l, r
<1>4. t \in Seq(S) /\ Len(t) = Len(s) - 1 /\ \A i \in 1..(k - 1) : t[i] = s[i]
  BY <1>1, <1>2, <1>3
<1>5. \A i \in (k + 1)..Len(s) : t[i - 1] = s[i]
  <2>. SUFFICES ASSUME NEW i \in (k + 1)..Len(s) PROVE t[i - 1] = s[i]
    OBVIOUS
  <2>1. i - k \in 1..(Len(s) - k) /\ t[(k - 1) + (i - k)] = r[i - k]
    BY <1>1, <1>2, <1>3
  <2>2. r[i - k] = s[k + (i - k)]
    BY <1>2, <2>1
  <2>3. (k - 1) + (i - k) = i - 1 /\ k + (i - k) = i
    BY <1>1
  <2>. QED
    BY <2>1, <2>2, <2>3
<1>6. ASSUME NEW i \in 1..Len(s), i # k PROVE s[i] \in Range(t)
  <2>1. CASE i < k
    BY <2>1, <1>1, <1>4 DEF Range
  <2>2. CASE i > k
    <3>1. i - 1 \in 1..Len(t) /\ t[i - 1] = s[i]
      BY <2>2, <1>1, <1>4, <1>5
    <3>. QED
      BY <3>1, <1>4 DEF Range
  <2>. QED
    BY <1>6, <1>1, <2>1, <2>2
<1>. QED
  BY <1>1, <1>4, <1>6 DEF Range, t

-----------------------------------------------------------------------------
(* The strengthening.  What undo discards is what is in the tree while a   *)
(* checkpoint is held; so none of what was put away may be there then      *)
(* (Apart).  A tool writes, and an undo runs, only under a checkpoint      *)
(* (Covered), whose base is a commit, unlike the base of Nothing (Shape).  *)
(* A manager exists for an open session or one that was outlived, and only *)
(* a replacement has something to hand over (Hosted).                      *)
Shape ==
  /\ stash \in Seq(Entries) /\ stashes \in Nat
  /\ tree \subseteq Changes
  /\ entrusted \subseteq UserChanges
  /\ head \in 0..MaxCommits
  /\ ensuring \in [at : {"idle", "headRead", "dirty", "pushed", "ready"}, base : 0..MaxCommits]
  /\ reverting \in [at : {"idle", "found", "headRead", "checkedOut", "cleaned"}, position : Nat]
Covered ==
  /\ ensuring.at = "ready" => taken # Nothing
  /\ Undoing => taken # Nothing /\ ensuring.at = "idle"
Hosted ==
  /\ session \notin {"open", "outlived"} => taken = Nothing /\ ensuring.at = "idle" /\ ~Undoing
  /\ session # "replacing" => carried = Nothing
  /\ session = "outlived" => "key" \in dropped
Apart == taken # Nothing \/ carried # Nothing \/ ensuring.at = "pushed" => entrusted \cap tree = {}
KeptInv == Shape /\ Covered /\ Hosted /\ Apart /\ UserWorkKept /\ AgentWorkUndoableUnlessDropped

\* A stash of the tree moves work from the tree to the list.
LEMMA PushMoves ==
  ASSUME Shape, NEW saved \in SUBSET tree, StashPush(saved)
  PROVE  /\ stash' \in Seq(Entries) /\ stashes' \in Nat
         /\ tree' = tree \ saved
         /\ Stashed' = Stashed \cup saved
<1>1. CASE saved = {}
  BY <1>1 DEF StashPush, Shape, Stashed
<1>2. CASE saved # {}
  <2>. DEFINE e == [id |-> stashes + 1, changes |-> saved]
  <2>1. e \in Entries /\ stash' = <<e>> \o stash
    BY <1>2 DEF StashPush, Shape, Entries
  <2>2. stash' \in Seq(Entries) /\ Range(stash') = {e} \cup Range(stash)
    BY <2>1, RangeOfPush DEF Shape
  <2>. QED
    BY <1>2, <2>2 DEF StashPush, Shape, Stashed
<1>. QED
  BY <1>1, <1>2

\* A pop moves one entry's work back; the rest of the list stays.
LEMMA PopMoves ==
  ASSUME Shape, NEW k \in DOMAIN stash, StashPop(k)
  PROVE  /\ stash' \in Seq(Entries)
         /\ tree' = tree \cup stash[k].changes
         /\ stash[k].changes \subseteq Changes
         /\ Stashed \subseteq Stashed' \cup stash[k].changes
<1>1. stash' \in Seq(Entries) /\ Range(stash) \subseteq Range(stash') \cup {stash[k]}
  BY RangeOfPop DEF Shape, StashPop
<1>2. stash[k] \in Entries
  BY DEF Shape
<1>. QED
  BY <1>1, <1>2 DEF StashPop, Stashed, Entries

LEMMA KeptInit == CheckpointInit => KeptInv
BY CheckpointBounds DEF CheckpointInit, KeptInv, Shape, Covered, Hosted, Apart, UserWorkKept, AgentWorkUndoableUnlessDropped,
   Stashed, Idle, Settled, Undoing, Entries

\* Every step of the manager and of the user keeps the strengthening.
LEMMA KeptStep == KeptInv /\ [CheckpointNext]_checkpointVars => KeptInv'
<1>. SUFFICES ASSUME KeptInv, [CheckpointNext]_checkpointVars PROVE KeptInv'
  OBVIOUS
<1>. USE CheckpointBounds, ChangesAssumption
     DEF KeptInv, Shape, Covered, Hosted, Apart, UserWorkKept, AgentWorkUndoableUnlessDropped, Held, Undoing, Taking,
         Idle, Settled, Nothing, NoRef, Changes, repository, history, host
<1>1. CASE Ensure
  BY <1>1 DEF Ensure, Stashed
<1>2. CASE IsClean
  <2>1. CASE tree = {} /\ Take(NoRef)
    <3>1. taken' # Nothing /\ ensuring'.at = "ready"
          /\ ensuring' \in [at : {"ready"}, base : 0..MaxCommits]
      BY <1>2, <2>1 DEF IsClean, Take
    <3>2. session = "open" \/ (session = "outlived" /\ "key" \in dropped')
      BY <1>2, <2>1 DEF IsClean, Take
    <3>3. UNCHANGED <<tree, index, committed, head, stash, stashes, reverting, session, carried, before, entrusted, fresh, raced>>
          /\ tree = {} /\ ~Undoing
      BY <1>2, <2>1 DEF IsClean
    <3>. QED
      BY <3>1, <3>2, <3>3 DEF Stashed
  <2>2. CASE tree # {} /\ UNCHANGED <<taken, dropped>>
    BY <1>2, <2>2 DEF IsClean, Stashed
  <2>. QED
    BY <1>2, <2>1, <2>2 DEF IsClean
<1>3. CASE Push
  <2>1. /\ stash' \in Seq(Entries) /\ stashes' \in Nat
        /\ tree' = {}
        /\ Stashed' = Stashed \cup tree
    BY <1>3, PushMoves DEF Push
  <2>. QED
    BY <1>3, <2>1 DEF Push
<1>4. CASE RevParse
  <2>1. CASE stash # <<>>
    <3>1. taken' # Nothing
      BY <1>4, <2>1 DEF RevParse, Take
    <3>. QED
      BY <1>4, <2>1, <3>1 DEF RevParse, Take, Stashed
  <2>2. CASE stash = <<>>
    BY <1>4, <2>2 DEF RevParse, Stashed
  <2>. QED
    BY <2>1, <2>2
<1>5. CASE RunTool
  BY <1>5 DEF RunTool, Stashed
<1>6. CASE Undo
  <2>1. reverting' \in [at : {"found"}, position : Nat]
    BY <1>6 DEF Undo
  <2>. QED
    BY <1>6, <2>1 DEF Undo, Stashed
<1>7. CASE CheckHead
  BY <1>7 DEF CheckHead, Stashed
<1>8. CASE Checkout
  BY <1>8 DEF Checkout, CheckedOut, Stashed
<1>9. CASE Clean
  BY <1>9 DEF Clean, Cleaned, Stashed
<1>10. CASE Pop
  <2>1. CASE reverting.position \in DOMAIN stash /\ StashPop(reverting.position)
    <3>1. /\ stash' \in Seq(Entries)
          /\ tree' = tree \cup stash[reverting.position].changes
          /\ stash[reverting.position].changes \subseteq Changes
          /\ Stashed \subseteq Stashed' \cup stash[reverting.position].changes
      BY <2>1, PopMoves
    <3>2. taken' = Nothing /\ fresh' = {}
      BY <1>10, <2>1 DEF Pop
    <3>. QED
      BY <1>10, <2>1, <3>1, <3>2 DEF Pop
  <2>2. CASE UNCHANGED <<tree, stash>>
    BY <1>10, <2>2 DEF Pop, Stashed
  <2>. QED
    BY <1>10, <2>1, <2>2 DEF Pop
<1>11. CASE Keep
  BY <1>11 DEF Keep, Stashed
<1>12. CASE Rebuild
  BY <1>12 DEF Rebuild, Stashed
<1>13. CASE Adopt \/ RebuildFails
  BY <1>13 DEF Adopt, RebuildFails, Stashed
<1>20. CASE KeyChange \/ OpenAfresh
  BY <1>20 DEF KeyChange, OpenAfresh, Stashed
<1>14. CASE Edit
  BY <1>14 DEF Edit, Meddle, Stashed
<1>15. CASE Stage
  BY <1>15 DEF Stage, Meddle, Stashed
<1>16. CASE Commit
  BY <1>16 DEF Commit, Meddle, Stashed
<1>17. CASE UserStashes
  <2>1. /\ stash' \in Seq(Entries) /\ stashes' \in Nat
        /\ tree' = {}
        /\ Stashed' = Stashed \cup tree
    BY <1>17, PushMoves DEF UserStashes
  <2>. QED
    BY <1>17, <2>1 DEF UserStashes, Meddle
<1>18. CASE UserPops
  <2>1. PICK k \in DOMAIN stash : StashPop(k) /\ entrusted' = entrusted \ stash[k].changes
    BY <1>18 DEF UserPops
  <2>2. /\ stash' \in Seq(Entries)
        /\ tree' = tree \cup stash[k].changes
        /\ stash[k].changes \subseteq Changes
        /\ Stashed \subseteq Stashed' \cup stash[k].changes
    BY <2>1, PopMoves
  <2>. QED
    BY <1>18, <2>1, <2>2 DEF UserPops, Meddle
<1>19. CASE UNCHANGED checkpointVars
  BY <1>19 DEF checkpointVars, Stashed
<1>. QED
  BY <1>1, <1>2, <1>3, <1>4, <1>5, <1>6, <1>7, <1>8, <1>9, <1>10, <1>11, <1>12, <1>13, <1>14,
     <1>15, <1>16, <1>17, <1>18, <1>19, <1>20 DEF CheckpointNext

\* Nothing a checkpoint put away is ever lost (checkpoint.ts, git.ts:331-342),
\* whatever the user does between the git commands.
THEOREM UserWorkIsKept == CheckpointSpec => []UserWorkKept
<1>1. KeptInv => UserWorkKept
  BY DEF KeptInv
<1>. QED
  BY <1>1, KeptInit, KeptStep, PTL DEF CheckpointSpec

\* Agent work of the period that is still in the tree can be undone
\* (agentHost.ts:756-770), unless a failed rebuild or a key change dropped
\* the checkpoint.
THEOREM AgentWorkIsUndoable == CheckpointSpec => []AgentWorkUndoableUnlessDropped
<1>1. KeptInv => AgentWorkUndoableUnlessDropped
  BY DEF KeptInv
<1>. QED
  BY <1>1, KeptInit, KeptStep, PTL DEF CheckpointSpec

-----------------------------------------------------------------------------
(* What an undo restores.  As long as nobody raced the manager, the entry  *)
(* its checkpoint names holds the tree the period began with, at the       *)
(* position undo has found it, and what undo has discarded stays away.     *)
Numbered ==
  /\ index \subseteq tree
  /\ \A e \in Range(stash) : e.id \in 1..stashes
  /\ taken.ref \in 0..stashes /\ carried.ref \in 0..stashes
  /\ Taking => taken = Nothing

\* The entry of a number holds what the period began with.
Holds(ref) == \A e \in Range(stash) : e.id = ref => e.changes = before

PutAway ==
  /\ ensuring.at = "headRead" => before = {}
  /\ ensuring.at = "dirty" => tree # {}
  /\ ensuring.at = "pushed" => stash # <<>> /\ stash[1].id = stashes /\ Holds(stashes)

WayBack ==
  /\ \A held \in {taken, carried} \ {Nothing} : IF held.ref = NoRef THEN before = {} ELSE Holds(held.ref)
  /\ Undoing => IF taken.ref = NoRef THEN reverting.position = 0
                ELSE reverting.position \in DOMAIN stash /\ stash[reverting.position].id = taken.ref

Discarded ==
  /\ reverting.at \in {"checkedOut", "cleaned"} => CheckedOut = {}
  /\ reverting.at = "cleaned" => Cleaned = {}

UndoInv == Numbered /\ (~raced => PutAway /\ WayBack /\ Discarded)

\* A stash of the tree puts one entry on top, under a number no entry has.
LEMMA PushNumbers ==
  ASSUME Shape, Numbered, NEW saved \in SUBSET tree, saved # {}, StashPush(saved)
  PROVE  /\ stashes' = stashes + 1 /\ tree' = tree \ saved /\ index' \subseteq tree'
         /\ stash' # <<>> /\ stash'[1].id = stashes'
         /\ \A e \in Range(stash') : e.id \in 1..stashes'
         /\ \A e \in Range(stash') : e.id = stashes' => e.changes = saved
         /\ \A e \in Range(stash') : e.id # stashes' => e \in Range(stash)
<1>. DEFINE e == [id |-> stashes + 1, changes |-> saved]
<1>1. /\ stash' = <<e>> \o stash /\ stashes' = stashes + 1
      /\ tree' = tree \ saved /\ index' = index \ saved
  BY DEF StashPush
<1>2. e \in Entries /\ e.id = stashes + 1 /\ e.changes = saved
  BY DEF Entries, Shape
<1>. HIDE DEF e
<1>3. stash' \in Seq(Entries) /\ Range(stash') = {e} \cup Range(stash)
  BY <1>1, <1>2, RangeOfPush DEF Shape
<1>4. stash' # <<>> /\ stash'[1] = e
  BY <1>1, <1>2 DEF Shape
<1>5. \A x \in Range(stash) : x.id \in 1..stashes /\ x.id # stashes + 1
  BY DEF Numbered, Shape
<1>. QED
  BY <1>1, <1>2, <1>3, <1>4, <1>5 DEF Numbered, Shape

\* A pop brings no entry.
LEMMA PopTakes ==
  ASSUME Shape, NEW k \in DOMAIN stash, StashPop(k)
  PROVE  Range(stash') \subseteq Range(stash)
<1>1. stash \in Seq(Range(stash))
  <2>1. DOMAIN stash = 1..Len(stash) /\ Len(stash) \in Nat
    BY DEF Shape
  <2>. QED
    BY <2>1 DEF Shape, Range
<1>2. stash' \in Seq(Range(stash))
  BY <1>1, RangeOfPop DEF StashPop
<1>. QED
  BY <1>2 DEF Range

\* It holds at first.
LEMMA UndoInit == CheckpointInit => UndoInv
BY CheckpointBounds DEF CheckpointInit, UndoInv, Numbered, PutAway, WayBack, Discarded, Taking, Undoing,
   Idle, Settled, Nothing, NoRef, Range

\* A step of the user: the checkpoint that is held stays what it is, and who touches a sequence races it.
LEMMA UserRaces ==
  ASSUME UndoInv, Numbered', Meddle,
         \A held \in {taken, carried} \ {Nothing} :
             \A e \in Range(stash') : e.id = held.ref /\ held.ref # NoRef => e \in Range(stash)
  PROVE  UndoInv'
BY DEF UndoInv, Meddle, host, PutAway, WayBack, Discarded, Holds, Taking, Undoing

\* Every step of the manager and of the user keeps the strengthening.
LEMMA UndoStep == KeptInv /\ UndoInv /\ [CheckpointNext]_checkpointVars => UndoInv'
<1>. SUFFICES ASSUME KeptInv, UndoInv, [CheckpointNext]_checkpointVars PROVE UndoInv'
  OBVIOUS
<1>0. Shape /\ Covered /\ Hosted /\ Numbered
  BY DEF KeptInv, UndoInv
<1>. USE DEF Undoing, Taking, Idle, Settled, NoRef, repository, history, host
<1>1. CASE Ensure
  <2>1. CASE taken # Nothing
    BY <1>1, <2>1 DEF Ensure, UndoInv, Numbered, PutAway, WayBack, Discarded, Holds, CheckedOut, Cleaned, IsTracked
  <2>2. CASE taken = Nothing
    BY <1>0, <1>1, <2>2 DEF Ensure, Hosted, UndoInv, Numbered, PutAway, WayBack, Discarded, Holds, CheckedOut, Cleaned, IsTracked
  <2>. QED
    BY <2>1, <2>2
<1>2. CASE IsClean
  <2>1. CASE tree = {} /\ Take(NoRef)
    <3>1. /\ taken' = [ref |-> NoRef, base |-> ensuring.base] /\ ensuring'.at = "ready" /\ carried = Nothing
          /\ UNCHANGED <<tree, index, stash, stashes, carried, reverting, before, raced>>
          /\ ensuring.at = "headRead" /\ ~Undoing
      BY <1>0, <1>2, <2>1 DEF IsClean, Take, Hosted, Covered, Shape
    <3>2. ~raced => before = {}
      BY <3>1 DEF UndoInv, PutAway
    <3>. QED
      BY <1>0, <3>1, <3>2, <2>1 DEF UndoInv, Numbered, PutAway, WayBack, Discarded, Holds, Shape, Covered, CheckedOut, Cleaned, IsTracked
  <2>2. CASE tree # {} /\ UNCHANGED <<taken, dropped>>
    BY <1>0, <1>2, <2>2 DEF IsClean, Hosted, UndoInv, Numbered, PutAway, WayBack, Discarded, Holds, Shape, Covered, CheckedOut, Cleaned, IsTracked
  <2>. QED
    BY <1>2, <2>1, <2>2 DEF IsClean
<1>3. CASE Push
  <2>1. taken = Nothing /\ ~Undoing /\ ensuring'.at = "pushed" /\ carried = Nothing
        /\ UNCHANGED <<taken, carried, reverting, raced>>
    BY <1>0, <1>3 DEF Push, Numbered, Covered, Hosted, Shape
  <2>2. CASE tree = {}
    BY <1>0, <1>3, <2>1, <2>2 DEF Push, StashPush, UndoInv, Numbered, PutAway, WayBack, Discarded
  <2>3. CASE tree # {}
    <3>1. /\ stashes' = stashes + 1 /\ tree' = {} /\ index' \subseteq tree'
          /\ stash' # <<>> /\ stash'[1].id = stashes'
          /\ \A e \in Range(stash') : e.id \in 1..stashes'
          /\ \A e \in Range(stash') : e.id = stashes' => e.changes = tree
      BY <1>0, <1>3, <2>3, PushNumbers DEF Push
    <3>2. before' = tree
      BY <1>3 DEF Push
    <3>. QED
      BY <1>0, <2>1, <3>1, <3>2 DEF UndoInv, Numbered, PutAway, WayBack, Discarded, Holds, Shape
  <2>. QED
    BY <2>2, <2>3
<1>4. CASE RevParse
  <2>1. /\ taken = Nothing /\ carried = Nothing /\ ~Undoing
        /\ UNCHANGED <<tree, index, stash, stashes, carried, reverting, before, raced>>
    BY <1>0, <1>4 DEF RevParse, Numbered, Covered, Hosted
  <2>2. CASE stash # <<>> /\ taken' = [ref |-> stash[1].id, base |-> ensuring.base] /\ ensuring'.at = "ready"
    <3>1. stash[1] \in Range(stash) /\ stash[1].id \in 1..stashes
      BY <1>0, <2>2 DEF Numbered, Shape, Range
    <3>2. taken'.ref = stash[1].id
      BY <2>2
    <3>3. ~raced => Holds(stash[1].id)
      BY <1>4 DEF RevParse, UndoInv, PutAway
    <3>. QED
      BY <1>0, <2>1, <2>2, <3>1, <3>2, <3>3 DEF UndoInv, Numbered, PutAway, WayBack, Discarded, Holds, Shape
  <2>3. CASE ensuring' = Idle /\ UNCHANGED taken
    BY <1>0, <2>1, <2>3 DEF UndoInv, Numbered, PutAway, WayBack, Discarded, Holds
  <2>. QED
    BY <1>0, <1>4, <2>2, <2>3 DEF RevParse, Take, Shape
<1>5. CASE RunTool
  BY <1>0, <1>5 DEF RunTool, UndoInv, Numbered, Covered, PutAway, WayBack, Discarded, Holds
<1>6. CASE Undo
  <2>1. /\ taken # Nothing /\ ~Undoing /\ ~Taking /\ reverting'.at = "found"
        /\ UNCHANGED <<tree, index, stash, stashes, taken, carried, ensuring, before, raced>>
        /\ IF taken.ref = NoRef THEN reverting'.position = 0
           ELSE reverting'.position \in DOMAIN stash /\ stash[reverting'.position].id = taken.ref
    <3>1. \A k \in DOMAIN stash : stash[k].id # NoRef
      BY <1>0 DEF Numbered, Shape, Range
    <3>. QED
      BY <1>0, <1>6, <3>1 DEF Undo, Covered
  <2>. QED
    BY <1>0, <2>1 DEF UndoInv, Numbered, PutAway, WayBack, Discarded, Holds
<1>7. CASE CheckHead
  BY <1>0, <1>7 DEF CheckHead, UndoInv, Numbered, PutAway, WayBack, Discarded, Holds, Shape
<1>8. CASE Checkout
  BY <1>0, <1>8 DEF Checkout, CheckedOut, IsTracked, UndoInv, Numbered, PutAway, WayBack, Discarded, Holds, Shape, Covered
<1>9. CASE Clean
  BY <1>0, <1>9 DEF Clean, CheckedOut, Cleaned, IsTracked, UndoInv, Numbered, PutAway, WayBack, Discarded, Holds, Shape, Covered
<1>10. CASE Pop
  <2>1. /\ ensuring.at = "idle" /\ reverting' = Settled /\ UNCHANGED <<index, stashes, ensuring, carried, before, raced>>
        /\ taken' \in {taken, Nothing} /\ tree \subseteq tree' /\ Range(stash') \subseteq Range(stash)
    BY <1>0, <1>10, PopTakes DEF Pop, Covered, StashPop
  <2>. QED
    BY <1>0, <2>1 DEF UndoInv, Numbered, PutAway, WayBack, Discarded, Holds, Nothing, Shape
<1>11. CASE Keep
  BY <1>0, <1>11 DEF Keep, UndoInv, Numbered, PutAway, WayBack, Discarded, Holds, Nothing, Shape
<1>12. CASE Rebuild \/ Adopt \/ RebuildFails \/ KeyChange \/ OpenAfresh
  BY <1>0, <1>12 DEF Rebuild, Adopt, RebuildFails, KeyChange, OpenAfresh, Nothing, Hosted, UndoInv, Numbered, PutAway, WayBack, Discarded, Holds, CheckedOut, Cleaned, IsTracked
<1>13. CASE Edit \/ Stage \/ Commit
  <2>1. Numbered' /\ Meddle /\ UNCHANGED stash
    BY <1>0, <1>13 DEF Edit, Stage, Commit, Meddle, Numbered
  <2>. QED
    BY <2>1, UserRaces
<1>14. CASE UserStashes
  <2>1. /\ stashes' = stashes + 1 /\ index' \subseteq tree'
        /\ \A e \in Range(stash') : e.id \in 1..stashes'
        /\ \A e \in Range(stash') : e.id # stashes' => e \in Range(stash)
    BY <1>0, <1>14, PushNumbers DEF UserStashes
  <2>2. Numbered' /\ Meddle
    BY <1>0, <1>14, <2>1 DEF UserStashes, Meddle, Numbered, Shape
  <2>3. taken.ref # stashes' /\ carried.ref # stashes'
    BY <1>0, <2>1 DEF Numbered, Shape
  <2>. QED
    BY <2>1, <2>2, <2>3, UserRaces
<1>15. CASE UserPops
  <2>1. PICK k \in DOMAIN stash : StashPop(k)
    BY <1>15 DEF UserPops
  <2>2. Range(stash') \subseteq Range(stash) /\ tree \subseteq tree' /\ UNCHANGED <<index, stashes>> /\ Meddle
    BY <1>0, <1>15, <2>1, PopTakes DEF UserPops, StashPop
  <2>3. Numbered'
    BY <1>0, <2>2 DEF Numbered, Meddle
  <2>. QED
    BY <2>2, <2>3, UserRaces
<1>16. CASE UNCHANGED checkpointVars
  BY <1>0, <1>16 DEF checkpointVars, UndoInv, Numbered, PutAway, WayBack, Discarded, Holds, CheckedOut, Cleaned, IsTracked
<1>. QED
  BY <1>1, <1>2, <1>3, <1>4, <1>5, <1>6, <1>7, <1>8, <1>9, <1>10, <1>11, <1>12, <1>13, <1>14,
     <1>15, <1>16 DEF CheckpointNext

\* An undo nobody raced ends with the tree the period began with and what
\* was staged since (git.ts:277-299).
THEOREM UndoRestores == CheckpointSpec => UndoRestoresUnstaged
<1>1. KeptInv /\ UndoInv /\ [CheckpointNext]_checkpointVars
        => [Pop /\ taken' = Nothing /\ ~raced => tree' = before \cup index]_checkpointVars
  <2>. SUFFICES ASSUME KeptInv, UndoInv, Pop, taken' = Nothing, ~raced PROVE tree' = before \cup index
    OBVIOUS
  <2>1. reverting.at = "cleaned" /\ Undoing /\ Shape
    BY DEF Pop, Undoing, KeptInv
  <2>2. taken # Nothing /\ index \subseteq tree /\ CheckedOut = {} /\ Cleaned = {}
    BY <2>1 DEF KeptInv, Covered, UndoInv, Numbered, Discarded
  <2>3. tree = index
    BY <2>2 DEF CheckedOut, Cleaned, IsTracked
  <2>4. CASE taken.ref = NoRef
    <3>1. reverting.position = 0 /\ before = {}
      BY <2>1, <2>2, <2>4 DEF UndoInv, WayBack
    <3>2. 0 \notin DOMAIN stash
      BY <2>1 DEF Shape
    <3>. QED
      BY <2>2, <2>3, <3>1, <3>2 DEF Pop
  <2>5. CASE taken.ref # NoRef
    <3>1. /\ reverting.position \in DOMAIN stash
          /\ \A e \in Range(stash) : e.id = taken.ref => e.changes = before
          /\ stash[reverting.position].id = taken.ref
      BY <2>1, <2>2, <2>5 DEF UndoInv, WayBack, Holds
    <3>2. stash[reverting.position].changes = before /\ reverting.position # 0 /\ ~(reverting.position > Len(stash))
      BY <2>1, <3>1 DEF Range, Shape
    <3>. QED
      BY <2>3, <3>1, <3>2 DEF Pop, StashPop
  <2>. QED
    BY <2>4, <2>5
<1>. QED
  BY <1>1, KeptInit, KeptStep, UndoInit, UndoStep, PTL DEF CheckpointSpec, UndoRestoresUnstaged
=============================================================================
