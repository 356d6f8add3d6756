---------------------------- MODULE CodeRunProofs ----------------------------
(***************************************************************************)
(* Proofs about CodeRun: for any candidates, declared commands, retries    *)
(* and faults.                                                             *)
(***************************************************************************)
EXTENDS CodeRun, TLAPS

\* A candidate whose command is running is at one of the declared commands.
Valid ==
  /\ TypeOK
  /\ \A c \in Candidates : step[c] \in {"first", "second"} => at[c] \in 1..Len(Commands)


\* The rows and steps of what a candidate's own action leaves alone.
OthersKept(c) ==
  \A d \in Candidates \ {c} : /\ cand'[d] = cand[d] /\ step'[d] = step[d] /\ at'[d] = at[d]
                              /\ attempt'[d] = attempt[d] /\ passed'[d] = passed[d]
                              /\ (d \in late' <=> d \in late) /\ (d \in recorded' <=> d \in recorded)

-----------------------------------------------------------------------------
\* What a gate that is due does to its candidate.
LEMMA GateDueStep ==
  ASSUME TypeOK, NEW c \in Candidates, NEW i \in 1..(Len(Commands) + 1), GateDue(c, i)
  PROVE  \/ /\ i \in 1..Len(Commands) /\ step' = [step EXCEPT ![c] = "first"] /\ at' = [at EXCEPT ![c] = i]
            /\ UNCHANGED <<cand, attempt>>
         \/ /\ i = Len(Commands) + 1 \/ aborted \/ c \in late
            /\ Judged(c, TRUE)
<1>1. Len(Commands) \in Nat /\ i \in Nat
  BY CodeRunAssumption
<1>2. CASE /\ i <= Len(Commands) /\ ~aborted /\ c \notin late
           /\ step' = [step EXCEPT ![c] = "first"] /\ at' = [at EXCEPT ![c] = i] /\ UNCHANGED <<cand, attempt>>
  <2>1. i \in 1..Len(Commands)
    BY <1>1, <1>2
  <2> QED
    BY <1>2, <2>1, Zenon
<1>3. CASE (i > Len(Commands) \/ aborted \/ c \in late) /\ Judged(c, TRUE)
  <2>1. i > Len(Commands) => i = Len(Commands) + 1
    BY <1>1
  <2> QED
    BY <1>3, <2>1
<1> QED
  BY <1>2, <1>3 DEF GateDue

\* Every reachable state is well typed.
THEOREM TypeInv == Spec => []Valid
<1> USE CodeRunAssumption
<1>1. Init => Valid
  <2> SUFFICES ASSUME Init PROVE Valid
    OBVIOUS
  <2>1. /\ cand \in [Candidates -> {"none", "queued", "running", "completed", "failed", "excluded"}]
        /\ step \in [Candidates -> Busy \cup {"idle", "ended"}]
        /\ attempt \in [Candidates -> 0..(MaxRetries + 1)] /\ at \in [Candidates -> 0..Len(Commands)]
        /\ passed \in [Candidates -> SUBSET CommandSet]
    BY DEF Init
  <2>2. pc \in Places /\ status = "none" /\ result = {} /\ {aborted, cleaning} \subseteq BOOLEAN
        /\ broken = {} /\ trees \cup debris \cup tracked \cup stuck \cup hurried = {}
        /\ added \cup late = {} /\ edited \cup recorded \cup foreign = {}
    BY DEF Init, Places
  <2>3. measured \in 0..Len(Commands) /\ rejects \in 0..MaxRejects
    BY DEF Init
  <2>4. \A c \in Candidates : step[c] = "idle"
    BY DEF Init
  <2> QED
    BY <2>1, <2>2, <2>3, <2>4 DEF Valid, TypeOK
<1>2. Valid /\ [Next]_vars => Valid'
  <2> SUFFICES ASSUME Valid, [Next]_vars PROVE Valid'
    OBVIOUS
  <2> USE DEF Valid, TypeOK
  <2>1. CASE Create
    BY <2>1 DEF Create, disk, gates, Places
  <2>2. CASE BaselineAdded \/ BaselineRemoved
    BY <2>2 DEF BaselineAdded, BaselineRemoved, Remove, gates, work, Places
  <2>3. CASE Measure
    <3>1. measured + 1 \in 1..Len(Commands) /\ Commands[measured + 1] \in CommandSet
      BY <2>3 DEF Measure, CommandSet
    <3> QED
      BY <2>3, <3>1 DEF Measure, disk, gates, work
  <2>4. ASSUME NEW c \in Candidates, AddWorktree(c) PROVE Valid'
    <3>1. CASE added' # Candidates
      BY <2>4, <3>1 DEF AddWorktree, gates
    <3>2. CASE added' = Candidates
      <4>1. /\ cand' \in [Candidates -> {"none", "queued", "running", "completed", "failed", "excluded"}]
            /\ step' \in [Candidates -> Busy \cup {"idle", "ended"}]
            /\ \A d \in Candidates : step'[d] \notin {"first", "second"}
        <5>1. cand' = [d \in Candidates |-> IF d \in tracked' THEN "running" ELSE cand[d]]
          BY <2>4, <3>2 DEF AddWorktree
        <5>2. step' = [d \in Candidates |-> IF d \in tracked' /\ ~aborted THEN "running" ELSE "ended"]
          BY <2>4, <3>2 DEF AddWorktree
        <5>3. cand' \in [Candidates -> {"none", "queued", "running", "completed", "failed", "excluded"}]
          BY <5>1
        <5> QED
          BY <5>2, <5>3 DEF Busy
      <4>2. attempt' \in [Candidates -> 0..(MaxRetries + 1)]
        <5>1. attempt' = [d \in Candidates |-> IF d \in tracked' /\ ~aborted THEN 1 ELSE 0]
          BY <2>4, <3>2 DEF AddWorktree
        <5> QED
          BY <5>1
      <4> QED
        BY <2>4, <3>2, <4>1, <4>2 DEF AddWorktree, gates, Places
    <3> QED
      BY <3>1, <3>2
  <2>5. CASE AddFails \/ Flushed
    BY <2>5 DEF AddFails, Flushed, disk, gates, work, Places
  <2>6. ASSUME NEW w \in Candidates \cup {None}, Conclude(w) PROVE pc' \in Places /\ result' \subseteq Candidates \cup {None}
    BY <2>6 DEF Conclude, Places
  <2>7. CASE AllSettled
    <3>1. pc' \in Places /\ result' \subseteq Candidates \cup {None}
      BY <2>7, <2>6 DEF AllSettled, Survivors, Places
    <3>2. status' \in {"none", "running", "evaluating"} \cup Terminal
      BY <2>7 DEF AllSettled
    <3> QED
      BY <2>7, <3>1, <3>2 DEF AllSettled, disk, gates, work
  <2>8. CASE SurvivorsJudged
    <3>1. pc' \in Places /\ result' \subseteq Candidates \cup {None}
      BY <2>8, <2>6 DEF SurvivorsJudged, Survivors, Places
    <3> QED
      BY <2>8, <3>1 DEF SurvivorsJudged, disk, gates, work
  <2>9. CASE Recorded \/ Fail
    BY <2>9 DEF Recorded, Fail, disk, gates, work, Places, Terminal
  <2>10. CASE Cancel
    BY <2>10 DEF Cancel, disk, gates, work, Terminal
  <2>11. CASE Reject
    BY <2>11 DEF Reject, run, gates, work
  <2>12. ASSUME NEW t \in tracked, Clean(t) PROVE Valid'
    <3>1. hurried' \in {hurried, hurried \cup {t}}
      BY <2>12 DEF Clean
    <3> QED
      BY <2>12, <3>1 DEF Clean, Remove, run, gates, work
  <2>written. ASSUME NEW t \in Candidates \cup {"baseline"}, WriteBehind(t) PROVE Valid'
    BY <2>written DEF WriteBehind, run, gates, work
  <2>13. CASE Cleaned
    BY <2>13 DEF Cleaned, run, gates, work
  <2>14. CASE Restart
    <3>1. /\ pc' = "orphan" /\ tracked' = {} /\ cleaning' = FALSE
          /\ UNCHANGED <<status, result, aborted, measured, broken, trees, debris, added, rejects, stuck,
                         hurried, passed, cand, late, edited, recorded, foreign>>
      BY <2>14 DEF Restart
    <3>2. step' \in [Candidates -> Busy \cup {"idle", "ended"}] /\ \A c \in Candidates : step'[c] = "ended"
      BY <2>14 DEF Restart
    <3>3. attempt' \in [Candidates -> 0..(MaxRetries + 1)] /\ at' \in [Candidates -> 0..Len(Commands)]
      BY <2>14 DEF Restart
    <3> QED
      BY <3>1, <3>2, <3>3 DEF Places
  <2>15. ASSUME NEW c \in Candidates, TimeOut(c) \/ Edit(c) PROVE Valid'
    BY <2>15 DEF TimeOut, Edit, run, disk, gates
  <2>16. ASSUME NEW c \in Candidates, RunnerReturns(c) PROVE Valid'
    BY <2>16 DEF RunnerReturns, run, disk, gates, Busy
  <2>17. ASSUME NEW c \in Candidates, AttemptFails(c) PROVE Valid'
    <3>1. CASE Retry(c)
      <4>1. attempt[c] + 1 \in 0..(MaxRetries + 1)
        BY <3>1 DEF Retry
      <4>2. attempt' \in [Candidates -> 0..(MaxRetries + 1)]
        BY <3>1, <4>1 DEF Retry
      <4>3. /\ step' \in [Candidates -> Busy \cup {"idle", "ended"}]
            /\ \A d \in Candidates : step'[d] \in {"first", "second"} => step[d] \in {"first", "second"}
        BY <3>1 DEF Retry, Busy
      <4> QED
        BY <2>17, <3>1, <4>2, <4>3 DEF Retry, AttemptFails, run, disk, gates
    <3>2. CASE GiveUp(c)
      <4>1. attempt' \in [Candidates -> 0..(MaxRetries + 1)]
        BY <3>2 DEF GiveUp
      <4>2. /\ step' \in [Candidates -> Busy \cup {"idle", "ended"}]
            /\ \A d \in Candidates : step'[d] \in {"first", "second"} => step[d] \in {"first", "second"}
            /\ cand' \in [Candidates -> {"none", "queued", "running", "completed", "failed", "excluded"}]
        BY <3>2 DEF GiveUp
      <4> QED
        BY <2>17, <3>2, <4>1, <4>2 DEF GiveUp, AttemptFails, run, disk, gates
    <3> QED
      BY <2>17, <3>1, <3>2 DEF AttemptFails
  <2>18. ASSUME NEW c \in Candidates, NEW survived \in BOOLEAN, Judged(c, survived)
         PROVE  /\ cand' \in [Candidates -> {"none", "queued", "running", "completed", "failed", "excluded"}]
                /\ step' \in [Candidates -> Busy \cup {"idle", "ended"}]
                /\ attempt' \in [Candidates -> 0..(MaxRetries + 1)] /\ at' \in [Candidates -> 0..Len(Commands)]
                /\ \A d \in Candidates : step'[d] \in {"first", "second"} => at'[d] \in 1..Len(Commands)
    <3>1. attempt' \in [Candidates -> 0..(MaxRetries + 1)] /\ at' \in [Candidates -> 0..Len(Commands)]
      BY <2>18 DEF Judged
    <3> QED
      BY <2>18, <3>1 DEF Judged
  <2>19. ASSUME NEW c \in Candidates, NEW i \in 1..(Len(Commands) + 1), GateDue(c, i)
         PROVE  /\ cand' \in [Candidates -> {"none", "queued", "running", "completed", "failed", "excluded"}]
                /\ step' \in [Candidates -> Busy \cup {"idle", "ended"}]
                /\ attempt' \in [Candidates -> 0..(MaxRetries + 1)] /\ at' \in [Candidates -> 0..Len(Commands)]
                /\ \A d \in Candidates : step'[d] \in {"first", "second"} => at'[d] \in 1..Len(Commands)
    <3>1. CASE Judged(c, TRUE)
      BY <3>1, <2>18
    <3>2. CASE /\ i \in 1..Len(Commands) /\ step' = [step EXCEPT ![c] = "first"] /\ at' = [at EXCEPT ![c] = i]
               /\ UNCHANGED <<cand, attempt>>
      BY <3>2 DEF Busy
    <3> QED
      BY <2>19, <3>1, <3>2, GateDueStep
  <2>20. ASSUME NEW c \in Candidates, Collect(c) \/ CollectForeign(c) PROVE Valid'
    <3>1. 1 \in 1..(Len(Commands) + 1)
      OBVIOUS
    <3>2. /\ cand' \in [Candidates -> {"none", "queued", "running", "completed", "failed", "excluded"}]
          /\ step' \in [Candidates -> Busy \cup {"idle", "ended"}]
          /\ attempt' \in [Candidates -> 0..(MaxRetries + 1)] /\ at' \in [Candidates -> 0..Len(Commands)]
          /\ \A d \in Candidates : step'[d] \in {"first", "second"} => at'[d] \in 1..Len(Commands)
      BY <2>20, <3>1, <2>18, <2>19 DEF Collect, CollectForeign
    <3>3. UNCHANGED <<run, disk, passed, late, edited>>
      BY <2>20 DEF Collect, CollectForeign
    <3>4. recorded' \in {recorded \ {c}, recorded \cup {c}} /\ foreign' \in {foreign, foreign \cup {c}}
      BY <2>20 DEF Collect, CollectForeign
    <3> QED
      BY <3>2, <3>3, <3>4 DEF run, disk
  <2>21. ASSUME NEW c \in Candidates, CommandExits(c) PROVE Valid'
    <3>1. /\ at[c] \in 1..Len(Commands) /\ Commands[at[c]] \in CommandSet
          /\ at[c] + 1 \in 1..(Len(Commands) + 1)
      <4>1. step[c] \in {"first", "second"}
        BY <2>21 DEF CommandExits
      <4>2. at[c] \in 1..Len(Commands)
        BY <4>1
      <4> QED
        BY <4>2 DEF CommandSet
    <3>2. /\ cand' \in [Candidates -> {"none", "queued", "running", "completed", "failed", "excluded"}]
          /\ step' \in [Candidates -> Busy \cup {"idle", "ended"}]
          /\ attempt' \in [Candidates -> 0..(MaxRetries + 1)] /\ at' \in [Candidates -> 0..Len(Commands)]
          /\ passed' \in [Candidates -> SUBSET CommandSet]
          /\ \A d \in Candidates : step'[d] \in {"first", "second"} => at'[d] \in 1..Len(Commands)
      <4>1. ASSUME NEW ok \in BOOLEAN, Record(c, ok)
            PROVE  passed' \in [Candidates -> SUBSET CommandSet] /\ (GateDue(c, at[c] + 1) \/ Judged(c, FALSE))
        BY <4>1, <3>1 DEF Record
      <4>2. CASE \E ok \in BOOLEAN : Record(c, ok)
        BY <4>1, <4>2, <3>1, <2>18, <2>19
      <4>3. CASE step[c] = "first" /\ step' = [step EXCEPT ![c] = "second"] /\ UNCHANGED <<at, passed, cand, attempt>>
        BY <4>3 DEF Busy
      <4> QED
        BY <2>21, <4>2, <4>3 DEF CommandExits
    <3> QED
      BY <2>21, <3>2 DEF CommandExits, run, disk
  <2>22. CASE UNCHANGED vars
    BY <2>22 DEF vars, run, disk, gates, work
  <2> QED
    BY <2>1, <2>2, <2>3, <2>4, <2>5, <2>7, <2>8, <2>9, <2>10, <2>11, <2>12, <2>13, <2>14, <2>15, <2>16, <2>17,
       <2>20, <2>21, <2>22, <2>written DEF Next, RunStep, CandidateStep, CleanStep
<1> QED
  BY <1>1, <1>2, PTL DEF Spec

\* The type invariant alone.
THEOREM TypeCorrect == Spec => []TypeOK
<1>1. Valid => TypeOK
  BY DEF Valid
<1> QED
  BY <1>1, TypeInv, PTL

-----------------------------------------------------------------------------
\* What is in the map is on disk; who is at work is in it, or was there when
\* a rejection came by: the only ones whose directory may come back, and for
\* whom git may work elsewhere.
TreeInv ==
  /\ foreign \cup debris \subseteq hurried
  /\ tracked \subseteq trees
  /\ pc # "orphan" => trees \subseteq tracked \cup stuck \cup hurried
  /\ \A t \in Candidates \cup {"baseline"} : AtWork(t) => t \in tracked \cup hurried

\* Every step keeps it.
THEOREM TreesKept == Spec => []TreeInv
<1> USE CodeRunAssumption
<1>1. Init => TreeInv
  BY DEF Init, TreeInv, AtWork, Busy
<1>2. Valid /\ TreeInv /\ [Next]_vars => TreeInv'
  <2> SUFFICES ASSUME Valid, TreeInv, [Next]_vars PROVE TreeInv'
    OBVIOUS
  <2>same. ASSUME UNCHANGED <<disk, foreign>>, pc = "orphan" => pc' = "orphan",
                  \A t \in Candidates \cup {"baseline"} : AtWork(t)' => AtWork(t)
           PROVE  TreeInv'
    BY <2>same DEF TreeInv, disk
  <2>1. CASE Create
    BY <2>1, <2>same DEF Create, AtWork
  <2>2. CASE BaselineAdded
    BY <2>2 DEF BaselineAdded, TreeInv, AtWork, work
  <2>3. CASE BaselineRemoved
    <3>1. /\ tracked' = tracked \ {"baseline"} /\ trees \ {"baseline"} \subseteq trees' /\ trees' \subseteq trees
          /\ stuck \subseteq stuck' /\ ("baseline" \in trees' => "baseline" \in trees /\ "baseline" \in stuck')
          /\ pc = "measuring" /\ pc' \in {"flush", "adding"} /\ UNCHANGED <<debris, hurried, foreign, step>>
      BY <2>3 DEF BaselineRemoved, Remove, work
    <3> QED
      BY <3>1 DEF TreeInv, AtWork
  <2>4. ASSUME NEW c \in Candidates, AddWorktree(c) PROVE TreeInv'
    <3>1. /\ trees' = trees \cup {c} /\ tracked' = tracked \cup {c} /\ pc = "adding"
          /\ UNCHANGED <<debris, stuck, hurried, foreign>> /\ pc' \in {"adding", "drafting"}
      BY <2>4 DEF AddWorktree
    <3>2. \A d \in Candidates : step'[d] \in Busy => step[d] \in Busy \/ d \in tracked'
      <4>1. CASE UNCHANGED step
        BY <4>1
      <4>2. CASE step' = [d \in Candidates |-> IF d \in tracked' /\ ~aborted THEN "running" ELSE "ended"]
        BY <4>2 DEF Busy
      <4> QED
        BY <2>4, <4>1, <4>2 DEF AddWorktree
    <3> QED
      BY <3>1, <3>2 DEF TreeInv, AtWork
  <2>5. CASE Measure \/ AddFails \/ Flushed \/ AllSettled \/ SurvivorsJudged \/ Recorded \/ Fail \/ Cancel
    <3>1. /\ UNCHANGED <<disk, work>> /\ pc # "orphan"
          /\ pc' = "measuring" => pc = "measuring"
      BY <2>5 DEF Measure, AddFails, Flushed, AllSettled, SurvivorsJudged, Recorded, Fail, Cancel, Conclude
    <3> QED
      BY <3>1, <2>same DEF AtWork, work
  <2>6. CASE Reject \/ Cleaned
    BY <2>6 DEF Reject, Cleaned, run, work, TreeInv, AtWork
  <2>7. ASSUME NEW t \in tracked, Clean(t) PROVE TreeInv'
    <3>1. /\ tracked' = tracked \ {t} /\ trees \ {t} \subseteq trees' /\ trees' \subseteq trees
          /\ stuck \subseteq stuck' /\ (t \in trees' => t \in stuck')
          /\ hurried' = (IF AtWork(t) THEN hurried \cup {t} ELSE hurried)
          /\ UNCHANGED <<run, work, debris>>
      BY <2>7 DEF Clean, Remove
    <3> QED
      BY <3>1 DEF TreeInv, AtWork, run, work
  <2>8. CASE Restart
    <3>1. \A t \in Candidates \cup {"baseline"} : ~AtWork(t)'
      BY <2>8 DEF Restart, AtWork, Busy
    <3> QED
      BY <2>8, <3>1 DEF Restart, TreeInv
  <2>9. ASSUME NEW t \in Candidates \cup {"baseline"}, WriteBehind(t) PROVE TreeInv'
    <3>1. t \in hurried
      BY <2>9 DEF WriteBehind, TreeInv
    <3> QED
      BY <2>9, <3>1 DEF WriteBehind, TreeInv, AtWork, run, work
  <2>10. ASSUME NEW c \in Candidates, CandidateStep(c) \/ TimeOut(c) \/ Edit(c) PROVE TreeInv'
    <3>1. UNCHANGED <<run, disk>> /\ \A d \in Candidates : step'[d] \in Busy => step[d] \in Busy
      <4>1. ASSUME UNCHANGED step PROVE \A d \in Candidates : step'[d] \in Busy => step[d] \in Busy
        BY <4>1
      <4>2. ASSUME NEW s, step' = [step EXCEPT ![c] = s], step[c] \in Busy
            PROVE  \A d \in Candidates : step'[d] \in Busy => step[d] \in Busy
        BY <4>2 DEF Valid, TypeOK
      <4>3. ASSUME NEW i, GateDue(c, i) PROVE \E s : step' = [step EXCEPT ![c] = s]
        BY <4>3 DEF GateDue, Judged
      <4>4. ASSUME NEW ok, Record(c, ok) PROVE \E s : step' = [step EXCEPT ![c] = s]
        BY <4>3, <4>4 DEF Record, Judged
      <4>5. CASE TimeOut(c) \/ Edit(c)
        BY <4>1, <4>5 DEF TimeOut, Edit
      <4>6. CASE RunnerReturns(c) \/ AttemptFails(c)
        BY <4>2, <4>6 DEF RunnerReturns, AttemptFails, Retry, GiveUp, Busy
      <4>7. CASE Collect(c) \/ CollectForeign(c)
        <5>1. step[c] \in Busy /\ \E s : step' = [step EXCEPT ![c] = s]
          BY <4>3, <4>7 DEF Collect, CollectForeign, Judged, Busy
        <5> QED
          BY <4>2, <4>7, <5>1 DEF Collect, CollectForeign
      <4>8. CASE CommandExits(c)
        <5>1. step[c] \in Busy /\ \E s : step' = [step EXCEPT ![c] = s]
          BY <4>4, <4>8 DEF CommandExits, Busy
        <5> QED
          BY <4>2, <4>8, <5>1 DEF CommandExits
      <4>9. UNCHANGED <<run, disk>>
        BY <2>10 DEF CandidateStep, RunnerReturns, AttemptFails, Collect, CollectForeign, CommandExits, TimeOut, Edit
      <4> QED
        BY <2>10, <4>5, <4>6, <4>7, <4>8, <4>9 DEF CandidateStep
    <3>2. foreign' \subseteq hurried
      <4>1. CASE CollectForeign(c)
        BY <4>1 DEF CollectForeign, TreeInv
      <4>2. CASE UNCHANGED foreign
        BY <4>2 DEF TreeInv
      <4> QED
        BY <2>10, <4>1, <4>2 DEF CandidateStep, RunnerReturns, AttemptFails, Collect, CommandExits, TimeOut, Edit
    <3> QED
      BY <3>1, <3>2 DEF TreeInv, AtWork, run, disk
  <2>11. CASE UNCHANGED vars
    BY <2>11, <2>same DEF vars, run, work, AtWork
  <2> QED
    BY <2>1, <2>2, <2>3, <2>4, <2>5, <2>6, <2>7, <2>8, <2>9, <2>10, <2>11 DEF Next, RunStep, CleanStep
<1> QED
  BY <1>1, <1>2, TypeInv, PTL DEF Spec

\* As long as the process lives, what is on disk can still be released, except
\* what resisted or came back after a rejection passed over who worked in it.
THEOREM TreesKnown == Spec => []NoTreeForgottenUnlessHurried
<1>1. TreeInv => NoTreeForgottenUnlessHurried
  BY DEF TreeInv, NoTreeForgottenUnlessHurried
<1> QED
  BY <1>1, TreesKept, PTL

-----------------------------------------------------------------------------
\* Every hard command up to the i-th passed on the candidate, or is excused.
TestedUpTo(c, i) ==
  \A k \in 1..i : Commands[k] \in Hard => Commands[k] \in passed[c] \cup (Regression \cap broken)

\* A candidate at its gates has a diff on record and has passed those before;
\* one that survived has passed them all, and is not at work any more.
EarnedAt(c) ==
  /\ step[c] \in {"first", "second"} =>
       /\ c \in recorded
       /\ c \notin late /\ ~aborted => TestedUpTo(c, at[c] - 1)
  /\ cand[c] = "completed" =>
       /\ step[c] \notin Busy /\ c \in recorded
       /\ c \notin late /\ ~aborted => Tested(c)

EarnedInv == \A c \in Candidates : EarnedAt(c)

\* An attempt that was neither timed out nor cancelled survives only by
\* passing every hard gate, with a diff on record.
THEOREM Earned == Spec => []EarnedInv
<1> USE CodeRunAssumption
<1>1. Init => EarnedInv
  BY DEF Init, EarnedInv, EarnedAt, Busy
<1>2. Valid /\ EarnedInv /\ [Next]_vars => EarnedInv'
  <2> SUFFICES ASSUME Valid, EarnedInv, [Next]_vars PROVE EarnedInv'
    OBVIOUS
  <2>ty. /\ DOMAIN cand = Candidates /\ DOMAIN step = Candidates /\ DOMAIN at = Candidates
         /\ DOMAIN passed = Candidates
    BY DEF Valid, TypeOK
  <2>kept. ASSUME NEW c \in Candidates, broken \subseteq broken', aborted => aborted', passed'[c] = passed[c],
                  at'[c] = at[c] \/ step'[c] \notin Busy,
                  step'[c] = step[c] \/ step'[c] \notin {"first", "second"},
                  cand'[c] = cand[c] \/ cand'[c] # "completed",
                  c \in late => c \in late' \/ step[c] \in Busy,
                  c \in recorded => c \in recorded',
                  cand'[c] = "completed" => step'[c] \notin Busy,
                  step'[c] \in {"first", "second"} => (c \in late => c \in late')
           PROVE  EarnedAt(c)'
    BY <2>kept DEF EarnedInv, EarnedAt, TestedUpTo, Tested, Busy
  <2>1. ASSUME UNCHANGED <<gates, work>>, broken \subseteq broken', aborted => aborted' PROVE EarnedInv'
    <3> SUFFICES ASSUME NEW c \in Candidates PROVE EarnedAt(c)'
      BY DEF EarnedInv
    <3>1. cand[c] = "completed" => step[c] \notin Busy
      BY DEF EarnedInv, EarnedAt
    <3> QED
      BY <2>1, <3>1, <2>kept DEF gates, work
  <2>2. CASE BaselineAdded \/ BaselineRemoved \/ AddFails \/ AllSettled \/ SurvivorsJudged \/ Recorded \/ Fail \/ Flushed
             \/ Reject \/ Cleaned \/ (\E t \in tracked : Clean(t)) \/ (\E t \in Candidates \cup {"baseline"} : WriteBehind(t))
             \/ UNCHANGED vars
    <3>1. UNCHANGED <<gates, work, broken, aborted>>
      BY <2>2 DEF BaselineAdded, BaselineRemoved, AddFails, AllSettled, SurvivorsJudged, Recorded, Fail, Flushed,
         Reject, Cleaned, Clean, WriteBehind, vars, run
    <3> QED
      BY <3>1, <2>1
  <2>3. CASE Measure \/ Cancel
    BY <2>3, <2>1 DEF Measure, Cancel
  <2>4. CASE Create
    <3> SUFFICES ASSUME NEW c \in Candidates PROVE EarnedAt(c)'
      BY DEF EarnedInv
    <3>1. cand'[c] = "queued" /\ UNCHANGED <<gates, step, late, recorded, broken, aborted>>
      BY <2>4 DEF Create
    <3> QED
      BY <3>1, <2>kept DEF gates
  <2>5. ASSUME NEW a \in Candidates, AddWorktree(a) PROVE EarnedInv'
    <3>1. CASE added' # Candidates
      BY <2>5, <3>1, <2>1 DEF AddWorktree, work
    <3>2. CASE added' = Candidates
      <4>1. /\ cand' = [d \in Candidates |-> IF d \in tracked' THEN "running" ELSE cand[d]]
            /\ step' = [d \in Candidates |-> IF d \in tracked' /\ ~aborted THEN "running" ELSE "ended"]
            /\ UNCHANGED <<gates, late, recorded, broken, aborted>>
        BY <2>5, <3>2 DEF AddWorktree
      <4> SUFFICES ASSUME NEW c \in Candidates PROVE EarnedAt(c)'
        BY DEF EarnedInv
      <4>2. /\ step'[c] \in {"running", "ended"} /\ (cand'[c] = "running" \/ cand'[c] = cand[c])
            /\ (cand'[c] = "completed" => step'[c] = "ended")
        BY <4>1
      <4> QED
        BY <4>1, <4>2, <2>kept DEF gates, Busy
    <3> QED
      BY <3>1, <3>2
  <2>6. CASE Restart
    <3> SUFFICES ASSUME NEW c \in Candidates PROVE EarnedAt(c)'
      BY DEF EarnedInv
    <3>1. step'[c] = "ended" /\ UNCHANGED <<cand, passed, late, recorded, broken, aborted>>
      BY <2>6 DEF Restart
    <3> QED
      BY <3>1, <2>kept DEF Busy
  <2>7. ASSUME NEW a \in Candidates, TimeOut(a) \/ Edit(a) PROVE EarnedInv'
    <3> SUFFICES ASSUME NEW c \in Candidates PROVE EarnedAt(c)'
      BY DEF EarnedInv
    <3>1. UNCHANGED <<cand, step, gates, recorded, broken, aborted>> /\ late \subseteq late'
      BY <2>7 DEF TimeOut, Edit, run
    <3>2. cand[c] = "completed" => step[c] \notin Busy
      BY DEF EarnedInv, EarnedAt
    <3> QED
      BY <3>1, <3>2, <2>kept DEF gates
  <2>8. ASSUME NEW a \in Candidates, RunnerReturns(a) \/ AttemptFails(a) PROVE EarnedInv'
    <3>0. CASE Retry(a) \/ GiveUp(a) \/ RunnerReturns(a)
      <4>1. UNCHANGED <<gates, recorded, broken, aborted>> /\ step[a] \in {"running", "collecting"} /\ late \ {a} \subseteq late'
        BY <2>8 DEF RunnerReturns, AttemptFails, Retry, GiveUp, run
      <4>2. /\ step'[a] \in {"running", "ended", "collecting"} /\ (cand'[a] = cand[a] \/ cand'[a] # "completed")
            /\ \A d \in Candidates \ {a} : step'[d] = step[d] /\ cand'[d] = cand[d]
        BY <2>8, <3>0, <2>ty DEF RunnerReturns, Retry, GiveUp
      <4>3. cand[a] # "completed"
        BY <4>1 DEF EarnedInv, EarnedAt, Busy
      <4> SUFFICES ASSUME NEW c \in Candidates PROVE EarnedAt(c)'
        BY DEF EarnedInv
      <4>4. CASE c = a
        BY <4>1, <4>2, <4>3, <4>4, <2>kept DEF gates, Busy
      <4>5. CASE c # a
        <5>1. cand[c] = "completed" => step[c] \notin Busy
          BY DEF EarnedInv, EarnedAt
        <5> QED
          BY <4>1, <4>2, <4>5, <5>1, <2>kept DEF gates
      <4> QED
        BY <4>4, <4>5
    <3> QED
      BY <2>8, <3>0 DEF AttemptFails
  <2>others. ASSUME NEW a \in Candidates, OthersKept(a), UNCHANGED <<broken, aborted>>, EarnedAt(a)' PROVE EarnedInv'
    <3> SUFFICES ASSUME NEW c \in Candidates, c # a PROVE EarnedAt(c)'
      BY <2>others DEF EarnedInv
    <3>1. cand[c] = "completed" => step[c] \notin Busy
      BY DEF EarnedInv, EarnedAt
    <3> QED
      BY <2>others, <3>1, <2>kept DEF OthersKept
  <2>due. ASSUME NEW a \in Candidates, NEW i \in 1..(Len(Commands) + 1), GateDue(a, i),
                 UNCHANGED <<broken, aborted, late>>, step[a] \in Busy, a \in recorded',
                 a \notin late /\ ~aborted => TestedUpTo(a, i - 1)'
          PROVE  /\ EarnedAt(a)'
                 /\ \A d \in Candidates \ {a} : /\ cand'[d] = cand[d] /\ step'[d] = step[d]
                                                /\ at'[d] = at[d] /\ attempt'[d] = attempt[d]
    <3>1. CASE /\ i \in 1..Len(Commands) /\ step' = [step EXCEPT ![a] = "first"] /\ at' = [at EXCEPT ![a] = i]
               /\ UNCHANGED <<cand, attempt>>
      <4>1. step'[a] = "first" /\ at'[a] = i /\ cand'[a] # "completed"
        BY <3>1, <2>due, <2>ty DEF EarnedInv, EarnedAt
      <4>2. \A d \in Candidates \ {a} : step'[d] = step[d] /\ at'[d] = at[d]
        BY <3>1, <2>ty
      <4> QED
        BY <3>1, <4>1, <4>2, <2>due DEF EarnedAt
    <3>2. CASE (i = Len(Commands) + 1 \/ aborted \/ a \in late) /\ Judged(a, TRUE)
      <4>1. step'[a] = "ended" /\ cand'[a] = "completed"
        BY <3>2, <2>ty DEF Judged
      <4>2. a \notin late' /\ ~aborted' => Tested(a)'
        <5> SUFFICES ASSUME a \notin late, ~aborted PROVE Tested(a)'
          BY <2>due
        <5>1. i - 1 = Len(Commands)
          BY <3>2
        <5> QED
          BY <2>due, <5>1 DEF TestedUpTo, Tested, CommandSet
      <4>3. \A d \in Candidates \ {a} : /\ cand'[d] = cand[d] /\ step'[d] = step[d]
                                        /\ at'[d] = at[d] /\ attempt'[d] = attempt[d]
        BY <3>2 DEF Judged, Valid, TypeOK
      <4> QED
        BY <4>1, <4>2, <4>3, <2>due DEF EarnedAt, Busy
    <3> QED
      BY <2>due, <3>1, <3>2, GateDueStep DEF Valid
  <2>out. ASSUME NEW a \in Candidates, Judged(a, FALSE)
          PROVE  /\ EarnedAt(a)'
                 /\ \A d \in Candidates \ {a} : /\ cand'[d] = cand[d] /\ step'[d] = step[d]
                                                /\ at'[d] = at[d] /\ attempt'[d] = attempt[d]
    BY <2>out, <2>ty DEF Judged, EarnedAt, Valid, TypeOK
  <2>9. ASSUME NEW a \in Candidates, Collect(a) \/ CollectForeign(a) PROVE EarnedInv'
    <3>1. /\ UNCHANGED <<broken, aborted, late, passed>> /\ step[a] \in Busy
          /\ \A d \in Candidates \ {a} : d \in recorded' <=> d \in recorded
      BY <2>9 DEF Collect, CollectForeign, run, Busy
    <3>2. \/ Judged(a, FALSE)
          \/ a \in recorded' /\ GateDue(a, 1)
      BY <2>9 DEF Collect, CollectForeign
    <3>3. TestedUpTo(a, 1 - 1)' /\ 1 \in 1..(Len(Commands) + 1)
      BY DEF TestedUpTo
    <3>4. /\ EarnedAt(a)'
          /\ \A d \in Candidates \ {a} : /\ cand'[d] = cand[d] /\ step'[d] = step[d]
                                         /\ at'[d] = at[d] /\ attempt'[d] = attempt[d]
      BY <3>1, <3>2, <3>3, <2>due, <2>out
    <3> QED
      BY <3>1, <3>4, <2>others DEF OthersKept
  <2>10. ASSUME NEW a \in Candidates, CommandExits(a) PROVE EarnedInv'
    <3>1. /\ step[a] \in {"first", "second"} /\ UNCHANGED <<broken, aborted, late, recorded>>
      BY <2>10 DEF CommandExits, run
    <3>2. at[a] \in 1..Len(Commands) /\ a \in recorded
      BY <3>1 DEF Valid, EarnedInv, EarnedAt
    <3>3. ASSUME NEW ok \in BOOLEAN, Record(a, ok) PROVE EarnedInv'
      <4> DEFINE g == Commands[at[a]]
      <4>1. /\ passed' = [passed EXCEPT ![a] = IF ok THEN @ \cup {g} ELSE @ \ {g}]
            /\ \/ (ok \/ Excused(g) \/ g \notin Hard) /\ GateDue(a, at[a] + 1)
               \/ Judged(a, FALSE)
        BY <3>3 DEF Record
      <4>2. \A d \in Candidates \ {a} : passed'[d] = passed[d]
        BY <4>1, <2>ty
      <4>3. passed'[a] = IF ok THEN passed[a] \cup {g} ELSE passed[a] \ {g}
        BY <4>1, <2>ty
      <4>4. ASSUME ok \/ Excused(g) \/ g \notin Hard, a \notin late, ~aborted
            PROVE  \A k \in 1..at[a] : Commands[k] \in Hard => Commands[k] \in passed'[a] \cup (Regression \cap broken)
        <5> SUFFICES ASSUME NEW k \in 1..at[a], Commands[k] \in Hard
                     PROVE  Commands[k] \in passed'[a] \cup (Regression \cap broken)
          OBVIOUS
        <5>1. CASE k = at[a]
          BY <5>1, <4>3, <4>4 DEF Excused
        <5>2. CASE k # at[a]
          <6>1. k \in 1..(at[a] - 1) /\ k \in DOMAIN Commands /\ at[a] \in DOMAIN Commands
            BY <5>2, <3>2
          <6>2. Commands[k] # g
            BY <6>1, <5>2
          <6>3. Commands[k] \in passed[a] \cup (Regression \cap broken)
            BY <6>1, <3>1, <4>4 DEF EarnedInv, EarnedAt, TestedUpTo
          <6> HIDE DEF g
          <6> QED
            BY <6>2, <6>3, <4>3
        <5> QED
          BY <5>1, <5>2
      <4>5. /\ EarnedAt(a)'
            /\ \A d \in Candidates \ {a} : /\ cand'[d] = cand[d] /\ step'[d] = step[d]
                                           /\ at'[d] = at[d] /\ attempt'[d] = attempt[d]
        <5>1. CASE Judged(a, FALSE)
          BY <5>1, <2>out
        <5>2. CASE (ok \/ Excused(g) \/ g \notin Hard) /\ GateDue(a, at[a] + 1)
          <6> DEFINE n == at[a]
          <6>1. n + 1 \in 1..(Len(Commands) + 1) /\ (n + 1) - 1 = n
            BY <3>2
          <6>2. a \notin late /\ ~aborted => \A k \in 1..n : Commands[k] \in Hard
                                                 => Commands[k] \in passed'[a] \cup (Regression \cap broken)
            BY <5>2, <4>4
          <6>3. PICK i \in 1..(Len(Commands) + 1) : i = n + 1
            BY <6>1
          <6>4. i - 1 = n /\ GateDue(a, i)
            BY <6>1, <6>3, <5>2
          <6> HIDE DEF n
          <6>5. a \notin late /\ ~aborted => TestedUpTo(a, i - 1)'
            BY <6>2, <6>4, <3>1 DEF TestedUpTo
          <6> QED
            BY <6>4, <6>5, <3>1, <3>2, <2>due DEF Busy
        <5> QED
          BY <4>1, <5>1, <5>2
      <4> QED
        BY <4>2, <4>5, <3>1, <2>others DEF OthersKept
    <3>4. CASE step' = [step EXCEPT ![a] = "second"] /\ UNCHANGED <<at, passed, cand, attempt>>
      <4> SUFFICES ASSUME NEW c \in Candidates PROVE EarnedAt(c)'
        BY DEF EarnedInv
      <4>1. step'[c] = step[c] \/ (c = a /\ step'[c] = "second")
        BY <3>4, <2>ty
      <4>2. EarnedAt(c)
        BY DEF EarnedInv
      <4>3. step'[c] \in {"first", "second"} => step[c] \in {"first", "second"}
        BY <3>1, <4>1
      <4>4. step'[c] \in Busy => step[c] \in Busy
        BY <3>1, <4>1 DEF Busy
      <4> QED
        BY <3>1, <3>4, <4>2, <4>3, <4>4 DEF EarnedAt, TestedUpTo, Tested
    <3> QED
      BY <2>10, <3>3, <3>4 DEF CommandExits
  <2> QED
    BY <2>2, <2>3, <2>4, <2>5, <2>6, <2>7, <2>8, <2>9, <2>10 DEF Next, RunStep, CandidateStep, CleanStep
<1> QED
  BY <1>1, <1>2, TypeInv, PTL DEF Spec

\* What survived its attempt earned it.
THEOREM SurvivorsAreTested == Spec => []SurvivorsEarnedIt
<1>1. EarnedInv /\ TreeInv => SurvivorsEarnedIt
  BY DEF EarnedInv, EarnedAt, TreeInv, SurvivorsEarnedIt
<1> QED
  BY <1>1, Earned, TreesKept, PTL

-----------------------------------------------------------------------------
\* From the ranking on no candidate is at work; a result comes after it.
WinnerInv ==
  /\ pc = "judging" => AllEnded
  /\ result # {} => AllEnded /\ pc \in {"recording", "flush", "done", "orphan"}
  /\ WinnerSurvived

\* The stored result names nobody, or a survivor with a diff to apply.
THEOREM Winner == Spec => []WinnerSurvived
<1>1. Init => WinnerInv
  BY DEF Init, WinnerInv, WinnerSurvived
<1>2. EarnedInv /\ WinnerInv /\ [Next]_vars => WinnerInv'
  <2> SUFFICES ASSUME EarnedInv, WinnerInv, [Next]_vars PROVE WinnerInv'
    OBVIOUS
  <2>same. ASSUME UNCHANGED <<result, work>>, pc' = pc \/ pc' \in {"flush", "done", "orphan"}
           PROVE  WinnerInv'
    BY <2>same DEF WinnerInv, WinnerSurvived, AllEnded, work
  <2>early. ASSUME pc \in {"new", "baseline", "measuring", "adding", "catch"}, UNCHANGED result, pc' # "judging"
            PROVE  WinnerInv'
    BY <2>early DEF WinnerInv, WinnerSurvived
  <2>1. CASE Create \/ BaselineAdded \/ Measure \/ BaselineRemoved \/ AddFails \/ Fail \/ \E c \in Candidates : AddWorktree(c)
    <3>1. pc \in {"new", "baseline", "measuring", "adding", "catch"} /\ UNCHANGED result
      BY <2>1 DEF Create, BaselineAdded, Measure, BaselineRemoved, AddFails, Fail, AddWorktree
    <3>2. pc' # "judging"
      BY <2>1 DEF Create, BaselineAdded, Measure, BaselineRemoved, AddFails, Fail, AddWorktree
    <3> QED
      BY <3>1, <3>2, <2>early
  <2>2. CASE Flushed \/ Cancel
    BY <2>2, <2>same DEF Flushed, Cancel
  <2>3. CASE Reject \/ Cleaned \/ (\E t \in tracked : Clean(t)) \/ (\E t \in Candidates \cup {"baseline"} : WriteBehind(t))
             \/ UNCHANGED vars
    BY <2>3, <2>same DEF Reject, Cleaned, Clean, WriteBehind, vars, run
  <2>4. CASE Recorded
    <3>1. pc = "recording" /\ pc' = "flush" /\ UNCHANGED <<result, work>>
      BY <2>4 DEF Recorded
    <3> QED
      BY <3>1, <2>same
  <2>5. ASSUME NEW w \in Survivors \cup {None}, Conclude(w), AllEnded, UNCHANGED work, result = {}
        PROVE  WinnerInv'
    <3>1. AllEnded'
      BY <2>5 DEF AllEnded, work
    <3>2. w # None => cand[w] = "completed" /\ w \in recorded
      BY <2>5 DEF Survivors, EarnedInv, EarnedAt
    <3>3. pc' \in {"flush", "recording"} /\ result' \in {{}, {w}}
      BY <2>5 DEF Conclude
    <3> QED
      BY <2>5, <3>1, <3>2, <3>3 DEF WinnerInv, WinnerSurvived, work
  <2>6. CASE AllSettled
    <3>1. AllEnded /\ UNCHANGED work /\ result = {}
      BY <2>6 DEF AllSettled, WinnerInv
    <3>2. CASE pc' \in {"flush", "judging"} /\ UNCHANGED result
      BY <3>1, <3>2 DEF WinnerInv, WinnerSurvived, AllEnded, work
    <3>3. CASE \E w \in Survivors \cup {None} : Conclude(w)
      BY <3>1, <3>3, <2>5
    <3> QED
      BY <2>6, <3>2, <3>3 DEF AllSettled
  <2>7. CASE SurvivorsJudged
    <3>1. AllEnded /\ UNCHANGED work /\ result = {}
      BY <2>7 DEF SurvivorsJudged, WinnerInv
    <3>2. CASE pc' = "catch" /\ UNCHANGED result
      BY <3>1, <3>2 DEF WinnerInv, WinnerSurvived
    <3> QED
      BY <2>7, <3>1, <3>2, <2>5 DEF SurvivorsJudged
  <2>8. CASE Restart
    <3>1. /\ pc' = "orphan" /\ UNCHANGED <<result, cand, recorded>> /\ AllEnded'
      BY <2>8 DEF Restart, AllEnded
    <3> QED
      BY <3>1 DEF WinnerInv, WinnerSurvived
  <2>9. ASSUME NEW c \in Candidates, CandidateStep(c) PROVE WinnerInv'
    <3>1. ~AllEnded /\ UNCHANGED <<pc, result>>
      BY <2>9 DEF CandidateStep, RunnerReturns, AttemptFails, Collect, CollectForeign, CommandExits, AllEnded, run
    <3> QED
      BY <3>1 DEF WinnerInv, WinnerSurvived
  <2>10. ASSUME NEW c \in Candidates, TimeOut(c) \/ Edit(c) PROVE WinnerInv'
    BY <2>10 DEF TimeOut, Edit, run, WinnerInv, WinnerSurvived, AllEnded
  <2> QED
    BY <2>1, <2>2, <2>3, <2>4, <2>6, <2>7, <2>8, <2>9, <2>10 DEF Next, RunStep, CleanStep
<1>3. WinnerInv => WinnerSurvived
  BY DEF WinnerInv
<1> QED
  BY <1>1, <1>2, <1>3, Earned, PTL DEF Spec
=============================================================================
