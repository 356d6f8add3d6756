--------------------------- MODULE AdmissionControl ---------------------------
(***************************************************************************)
(* What src/core/scheduler.ts promises its callers, with no queue order, no *)
(* counter, no pause and no event loop: a call is handed over once, runs at *)
(* most once, and at no time do more calls run than the two caps allow.     *)
(***************************************************************************)
EXTENDS Integers, FiniteSets

CONSTANTS Jobs, Models, ModelOf, GlobalLimit, PerModelLimit

VARIABLES fresh, queued, running

vars == <<fresh, queued, running>>

On(S, m) == {j \in S : ModelOf[j] = m}

Init == fresh = Jobs /\ queued = {} /\ running = {}

\* A call is handed over; it is queued, or refused for good.
Accept(j) ==
  /\ j \in fresh
  /\ fresh' = fresh \ {j}
  /\ queued' \in {queued, queued \cup {j}}
  /\ UNCHANGED running

\* A queued call begins; there is room for it under both caps.
Start(j) ==
  /\ j \in queued
  /\ Cardinality(running) < GlobalLimit
  /\ Cardinality(On(running, ModelOf[j])) < PerModelLimit
  /\ queued' = queued \ {j}
  /\ running' = running \cup {j}
  /\ UNCHANGED fresh

Finish(j) ==
  /\ j \in running
  /\ running' = running \ {j}
  /\ UNCHANGED <<fresh, queued>>

\* Queued calls are withdrawn together.
Withdraw(S) ==
  /\ S \subseteq queued
  /\ queued' = queued \ S
  /\ UNCHANGED <<fresh, running>>

Next ==
  \/ \E j \in Jobs : Accept(j) \/ Start(j) \/ Finish(j)
  \/ \E S \in SUBSET queued : Withdraw(S)

Spec == Init /\ [][Next]_vars

=============================================================================
