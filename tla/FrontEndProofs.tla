---------------------------- MODULE FrontEndProofs ----------------------------
(***************************************************************************)
(* Proofs about the extension's two front ends: Orchestrator and           *)
(* ArenaPanel for any number of commands, keys, processes, runs and        *)
(* snapshots; ChatView for any files, handlers, windows and clicks.        *)
(***************************************************************************)
EXTENDS ArenaPanel, ChatView, WellFoundedInduction, FiniteSetTheorems, SequenceTheorems, TLAPS

-----------------------------------------------------------------------------
(* The arena's panel. *)

\* Objects are made one at a time, at most two for a key and one more.
MadeInv ==
    /\ current <= made
    /\ \A o \in Ops : op[o].of <= made /\ (op[o].stage # "free" => op[o].of # 0)
    /\ \A p \in Procs : proc[p].by <= made
    /\ made + (IF key # 0 THEN 1 ELSE 0) <= 2 * keys + (IF current # 0 THEN 1 ELSE 0)

Valid ==
    /\ OrchestratorTypeOK /\ MadeInv
    /\ \A p \in Procs : proc[p].life \in {"booting", "up", "killed"} => proc[p].by # 0

\* While nothing spawnedOver: only the object in use has a process, its own.
OwnInv ==
    spawnedOver \/
    /\ \A i \in Objects : i # current => object[i] = NoObject
    /\ current # 0 => /\ object[current].url \in {0, object[current].child}
                      /\ object[current].child # 0 => Alive(object[current].child)
    /\ \A p \in Procs : Alive(p) => current # 0 /\ p = object[current].child /\ proc[p].by = current
    /\ \A p \in Procs : proc[p].life = "killed" => proc[p].by # current

\* What will be spawned for the object in use has the stored key.
KeyInv ==
    spawnedOver \/ fromChat \/
    /\ \A p \in Procs : Alive(p) => proc[p].key = key
    /\ \A o \in Ops : op[o].stage = "port" /\ op[o].of = current => op[o].key = key

Owner == Keys \/ (\E o \in Ops : Call(o) \/ Spawn(o) \/ Healthy(o) \/ Unhealthy(o) \/ Done(o))
              \/ (\E p \in Procs : Boot(p) \/ Exit(p))
              \/ (Ensure /\ UNCHANGED <<secrets, processes, op>>)
              \/ UNCHANGED orchestrator

-----------------------------------------------------------------------------
\* A step of the panel is a step of the owner of the process, or leaves it alone.
LEMMA PanelOwns == [Next]_vars => Owner
<1> SUFFICES ASSUME [Next]_vars PROVE Owner
  OBVIOUS
<1>1. CASE \E o \in Ops : Command(o)
  BY <1>1 DEF Command, Owner, Create, Adopt, Finish
<1>2. CASE \E p \in Procs : Process(p)
  BY <1>2 DEF Process, Owner
<1>3. CASE \E r \in Runs : RunEnds(r)
  BY <1>3 DEF RunEnds, Owner
<1>4. CASE \E f \in Flights : Snapshot(f)
  BY <1>4 DEF Snapshot, Refresh, Answer, Lost, PostAnswer, Owner
<1>5. CASE Keys /\ UNCHANGED arena
  BY <1>5 DEF Owner
<1>6. CASE Rejected \/ Toggle \/ UNCHANGED vars
  BY <1>6 DEF Rejected, Toggle, vars, Owner
<1> QED
  BY <1>1, <1>2, <1>3, <1>4, <1>5, <1>6 DEF Next

\* The object a command is given is one of the objects there can be.
LEMMA EnsuredIsAnObject ==
  ASSUME Valid, Ensure
  PROVE  /\ Ensured \in Objects /\ current' = Ensured /\ made' \in {0} \cup Objects
         /\ current' <= made' /\ made <= made' /\ current' # 0 /\ object' = object
         /\ (IF current' # 0 THEN 1 ELSE 0) = 1
         /\ made' - made = (IF current = 0 THEN 1 ELSE 0)
<1> USE OrchestratorAssumption DEF Objects
<1>1. made \in Nat /\ current \in Nat /\ keys \in 0..MaxKeys /\ key \in Nat
  BY DEF Valid, OrchestratorTypeOK
<1>2. CASE current = 0
  <2>1. made <= 2 * keys /\ keys <= MaxKeys
    BY <1>1, <1>2 DEF Valid, MadeInv
  <2> QED
    BY <1>1, <1>2, <2>1 DEF Ensure, Ensured
<1>3. CASE current # 0
  BY <1>1, <1>3 DEF Ensure, Ensured, Valid, OrchestratorTypeOK, MadeInv
<1> QED
  BY <1>2, <1>3

\* What one more object, or none, does to a bound on their number.
LEMMA OneMore ==
  ASSUME NEW m \in Int, NEW n \in Int, NEW k \in Int, NEW b \in Int,
         \/ n - m = 1 /\ m + k <= b + 0
         \/ n - m = 0 /\ m + k <= b + 1
  PROVE  n + k <= b + 1
OBVIOUS

\* An object made by a command leaves the count of objects within what the keys allow.
LEMMA EnsureKeepsCount ==
  ASSUME Valid, Ensure, UNCHANGED secrets
  PROVE made' + (IF key' # 0 THEN 1 ELSE 0) <= 2 * keys' + (IF current' # 0 THEN 1 ELSE 0)
<1> DEFINE K == IF key # 0 THEN 1 ELSE 0
           B == 2 * keys
<1>1. key' = key /\ keys' = keys /\ current' # 0
  BY EnsuredIsAnObject DEF secrets
<1>2. made + K <= B + (IF current # 0 THEN 1 ELSE 0)
  BY DEF Valid, MadeInv
<1>3. made \in Int /\ made' \in Int /\ K \in Int /\ B \in Int
  <2>1. made \in Int /\ keys \in Int
    BY OrchestratorAssumption DEF Valid, OrchestratorTypeOK, Objects
  <2>2. made' \in Int
    BY EnsuredIsAnObject, OrchestratorAssumption DEF Objects
  <2> QED
    BY <2>1, <2>2
<1>4. \/ made' - made = 1 /\ made + K <= B + 0
      \/ made' - made = 0 /\ made + K <= B + 1
  <2> HIDE DEF K, B
  <2>1. CASE current = 0
    BY <1>2, <2>1, EnsuredIsAnObject
  <2>2. CASE current # 0
    BY <1>2, <2>2, EnsuredIsAnObject
  <2> QED
    BY <2>1, <2>2
<1>5. made' + K <= B + 1
  <2> HIDE DEF K, B
  <2> QED
    BY <1>3, <1>4, OneMore
<1> QED
  BY <1>1, <1>5

\* Every step of the owner keeps the types, and the count of its objects.
LEMMA OwnerTyped == Valid /\ Owner => Valid'
<1> SUFFICES ASSUME Valid, Owner PROVE Valid'
  OBVIOUS
<1> USE OrchestratorAssumption
<1>ty. /\ key \in 0..MaxKeys /\ keys \in 0..MaxKeys /\ made \in Nat /\ current \in Nat /\ spawned \in 0..MaxProcs
       /\ made \in {0} \cup Objects /\ current \in {0} \cup Objects
  BY DEF Valid, OrchestratorTypeOK, Objects
<1>1. ASSUME NEW o \in Ops, Call(o) PROVE Valid'
  <2>1. Ensured \in Objects /\ current' = Ensured /\ made' \in {0} \cup Objects /\ current' <= made'
        /\ made <= made' /\ current' # 0 /\ object' = object /\ made' - made = (IF current = 0 THEN 1 ELSE 0)
    BY <1>1, EnsuredIsAnObject DEF Call
  <2>2. OrchestratorTypeOK'
    BY <1>1, <2>1 DEF Call, Valid, OrchestratorTypeOK, secrets, processes, Stages
  <2>3. MadeInv'
    <3>1. \A q \in Ops : op'[q].of <= made' /\ (op'[q].stage # "free" => op'[q].of # 0)
      BY <1>1, <2>1, <2>2, <1>ty DEF Call, Valid, OrchestratorTypeOK, MadeInv, Objects, Free
    <3>2. \A p \in Procs : proc'[p].by <= made'
      <4>1. proc' = proc /\ made' \in Nat
        BY <1>1, <2>1 DEF Call, processes, Objects
      <4> SUFFICES ASSUME NEW p \in Procs PROVE proc[p].by <= made'
        BY <4>1
      <4>2. proc[p].by <= made /\ proc[p].by \in Nat
        BY DEF Valid, OrchestratorTypeOK, MadeInv, Objects
      <4> QED
        BY <4>1, <4>2, <2>1, <1>ty
    <3>3. made' + (IF key' # 0 THEN 1 ELSE 0) <= 2 * keys' + (IF current' # 0 THEN 1 ELSE 0)
      BY <1>1, EnsureKeepsCount DEF Call
    <3> QED
      BY <2>1, <3>1, <3>2, <3>3 DEF MadeInv
  <2> QED
    BY <1>1, <2>2, <2>3 DEF Call, processes, Valid
<1>2. CASE Ensure /\ UNCHANGED <<secrets, processes, op>>
  <2>1. Ensured \in Objects /\ current' = Ensured /\ made' \in {0} \cup Objects /\ current' <= made'
        /\ made <= made' /\ current' # 0 /\ object' = object /\ made' - made = (IF current = 0 THEN 1 ELSE 0)
    BY <1>2, EnsuredIsAnObject
  <2>2. OrchestratorTypeOK'
    BY <1>2, <2>1 DEF Valid, OrchestratorTypeOK, secrets, processes
  <2>3. MadeInv'
    <3>1. \A q \in Ops : op'[q].of <= made' /\ (op'[q].stage # "free" => op'[q].of # 0)
      BY <1>2, <2>1, <1>ty DEF Valid, OrchestratorTypeOK, MadeInv, Objects
    <3>2. \A p \in Procs : proc'[p].by <= made'
      <4>1. proc' = proc /\ made' \in Nat
        BY <1>2, <2>1 DEF processes, Objects
      <4> SUFFICES ASSUME NEW p \in Procs PROVE proc[p].by <= made'
        BY <4>1
      <4>2. proc[p].by <= made /\ proc[p].by \in Nat
        BY DEF Valid, OrchestratorTypeOK, MadeInv, Objects
      <4> QED
        BY <4>1, <4>2, <2>1, <1>ty
    <3>3. made' + (IF key' # 0 THEN 1 ELSE 0) <= 2 * keys' + (IF current' # 0 THEN 1 ELSE 0)
      BY <1>2, EnsureKeepsCount
    <3> QED
      BY <2>1, <3>1, <3>2, <3>3 DEF MadeInv
  <2> QED
    BY <1>2, <2>2, <2>3 DEF processes, Valid
<1>3. ASSUME NEW o \in Ops, Spawn(o) PROVE Valid'
  <2>1. op[o].of \in Objects /\ op[o].of # 0 /\ op[o].key \in 0..MaxKeys /\ op[o].of <= made
    BY <1>3 DEF Spawn, Valid, OrchestratorTypeOK, MadeInv
  <2>2. /\ spawned + 1 \in Procs /\ spawned' = spawned + 1
        /\ proc' = [proc EXCEPT ![spawned + 1] = [key |-> op[o].key, life |-> "booting", by |-> op[o].of]]
        /\ object' = [object EXCEPT ![op[o].of] = [child |-> spawned + 1, url |-> spawned + 1]]
        /\ op' = [op EXCEPT ![o] = [stage |-> "health", of |-> op[o].of, key |-> 0]]
        /\ UNCHANGED <<key, keys, fromChat, current, made>> /\ spawnedOver' \in BOOLEAN
    BY <1>3, <1>ty DEF Spawn, Procs, secrets
  <2>3. proc' \in [Procs -> [key : 0..MaxKeys, life : Lives, by : {0} \cup Objects]]
    BY <2>1, <2>2 DEF Valid, OrchestratorTypeOK, Lives
  <2>4. /\ object' \in [Objects -> [child : 0..MaxProcs, url : 0..MaxProcs]]
        /\ \A i \in Objects : object'[i].child = 0 => object'[i].url = 0
    <3>1. spawned + 1 \in 0..MaxProcs /\ spawned + 1 # 0
      BY <2>2, <1>ty DEF Procs
    <3> QED
      BY <2>1, <2>2, <3>1 DEF Valid, OrchestratorTypeOK
  <2>5. op' \in [Ops -> [stage : Stages, of : {0} \cup Objects, key : 0..MaxKeys]]
    BY <2>1, <2>2, <1>ty DEF Valid, OrchestratorTypeOK, Stages
  <2>6. spawned' \in 0..MaxProcs
    BY <2>2, <1>ty DEF Procs
  <2>7. MadeInv'
    BY <2>1, <2>2 DEF Valid, OrchestratorTypeOK, MadeInv
  <2> QED
    BY <2>1, <2>2, <2>3, <2>4, <2>5, <2>6, <2>7 DEF Valid, OrchestratorTypeOK
<1>4. ASSUME NEW o \in Ops, Healthy(o) \/ Done(o) PROVE Valid'
  <2>1. UNCHANGED <<secrets, objects, processes>> /\ op[o].stage # "free"
        /\ (op' = [op EXCEPT ![o].stage = "asking"] \/ op' = [op EXCEPT ![o] = Free])
    BY <1>4 DEF Healthy, Done
  <2>2. op' \in [Ops -> [stage : Stages, of : {0} \cup Objects, key : 0..MaxKeys]]
    BY <2>1, <1>ty DEF Valid, OrchestratorTypeOK, Stages, Free
  <2>3. \A q \in Ops : op'[q].of <= made /\ (op'[q].stage # "free" => op'[q].of # 0)
    BY <2>1, <2>2, <1>ty DEF Valid, OrchestratorTypeOK, MadeInv, Free
  <2> QED
    BY <2>1, <2>2, <2>3 DEF Valid, OrchestratorTypeOK, MadeInv, secrets, objects, processes
<1>5. ASSUME NEW o \in Ops, Unhealthy(o) PROVE Valid'
  <2>1. op[o].of \in Objects
    BY <1>5 DEF Unhealthy, Valid, OrchestratorTypeOK, MadeInv
  <2>2. /\ object' \in [Objects -> [child : 0..MaxProcs, url : 0..MaxProcs]]
        /\ \A i \in Objects : object'[i].child = 0 => object'[i].url = 0
    BY <1>5, <2>1 DEF Unhealthy, Valid, OrchestratorTypeOK
  <2>3. op' \in [Ops -> [stage : Stages, of : {0} \cup Objects, key : 0..MaxKeys]]
    BY <1>5, <1>ty DEF Unhealthy, Valid, OrchestratorTypeOK, Stages, Free
  <2>4. \A q \in Ops : op'[q].of <= made /\ (op'[q].stage # "free" => op'[q].of # 0)
    BY <1>5, <1>ty DEF Unhealthy, Valid, OrchestratorTypeOK, MadeInv, Free
  <2> QED
    BY <1>5, <2>2, <2>3, <2>4 DEF Unhealthy, Valid, OrchestratorTypeOK, MadeInv, secrets, processes
<1>6. ASSUME NEW p \in Procs, Boot(p) \/ Exit(p) PROVE Valid'
  <2>1. /\ proc' \in [Procs -> [key : 0..MaxKeys, life : Lives, by : {0} \cup Objects]]
        /\ \A q \in Procs : /\ proc'[q].by \in {0, proc[q].by}
                            /\ proc'[q].life \in {"booting", "up", "killed"} => proc'[q].by # 0
    <3>1. 0 \in 0..MaxKeys
      BY <1>ty
    <3>2. CASE Boot(p)
      BY <3>2 DEF Boot, Valid, OrchestratorTypeOK, Lives
    <3>3. CASE Exit(p)
      BY <3>1, <3>3 DEF Exit, Dead, Valid, OrchestratorTypeOK, Lives
    <3> QED
      BY <1>6, <3>2, <3>3
  <2>2. /\ object' \in [Objects -> [child : 0..MaxProcs, url : 0..MaxProcs]]
        /\ \A i \in Objects : object'[i].child = 0 => object'[i].url = 0
    <3>1. NoObject \in [child : 0..MaxProcs, url : 0..MaxProcs] /\ NoObject.url = 0
      BY <1>ty DEF NoObject
    <3>2. CASE Boot(p)
      BY <3>2 DEF Boot, objects, Valid, OrchestratorTypeOK
    <3>3. CASE Exit(p)
      <4>1. proc[p].by \in Objects /\ object' = [object EXCEPT ![proc[p].by] = NoObject]
        BY <3>3 DEF Exit, Valid, OrchestratorTypeOK
      <4> HIDE DEF NoObject
      <4> QED
        BY <4>1, <3>1 DEF Valid, OrchestratorTypeOK
    <3> QED
      BY <1>6, <3>2, <3>3
  <2>3. \A q \in Procs : proc'[q].by <= made
    BY <2>1, <1>ty DEF Valid, OrchestratorTypeOK, MadeInv
  <2> QED
    BY <1>6, <2>1, <2>2, <2>3 DEF Boot, Exit, Valid, OrchestratorTypeOK, MadeInv, secrets, objects
<1>7. ASSUME Dispose PROVE /\ current' = 0 /\ UNCHANGED <<made, spawned, spawnedOver>>
                           /\ object' \in [Objects -> [child : 0..MaxProcs, url : 0..MaxProcs]]
                           /\ \A i \in Objects : object'[i].child = 0 => object'[i].url = 0
                           /\ proc' \in [Procs -> [key : 0..MaxKeys, life : Lives, by : {0} \cup Objects]]
                           /\ \A q \in Procs : /\ proc'[q].by = proc[q].by
                                               /\ proc'[q].life \in {"booting", "up", "killed"} => proc'[q].by # 0
  <2>1. 0 \in 0..MaxProcs
    BY <1>ty
  <2>2. /\ object' \in [Objects -> [child : 0..MaxProcs, url : 0..MaxProcs]]
        /\ \A i \in Objects : object'[i].child = 0 => object'[i].url = 0
    BY <1>7, <2>1 DEF Dispose, NoObject, Valid, OrchestratorTypeOK
  <2>3. \A q \in Procs : /\ proc'[q] \in [key : 0..MaxKeys, life : Lives, by : {0} \cup Objects]
                         /\ proc'[q].by = proc[q].by
                         /\ proc'[q].life \in {"booting", "up", "killed"} => proc'[q].by # 0
    BY <1>7 DEF Dispose, Alive, Valid, OrchestratorTypeOK, Lives
  <2>4. proc' \in [Procs -> [key : 0..MaxKeys, life : Lives, by : {0} \cup Objects]]
    BY <1>7, <2>3 DEF Dispose
  <2> QED
    BY <1>7, <2>2, <2>3, <2>4 DEF Dispose
<1>8. CASE StoreKey \/ ClearKey
  <2>1. Dispose /\ UNCHANGED <<fromChat, op>>
        /\ (\/ keys < MaxKeys /\ key' = keys + 1 /\ keys' = keys + 1
            \/ key # 0 /\ key' = 0 /\ keys' = keys)
    BY <1>8 DEF StoreKey, ClearKey
  <2>2. made' + (IF key' # 0 THEN 1 ELSE 0) <= 2 * keys' + (IF current' # 0 THEN 1 ELSE 0)
    BY <2>1, <1>7, <1>ty DEF Valid, MadeInv
  <2>3. key' \in 0..MaxKeys /\ keys' \in 0..MaxKeys /\ current' <= made'
    BY <2>1, <1>7, <1>ty
  <2> QED
    BY <2>1, <2>2, <2>3, <1>7 DEF Valid, OrchestratorTypeOK, MadeInv
<1>9. CASE ChatChangesKey
  <2>1. UNCHANGED <<current, made, object, proc, spawned, spawnedOver, op>> /\ fromChat' \in BOOLEAN
        /\ (\/ keys < MaxKeys /\ key' = keys + 1 /\ keys' = keys + 1
            \/ key # 0 /\ key' = 0 /\ keys' = keys)
    BY <1>9 DEF ChatChangesKey, objects, processes
  <2>2. made' + (IF key' # 0 THEN 1 ELSE 0) <= 2 * keys' + (IF current' # 0 THEN 1 ELSE 0)
    BY <2>1, <1>ty DEF Valid, MadeInv
  <2>3. key' \in 0..MaxKeys /\ keys' \in 0..MaxKeys
    BY <2>1, <1>ty
  <2> QED
    BY <2>1, <2>2, <2>3 DEF Valid, OrchestratorTypeOK, MadeInv
<1>10. CASE UNCHANGED orchestrator
  BY <1>10 DEF orchestrator, secrets, objects, processes, Valid, OrchestratorTypeOK, MadeInv
<1> QED
  BY <1>1, <1>2, <1>3, <1>4, <1>5, <1>6, <1>8, <1>9, <1>10 DEF Owner, Keys

\* The owner's types hold in every reachable state.
THEOREM OwnerTypeInv == Spec => []Valid
<1>1. Init => Valid
  <2> SUFFICES ASSUME Init PROVE Valid
    OBVIOUS
  <2> USE OrchestratorAssumption DEF Init, OrchestratorInit
  <2>1. object \in [Objects -> [child : 0..MaxProcs, url : 0..MaxProcs]]
        /\ \A i \in Objects : object[i].child = 0 => object[i].url = 0
    BY DEF NoObject
  <2>2. proc \in [Procs -> [key : 0..MaxKeys, life : Lives, by : {0} \cup Objects]]
        /\ \A p \in Procs : proc[p].by = 0 /\ proc[p].life = "none"
    BY DEF Lives
  <2>3. op \in [Ops -> [stage : Stages, of : {0} \cup Objects, key : 0..MaxKeys]]
        /\ \A o \in Ops : op[o].of = 0 /\ op[o].stage = "free"
    BY DEF Free, Stages
  <2>4. MadeInv
    BY <2>2, <2>3 DEF MadeInv
  <2>5. /\ key \in 0..MaxKeys /\ keys \in 0..MaxKeys /\ spawned \in 0..MaxProcs
        /\ current \in {0} \cup Objects /\ made \in {0} \cup Objects
        /\ spawnedOver \in BOOLEAN /\ fromChat \in BOOLEAN
    <3>1. key = 0 /\ keys = 0 /\ spawned = 0 /\ current = 0 /\ made = 0
      OBVIOUS
    <3>2. spawnedOver = FALSE /\ fromChat = FALSE
      OBVIOUS
    <3> HIDE DEF Init, OrchestratorInit
    <3>3. spawnedOver \in BOOLEAN /\ fromChat \in BOOLEAN
      BY <3>2
    <3> QED
      BY <3>1, <3>3
  <2>6. \A p \in Procs : proc[p].life \notin {"booting", "up", "killed"}
    BY <2>2
  <2> HIDE DEF Init, OrchestratorInit
  <2> QED
    BY <2>1, <2>2, <2>3, <2>4, <2>5, <2>6 DEF Valid, OrchestratorTypeOK
<1>2. Valid /\ [Next]_vars => Valid'
  BY PanelOwns, OwnerTyped
<1> QED
  BY <1>1, <1>2, PTL DEF Spec

-----------------------------------------------------------------------------
\* While nothing spawnedOver, the object in use owns the only process.
THEOREM OneOwner == Spec => []OwnInv
<1>1. Init => OwnInv
  BY DEF Init, OrchestratorInit, OwnInv, Alive
<1>2. Valid /\ OwnInv /\ Owner => OwnInv'
  <2> SUFFICES ASSUME Valid, OwnInv, Owner, ~spawnedOver' PROVE OwnInv'
    BY DEF OwnInv
  <2> USE OrchestratorAssumption
  <2>ty. /\ made \in Nat /\ current \in Nat /\ current \in {0} \cup Objects /\ 0 \notin Procs /\ 0 \notin Objects
         /\ \A p \in Procs : proc[p].by <= made /\ proc[p].by \in Nat
         /\ \A i \in Objects : DOMAIN object = Objects
    BY DEF Valid, OrchestratorTypeOK, Objects, MadeInv, Procs
  <2>1. ASSUME NEW o \in Ops, Call(o) PROVE OwnInv'
    <3>1. /\ object' = object /\ proc' = proc /\ ~spawnedOver
          /\ Ensured \in Objects /\ current' = Ensured /\ Ensure
      BY <2>1, EnsuredIsAnObject DEF Call, Ensure, processes
    <3>2. CASE current # 0
      <4>1. current' = current
        BY <3>1, <3>2 DEF Ensured
      <4> QED
        BY <4>1, <3>1 DEF OwnInv, Alive
    <3>3. CASE current = 0
      <4>1. current' = made + 1 /\ object[current'] = NoObject /\ \A p \in Procs : ~Alive(p)
        BY <3>1, <3>3, <2>ty DEF Ensured, OwnInv
      <4>2. \A p \in Procs : proc[p].by # current'
        BY <4>1, <2>ty
      <4> QED
        <5>1. \A i \in Objects : i # current' => object'[i] = NoObject
          BY <3>1, <3>3, <2>ty DEF OwnInv
        <5> QED
          BY <4>1, <4>2, <5>1, <3>1, <3>3 DEF OwnInv, Alive, NoObject
    <3> QED
      BY <3>2, <3>3
  <2>2. CASE Ensure /\ UNCHANGED <<secrets, processes, op>>
    <3>1. /\ object' = object /\ proc' = proc /\ ~spawnedOver
          /\ Ensured \in Objects /\ current' = Ensured
      BY <2>2, EnsuredIsAnObject DEF Ensure, processes
    <3>2. CASE current # 0
      <4>1. current' = current
        BY <3>1, <3>2 DEF Ensured
      <4> QED
        BY <4>1, <3>1 DEF OwnInv, Alive
    <3>3. CASE current = 0
      <4>1. current' = made + 1 /\ object[current'] = NoObject /\ \A p \in Procs : ~Alive(p)
        BY <3>1, <3>3, <2>ty DEF Ensured, OwnInv
      <4>2. \A p \in Procs : proc[p].by # current'
        BY <4>1, <2>ty
      <4> QED
        <5>1. \A i \in Objects : i # current' => object'[i] = NoObject
          BY <3>1, <3>3, <2>ty DEF OwnInv
        <5> QED
          BY <4>1, <4>2, <5>1, <3>1, <3>3 DEF OwnInv, Alive, NoObject
    <3> QED
      BY <3>2, <3>3
  <2>3. ASSUME NEW o \in Ops, Spawn(o) PROVE OwnInv'
    <3> DEFINE q == spawned + 1
    <3>1. /\ ~spawnedOver /\ op[o].of = current /\ current' = current
          /\ object[current].child = 0 /\ op[o].of # 0 /\ current \in Objects
          /\ q \in Procs
      <4>1. op[o].of # 0
        BY <2>3 DEF Spawn, Valid, MadeInv
      <4>2. q \in Procs
        BY <2>3 DEF Spawn, Valid, OrchestratorTypeOK, Procs
      <4> QED
        BY <2>3, <2>ty, <4>1, <4>2 DEF Spawn
    <3>2. /\ proc' = [proc EXCEPT ![q] = [key |-> op[o].key, life |-> "booting", by |-> current]]
          /\ object' = [object EXCEPT ![current] = [child |-> q, url |-> q]]
      BY <2>3, <3>1 DEF Spawn
    <3>3. object'[current] = [child |-> q, url |-> q] /\ \A i \in Objects : i # current => object'[i] = object[i]
      BY <3>1, <3>2, <2>ty
    <3>4. /\ proc'[q].life = "booting" /\ proc'[q].by = current
          /\ \A p \in Procs : p # q => proc'[p] = proc[p]
      BY <3>1, <3>2 DEF Valid, OrchestratorTypeOK
    <3>5. \A p \in Procs : ~Alive(p)
      BY <3>1, <2>ty DEF OwnInv
    <3> QED
      BY <3>1, <3>3, <3>4, <3>5 DEF OwnInv, Alive
  <2>4. ASSUME NEW o \in Ops, Healthy(o) \/ Done(o) PROVE OwnInv'
    BY <2>4 DEF Healthy, Done, objects, processes, OwnInv, Alive
  <2>5. ASSUME NEW o \in Ops, Unhealthy(o) PROVE OwnInv'
    <3>1. /\ UNCHANGED <<current, proc, spawnedOver>> /\ op[o].of \in Objects
          /\ object' = [object EXCEPT ![op[o].of].url = 0]
      BY <2>5 DEF Unhealthy, processes, Valid, OrchestratorTypeOK, MadeInv
    <3>2. \A i \in Objects : /\ object'[i].child = object[i].child
                             /\ object'[i].url \in {0, object[i].url}
                             /\ object[i] = NoObject => object'[i] = NoObject
      BY <3>1, <2>ty DEF Valid, OrchestratorTypeOK, NoObject
    <3> QED
      BY <3>1, <3>2, <2>ty DEF OwnInv, Alive
  <2>6. ASSUME NEW p \in Procs, Boot(p) PROVE OwnInv'
    <3>1. /\ UNCHANGED <<current, object, spawnedOver>> /\ proc[p].life = "booting"
          /\ proc'[p].life = "up" /\ proc'[p].by = proc[p].by
          /\ \A r \in Procs : r # p => proc'[r] = proc[r]
      BY <2>6 DEF Boot, objects, Valid, OrchestratorTypeOK
    <3>2. \A r \in Procs : /\ (proc'[r].life \in {"booting", "up"} <=> Alive(r)) /\ proc'[r].by = proc[r].by
                           /\ (proc'[r].life = "killed" => proc[r].life = "killed")
      BY <3>1 DEF Alive
    <3>3. current # 0 /\ object[current].child # 0 => object[current].child \in Procs
      BY <2>ty DEF Valid, OrchestratorTypeOK, Procs
    <3> QED
      BY <3>1, <3>2, <3>3 DEF OwnInv, Alive
  <2>7. ASSUME NEW p \in Procs, Exit(p) PROVE OwnInv'
    <3>1. /\ UNCHANGED <<current, spawnedOver>> /\ proc[p].by \in Objects
          /\ object' = [object EXCEPT ![proc[p].by] = NoObject]
          /\ proc[p].life \in {"booting", "up", "killed"}
      BY <2>7 DEF Exit, Valid, OrchestratorTypeOK
    <3>2. /\ proc'[p].life = "dead" /\ \A r \in Procs : r # p => proc'[r] = proc[r]
      BY <2>7 DEF Exit, Dead, Valid, OrchestratorTypeOK
    <3>3. /\ object'[proc[p].by] = NoObject
          /\ \A i \in Objects : i # proc[p].by => object'[i] = object[i]
      BY <3>1, <2>ty
    <3>4. current # 0 /\ object[current].child # 0 => object[current].child \in Procs
      BY <2>ty DEF Valid, OrchestratorTypeOK, Procs
    <3>5. CASE Alive(p)
      <4>1. current # 0 /\ p = object[current].child /\ proc[p].by = current
        BY <3>1, <3>5 DEF OwnInv
      <4>2. \A r \in Procs : r # p => ~Alive(r)
        BY <4>1, <3>1 DEF OwnInv
      <4> QED
        BY <4>1, <4>2, <3>1, <3>2, <3>3, <2>ty DEF OwnInv, Alive, NoObject
    <3>6. CASE proc[p].life = "killed"
      <4>1. proc[p].by # current /\ ~Alive(p)
        BY <3>1, <3>6 DEF OwnInv, Alive
      <4> QED
        BY <4>1, <3>1, <3>2, <3>3, <3>4, <2>ty DEF OwnInv, Alive
    <3> QED
      BY <3>1, <3>5, <3>6 DEF Alive
  <2>8. CASE StoreKey \/ ClearKey
    <3>1. /\ current' = 0 /\ ~spawnedOver
          /\ object' = [i \in Objects |-> IF i = current THEN NoObject ELSE object[i]]
          /\ proc' = [p \in Procs |-> IF current # 0 /\ p = object[current].child /\ Alive(p)
                                THEN [proc[p] EXCEPT !.life = "killed"] ELSE proc[p]]
      BY <2>8 DEF StoreKey, ClearKey, Dispose
    <3>2. \A i \in Objects : object'[i] = NoObject
      BY <3>1 DEF OwnInv
    <3>3. \A p \in Procs : proc'[p].life \notin {"booting", "up"}
      <4> TAKE p \in Procs
      <4>1. proc[p] \in [key : 0..MaxKeys, life : Lives, by : {0} \cup Objects]
        BY DEF Valid, OrchestratorTypeOK
      <4>2. CASE Alive(p)
        BY <3>1, <4>1, <4>2 DEF OwnInv
      <4>3. CASE ~Alive(p)
        BY <3>1, <4>3 DEF Alive
      <4> QED
        BY <4>2, <4>3
    <3>4. \A p \in Procs : proc'[p].life = "killed" => proc'[p].by # 0
      BY <3>1 DEF Valid, OrchestratorTypeOK, Alive
    <3> QED
      BY <3>1, <3>2, <3>3, <3>4 DEF OwnInv, Alive
  <2>9. CASE ChatChangesKey \/ UNCHANGED orchestrator
    BY <2>9 DEF ChatChangesKey, orchestrator, objects, processes, OwnInv, Alive
  <2> QED
    BY <2>1, <2>2, <2>3, <2>4, <2>5, <2>6, <2>7, <2>8, <2>9 DEF Owner, Keys
<1> QED
  BY <1>1, <1>2, PanelOwns, OwnerTypeInv, PTL DEF Spec

\* A living process can be killed by the object in use, unless a start spawnedOver.
THEOREM NoOrphan == Spec => []NoOrphanUnlessOverlapped
<1>1. OwnInv => NoOrphanUnlessOverlapped
  BY DEF OwnInv, NoOrphanUnlessOverlapped
<1> QED
  BY <1>1, OneOwner, PTL

\* An object with an address has a process that can answer, unless a start spawnedOver.
THEOREM AddressAnswers == Spec => []AddressHasProcess
<1>1. Valid /\ OwnInv => AddressHasProcess
  <2> SUFFICES ASSUME Valid, OwnInv, ~spawnedOver, NEW i \in Objects, object[i].url # 0
               PROVE  proc[object[i].url].life # "dead"
    BY DEF AddressHasProcess
  <2>1. i = current /\ current # 0
    BY OrchestratorAssumption DEF OwnInv, NoObject, Objects
  <2> QED
    BY <2>1 DEF OwnInv, Alive
<1> QED
  BY <1>1, OneOwner, OwnerTypeInv, PTL

-----------------------------------------------------------------------------
\* What runs, and what is about to be spawned, has the stored key.
THEOREM KeyCorrect == Spec => []KeyInv
<1>1. Init => KeyInv
  BY DEF Init, OrchestratorInit, KeyInv, Alive, Free
<1>2. Valid /\ OwnInv /\ KeyInv /\ Owner => KeyInv'
  <2> SUFFICES ASSUME Valid, OwnInv, KeyInv, Owner, ~spawnedOver', ~fromChat' PROVE KeyInv'
    BY DEF KeyInv
  <2> USE OrchestratorAssumption
  <2>ty. /\ made \in Nat /\ current \in Nat /\ 0 \notin Procs /\ 0 \notin Objects
         /\ \A o \in Ops : op[o].of <= made /\ op[o].of \in Nat
    BY DEF Valid, OrchestratorTypeOK, Objects, MadeInv, Procs
  <2>0. ASSUME Ensure, current = 0, NEW o \in Ops PROVE op[o].of # current'
    BY <2>0, <2>ty DEF Ensure, Ensured
  <2>1. ASSUME NEW o \in Ops, Call(o) PROVE KeyInv'
    <3>1. /\ proc' = proc /\ UNCHANGED <<spawnedOver, fromChat, key>> /\ Ensure
          /\ op'[o].key \in {0, key} /\ (op'[o].stage = "port" => op'[o].key = key)
          /\ \A q \in Ops \ {o} : op'[q] = op[q]
      BY <2>1 DEF Call, processes, secrets, Valid, OrchestratorTypeOK
    <3>2. current # 0 => current' = current
      BY <3>1 DEF Ensure, Ensured
    <3> QED
      BY <3>1, <3>2, <2>0 DEF KeyInv, Alive
  <2>2. CASE Ensure /\ UNCHANGED <<secrets, processes, op>>
    <3>1. current # 0 => current' = current
      BY <2>2 DEF Ensure, Ensured
    <3> QED
      BY <2>2, <3>1, <2>0 DEF KeyInv, Alive, secrets, processes
  <2>3. ASSUME NEW o \in Ops, Spawn(o) PROVE KeyInv'
    <3>1. /\ ~spawnedOver /\ op[o].of = current /\ UNCHANGED <<fromChat, key, current>>
          /\ op[o].stage = "port"
      BY <2>3 DEF Spawn, secrets
    <3>2. op[o].key = key
      BY <3>1 DEF KeyInv
    <3>3. \A p \in Procs : proc'[p] = proc[p] \/ proc'[p].key = key
      BY <2>3, <3>2 DEF Spawn, Valid, OrchestratorTypeOK
    <3>4. \A q \in Ops : op'[q] = op[q] \/ op'[q].stage # "port"
      BY <2>3 DEF Spawn, Valid, OrchestratorTypeOK
    <3> QED
      BY <3>1, <3>3, <3>4 DEF KeyInv, Alive
  <2>4. ASSUME NEW o \in Ops, Healthy(o) \/ Unhealthy(o) \/ Done(o) PROVE KeyInv'
    <3>1. UNCHANGED <<spawnedOver, fromChat, key, current, proc>>
      BY <2>4 DEF Healthy, Unhealthy, Done, secrets, objects, processes
    <3>2. \A q \in Ops : op'[q] = op[q] \/ op'[q].stage # "port"
      BY <2>4 DEF Healthy, Unhealthy, Done, Free, Valid, OrchestratorTypeOK
    <3> QED
      BY <3>1, <3>2 DEF KeyInv, Alive
  <2>5. ASSUME NEW p \in Procs, Boot(p) \/ Exit(p) PROVE KeyInv'
    <3>1. UNCHANGED <<spawnedOver, fromChat, key, current, op>>
      BY <2>5 DEF Boot, Exit, secrets, objects
    <3>2. \A q \in Procs : proc'[q] = proc[q] \/ (proc'[q].key = proc[q].key /\ Alive(q)) \/ proc'[q].life = "dead"
      <4> SUFFICES ASSUME NEW q \in Procs
                   PROVE  proc'[q] = proc[q] \/ (proc'[q].key = proc[q].key /\ Alive(q)) \/ proc'[q].life = "dead"
        OBVIOUS
      <4>1. proc[p] \in [key : 0..MaxKeys, life : Lives, by : {0} \cup Objects] /\ DOMAIN proc = Procs
        BY DEF Valid, OrchestratorTypeOK
      <4>2. q # p => proc'[q] = proc[q]
        BY <2>5, <4>1 DEF Boot, Exit
      <4>3. Boot(p) => proc'[p].key = proc[p].key /\ Alive(p)
        BY <4>1 DEF Boot, Alive
      <4>4. Exit(p) => proc'[p].life = "dead"
        BY <4>1 DEF Exit, Dead
      <4> QED
        BY <2>5, <4>2, <4>3, <4>4
    <3> QED
      BY <3>1, <3>2 DEF KeyInv, Alive
  <2>6. CASE StoreKey \/ ClearKey
    <3>1. /\ current' = 0 /\ UNCHANGED <<spawnedOver, fromChat, op>>
          /\ proc' = [p \in Procs |-> IF current # 0 /\ p = object[current].child /\ Alive(p)
                                THEN [proc[p] EXCEPT !.life = "killed"] ELSE proc[p]]
      BY <2>6 DEF StoreKey, ClearKey, Dispose
    <3>2. \A p \in Procs : proc'[p].life \notin {"booting", "up"}
      <4> TAKE p \in Procs
      <4>1. proc[p] \in [key : 0..MaxKeys, life : Lives, by : {0} \cup Objects]
        BY DEF Valid, OrchestratorTypeOK
      <4>2. CASE Alive(p)
        BY <3>1, <4>1, <4>2 DEF OwnInv
      <4>3. CASE ~Alive(p)
        BY <3>1, <4>3 DEF Alive
      <4> QED
        BY <4>2, <4>3
    <3>3. \A o \in Ops : op[o].stage = "port" => op[o].of # 0
      BY DEF Valid, MadeInv
    <3> QED
      BY <3>1, <3>2, <3>3 DEF KeyInv, Alive
  <2>7. CASE ChatChangesKey
    BY <2>7 DEF ChatChangesKey
  <2>8. CASE UNCHANGED orchestrator
    BY <2>8 DEF orchestrator, secrets, objects, processes, KeyInv, Alive
  <2> QED
    BY <2>1, <2>2, <2>3, <2>4, <2>5, <2>6, <2>7, <2>8 DEF Owner, Keys
<1> QED
  BY <1>1, <1>2, PanelOwns, OwnerTypeInv, OneOwner, PTL DEF Spec

\* What runs, runs under the stored key, unless the chat changed it or a start spawnedOver.
THEOREM KeyInForce == Spec => []KeyInForceUnlessChat
<1>1. KeyInv => KeyInForceUnlessChat
  BY DEF KeyInv, KeyInForceUnlessChat
<1> QED
  BY <1>1, KeyCorrect, PTL

-----------------------------------------------------------------------------
(* A run a command has not been told of is one nobody else knows: it is    *)
(* not polled, not on the screen, and no other command's.                  *)
PanelInv ==
    /\ run \in [Runs -> [status : Statuses, on : 0..MaxProcs]]
    /\ starting \in [Ops -> 0..MaxRuns]
    /\ currentRun \in 0..MaxRuns /\ shown.run \in 0..MaxRuns /\ \A f \in Flights : flight[f].run = 0 => flight[f] = Landed
    /\ watched \in {0, currentRun}
    /\ shown.status = "ended" /\ shown.run = currentRun => watched = 0
    /\ flight \in [Flights -> [run : 0..MaxRuns, to : 0..MaxProcs, got : Statuses]]
    /\ \A r \in Runs : run[r].status = "none" =>
           currentRun # r /\ shown.run # r /\ (\A f \in Flights : flight[f].run # r) /\ \A o \in Ops : starting[o] # r
    /\ \A o \in Ops : starting[o] # 0 =>
           /\ currentRun # starting[o] /\ shown.run # starting[o]
           /\ \A f \in Flights : flight[f].run # starting[o]
           /\ \A q \in Ops \ {o} : starting[q] # starting[o]

\* The run POST /runs makes is one there was not.
LEMMA FreshRun ==
  ASSUME UnusedRuns # {}
  PROVE  (CHOOSE u \in UnusedRuns : \A v \in UnusedRuns : u <= v) \in UnusedRuns
<1>1. UnusedRuns \subseteq Nat
  BY DEF UnusedRuns, Runs
<1> DEFINE less == {ss \in Nat \X Nat : ss[1] < ss[2]}
<1>w. IsWellFoundedOn(less, Nat)
  BY NatLessThanWellFounded DEF OpToRel
<1>2. PICK u \in UnusedRuns : \A v \in UnusedRuns : <<v, u>> \notin less
  <2> HIDE DEF less
  <2> QED
    BY <1>1, <1>w, WFMin
<1>3. \A v \in UnusedRuns : u <= v
  <2> SUFFICES ASSUME NEW v \in UnusedRuns, v < u PROVE FALSE
    BY <1>1
  <2>1. <<v, u>> \in Nat \X Nat /\ <<v, u>>[1] < <<v, u>>[2]
    BY <1>1
  <2> QED
    BY <2>1, <1>2
<1> QED
  BY <1>3

\* The panel's invariant holds in every reachable state.
THEOREM PanelCorrect == Spec => []PanelInv
<1> USE PanelAssumption
<1>1. Init => PanelInv
  <2> SUFFICES ASSUME Init PROVE PanelInv
    OBVIOUS
  <2>1. /\ currentRun = 0 /\ watched = 0 /\ shown = NothingShown
        /\ run = [r \in Runs |-> [status |-> "none", on |-> 0]]
        /\ starting = [o \in Ops |-> 0] /\ flight = [f \in Flights |-> Landed]
    BY DEF Init
  <2>2. 0 \in 0..MaxRuns /\ 0 \in 0..MaxProcs /\ 0 \notin Runs
    BY OrchestratorAssumption DEF Runs
  <2>3. flight \in [Flights -> [run : 0..MaxRuns, to : 0..MaxProcs, got : Statuses]]
        /\ \A f \in Flights : flight[f] = Landed /\ flight[f].run = 0
    BY <2>1, <2>2 DEF Landed, Statuses
  <2>4. run \in [Runs -> [status : Statuses, on : 0..MaxProcs]]
    BY <2>1, <2>2 DEF Statuses
  <2>5. shown.run = 0 /\ shown.status = "none"
    BY <2>1 DEF NothingShown
  <2> QED
    BY <2>1, <2>2, <2>3, <2>4, <2>5 DEF PanelInv
<1>2. Valid /\ PanelInv /\ [Next]_vars => PanelInv'
  <2> SUFFICES ASSUME Valid, PanelInv, [Next]_vars PROVE PanelInv'
    OBVIOUS
  <2>same. ASSUME UNCHANGED arena PROVE PanelInv'
    BY <2>same DEF arena, PanelInv
  <2>1. ASSUME NEW o \in Ops, Create(o) PROVE PanelInv'
    <3> DEFINE r == CHOOSE u \in UnusedRuns : \A v \in UnusedRuns : u <= v
               url == object[op[o].of].url
    <3>1. /\ UnusedRuns # {} /\ starting[o] = 0 /\ url \in 0..MaxProcs
          /\ run' = [run EXCEPT ![r] = [status |-> "running", on |-> url]]
          /\ starting' = [starting EXCEPT ![o] = r]
          /\ UNCHANGED <<currentRun, watched, flight, shown>>
      BY <2>1 DEF Create, Valid, OrchestratorTypeOK, MadeInv
    <3>2. r \in Runs /\ run[r].status = "none" /\ r \in 0..MaxRuns /\ r # 0
      <4>1. r \in UnusedRuns
        BY <3>1, FreshRun, Zenon
      <4> HIDE DEF r
      <4> QED
        BY <4>1 DEF UnusedRuns, Runs
    <3> HIDE DEF r, url
    <3>3. /\ run' \in [Runs -> [status : Statuses, on : 0..MaxProcs]]
          /\ run'[r].status = "running" /\ \A s \in Runs : s # r => run'[s] = run[s]
      BY <3>1, <3>2 DEF PanelInv, Statuses
    <3>4. /\ starting' \in [Ops -> 0..MaxRuns]
          /\ starting'[o] = r /\ \A q \in Ops : q # o => starting'[q] = starting[q]
      BY <3>1, <3>2 DEF PanelInv
    <3> QED
      BY <3>1, <3>2, <3>3, <3>4 DEF PanelInv
  <2>2. ASSUME NEW o \in Ops, Adopt(o) PROVE PanelInv'
    <3>1. /\ starting[o] # 0 /\ currentRun' = starting[o] /\ watched' = starting[o]
          /\ starting' = [starting EXCEPT ![o] = 0] /\ UNCHANGED <<run, flight, shown>>
      BY <2>2 DEF Adopt
    <3>2. /\ starting' \in [Ops -> 0..MaxRuns] /\ starting[o] \in 0..MaxRuns
          /\ \A q \in Ops : starting'[q] \in {0, starting[q]}
          /\ starting'[o] = 0
      BY <3>1 DEF PanelInv
    <3>3. \A s \in Runs : run[s].status = "none" => starting[o] # s
      BY DEF PanelInv
    <3>4. \A q \in Ops : starting'[q] # 0 => starting'[q] = starting[q] /\ q # o
      BY <3>2
    <3>5. \A s \in Runs : run[s].status = "none" => \A q \in Ops : starting'[q] # s
      BY <3>2 DEF PanelInv, Runs
    <3> QED
      BY <3>1, <3>2, <3>3, <3>4, <3>5 DEF PanelInv
  <2>3. ASSUME NEW o \in Ops, Finish(o) PROVE PanelInv'
    <3>1. /\ starting' = [starting EXCEPT ![o] = 0]
          /\ UNCHANGED <<run, currentRun, watched, flight, shown>>
      BY <2>3 DEF Finish
    <3>2. /\ starting' \in [Ops -> 0..MaxRuns] /\ \A q \in Ops : starting'[q] \in {0, starting[q]}
      BY <3>1 DEF PanelInv
    <3>3. \A s \in Runs : run[s].status = "none" => \A q \in Ops : starting'[q] # s
      BY <3>2 DEF PanelInv, Runs
    <3> QED
      BY <3>1, <3>2, <3>3 DEF PanelInv
  <2>4. ASSUME NEW r \in Runs, RunEnds(r) PROVE PanelInv'
    <3>1. /\ run' \in [Runs -> [status : Statuses, on : 0..MaxProcs]]
          /\ \A s \in Runs : run'[s].status = "none" => run[s].status = "none"
          /\ UNCHANGED <<starting, currentRun, watched, flight, shown>>
      BY <2>4 DEF RunEnds, PanelInv, Statuses
    <3> QED
      BY <3>1 DEF PanelInv
  <2>5. ASSUME NEW f \in Flights, Refresh(f) PROVE PanelInv'
    <3>1. /\ watched # 0 /\ watched = currentRun /\ object[Ensured].url \in 0..MaxProcs
          /\ UNCHANGED <<run, starting, currentRun, watched, shown>>
          /\ \/ flight' = flight
             \/ flight' = [flight EXCEPT ![f] = [run |-> watched, to |-> object[Ensured].url, got |-> "none"]]
      BY <2>5, EnsuredIsAnObject DEF Refresh, Valid, OrchestratorTypeOK
    <3>2. /\ flight' \in [Flights -> [run : 0..MaxRuns, to : 0..MaxProcs, got : Statuses]]
          /\ \A g \in Flights : flight'[g].run \in {flight[g].run, currentRun}
      BY <3>1 DEF PanelInv, Statuses
    <3> QED
      BY <3>1, <3>2 DEF PanelInv
  <2>6. ASSUME NEW f \in Flights, Answer(f) \/ Lost(f) PROVE PanelInv'
    <3>1. UNCHANGED <<run, starting, currentRun, watched, shown>>
      BY <2>6 DEF Answer, Lost
    <3>2. /\ flight' \in [Flights -> [run : 0..MaxRuns, to : 0..MaxProcs, got : Statuses]]
          /\ \A g \in Flights : flight'[g].run \in {flight[g].run, 0}
      <4>1. CASE Lost(f)
        <5>1. Landed \in [run : 0..MaxRuns, to : 0..MaxProcs, got : Statuses] /\ Landed.run = 0
          BY OrchestratorAssumption DEF Landed, Statuses
        <5> HIDE DEF Landed
        <5> QED
          BY <4>1, <5>1 DEF Lost, PanelInv
      <4>2. CASE Answer(f)
        <5>1. run[flight[f].run].status \in Statuses
          <6>1. flight[f].run \in 0..MaxRuns /\ flight[f].run # 0
            BY <4>2 DEF Answer, PanelInv
          <6> QED
            BY <6>1 DEF PanelInv, Runs
        <5>2. flight' = [flight EXCEPT ![f].got = run[flight[f].run].status]
          BY <4>2 DEF Answer
        <5> QED
          BY <5>1, <5>2 DEF PanelInv
      <4> QED
        BY <2>6, <4>1, <4>2
    <3>3. \A g \in Flights : flight'[g].run = 0 => flight'[g] = Landed
      <4>1. CASE Lost(f)
        BY <4>1 DEF Lost, PanelInv
      <4>2. CASE Answer(f)
        <5>1. flight[f].run # 0
          BY <4>2 DEF Answer, PanelInv
        <5> QED
          BY <4>2, <5>1 DEF Answer, PanelInv
      <4> QED
        BY <2>6, <4>1, <4>2
    <3> QED
      BY <3>1, <3>2, <3>3 DEF PanelInv, Runs
  <2>7. ASSUME NEW f \in Flights, PostAnswer(f) PROVE PanelInv'
    <3>1. /\ shown'.run \in {0, flight[f].run} /\ shown'.status \in {"none", flight[f].got}
          /\ watched' = IF flight[f].got = "ended" THEN 0 ELSE watched
          /\ UNCHANGED <<run, starting, currentRun>>
          /\ flight' = [flight EXCEPT ![f] = Landed]
      BY <2>7 DEF PostAnswer, Watching, NothingShown
    <3>2. /\ flight' \in [Flights -> [run : 0..MaxRuns, to : 0..MaxProcs, got : Statuses]]
          /\ \A g \in Flights : flight'[g].run \in {flight[g].run, 0}
      <4>1. Landed \in [run : 0..MaxRuns, to : 0..MaxProcs, got : Statuses] /\ Landed.run = 0
        BY OrchestratorAssumption DEF Landed, Statuses
      <4> HIDE DEF Landed
      <4> QED
        BY <3>1, <4>1 DEF PanelInv
    <3>3. \A g \in Flights : flight'[g].run = 0 => flight'[g] = Landed
      BY <3>1 DEF PanelInv
    <3>4. shown'.run = 0 \/ shown'.run = flight[f].run
      BY <3>1
    <3>5. shown'.status = "ended" => watched' = 0
      BY <3>1
    <3> QED
      BY <3>1, <3>2, <3>3, <3>4, <3>5 DEF PanelInv, Runs
  <2>8. CASE Rejected \/ Toggle
    BY <2>8 DEF Rejected, Toggle, NothingShown, PanelInv, Runs
  <2>9. CASE \E o \in Ops : Command(o)
    BY <2>9, <2>1, <2>2, <2>3, <2>same DEF Command
  <2>10. CASE \E f \in Flights : Snapshot(f)
    BY <2>10, <2>5, <2>6, <2>7 DEF Snapshot
  <2> QED
    BY <2>4, <2>8, <2>9, <2>10, <2>same DEF Next, Process, vars
<1> QED
  BY <1>1, <1>2, OwnerTypeInv, PTL DEF Spec

\* Only the current run is ever polled for.
THEOREM OldRunsAreLeft == Spec => []NothingPollsAnOldRun
<1>1. PanelInv => NothingPollsAnOldRun
  BY DEF PanelInv, NothingPollsAnOldRun
<1> QED
  BY <1>1, PanelCorrect, PTL

\* Once the end of the current run is on the screen, nothing asks for it again.
THEOREM PollingEnds == Spec => []PollingStops
<1>1. PanelInv => PollingStops
  BY DEF PanelInv, PollingStops
<1> QED
  BY <1>1, PanelCorrect, PTL

-----------------------------------------------------------------------------
(* The chat view. *)

\* What each way to write the view leaves of it.
LEMMA BlankIsScreen == Blank \in Screens /\ ~Blank.busy /\ Blank.files = {} /\ Blank.drawn = <<>> /\ Blank.said = {}
BY DEF Blank, Screens

\* A view that draws other events.
LEMMA Drawn ==
  ASSUME NEW v \in Screens, NEW d \in Seq(0..MaxEvents)
  PROVE  LET w == [v EXCEPT !.drawn = d]
         IN  w \in Screens /\ w.busy = v.busy /\ w.files = v.files /\ w.drawn = d /\ w.said = v.said
BY DEF Screens

\* A view that is drawn anew.
LEMMA Redrawn ==
  ASSUME NEW v \in Screens, NEW d \in Seq(0..MaxEvents), NEW m \in SUBSET Messages
  PROVE  LET w == [v EXCEPT !.drawn = d, !.said = m]
         IN  w \in Screens /\ w.busy = v.busy /\ w.files = v.files /\ w.drawn = d /\ w.said = m
BY DEF Screens

\* A view that draws a message.
LEMMA Said ==
  ASSUME NEW v \in Screens, NEW m \in Messages
  PROVE  LET w == [v EXCEPT !.said = @ \cup {m}]
         IN  w \in Screens /\ w.busy = v.busy /\ w.files = v.files /\ w.drawn = v.drawn
             /\ w.said = v.said \cup {m}
BY DEF Screens

\* A view that is told the state.
LEMMA Restated ==
  ASSUME NEW v \in Screens, NEW b \in BOOLEAN, NEW fs \in SUBSET Attachments
  PROVE  LET w == [v EXCEPT !.busy = b, !.files = fs]
         IN  w \in Screens /\ w.busy = b /\ w.files = fs /\ w.drawn = v.drawn /\ w.said = v.said
BY DEF Screens

\* What a screen holds.
LEMMA DrawnIsSeq ==
  ASSUME NEW v \in Screens
  PROVE  v.drawn \in Seq(0..MaxEvents) /\ v.busy \in BOOLEAN /\ v.said \in SUBSET Messages
BY DEF Screens

\* Each way to write the fate of a file.
LEMMA TakenOff ==
  ASSUME NEW F, F \in [Attachments -> Fates], NEW f \in Attachments
  PROVE  [F EXCEPT ![f].off = TRUE] \in [Attachments -> Fates]
BY DEF Fates

\* A file that is staged.
LEMMA WasAttached ==
  ASSUME NEW F, F \in [Attachments -> Fates], NEW f \in Attachments
  PROVE  [F EXCEPT ![f].attached = TRUE] \in [Attachments -> Fates]
BY DEF Fates

\* The empty record.
LEMMA EmptyIsSeq == ASSUME NEW S PROVE <<>> \in Seq(S)
OBVIOUS

\* A handler with nothing to do.
LEMMA IdleIsOne == Idle \in HandlerStates /\ Idle.kind # "send" /\ Idle.kind # "open"
BY ChatAssumption DEF Idle, HandlerStates, Clicks, Messages

\* The handler of a message, with the files it takes along.
LEMMA SendIsState ==
  ASSUME NEW fs \in SUBSET Attachments, NEW m \in Messages
  PROVE  LET o == [Idle EXCEPT !.kind = "send", !.files = fs, !.message = m]
         IN  o \in HandlerStates /\ o.kind = "send" /\ o.files = fs /\ o.message = m
<1>1. Idle \in HandlerStates /\ "send" \in Clicks
  BY IdleIsOne DEF Clicks
<1> QED
  BY <1>1 DEF HandlerStates

\* A handler that has pushed goes on, or is done.
LEMMA AfterIsState ==
  ASSUME NEW o \in HandlerStates, NEW next \in After(o)
  PROVE  /\ next \in HandlerStates /\ next.stage \in {"idle", "asking", "starting"}
         /\ o.kind # "send" => next.kind # "send"
         /\ o.kind = "send" => next = [o EXCEPT !.stage = "starting", !.seen = {}]
<1>1. CASE o.kind = "send"
  <2>1. next = [o EXCEPT !.stage = "starting", !.seen = {}]
    BY <1>1 DEF After
  <2> QED
    BY <1>1, <2>1 DEF HandlerStates
<1>2. CASE o.kind = "open"
  <2>1. next \in {Idle, [Idle EXCEPT !.stage = "asking"]}
    BY <1>2 DEF After
  <2> QED
    BY <1>2, <2>1, IdleIsOne DEF HandlerStates, Idle
<1>3. CASE o.kind \notin {"send", "open"}
  <2>1. next = Idle
    BY <1>3 DEF After
  <2> QED
    BY <1>3, <2>1, IdleIsOne DEF Idle
<1> QED
  BY <1>1, <1>2, <1>3

\* A push leaves the handler drawing for the open window, or done with it.
LEMMA PushedTo ==
  ASSUME ChatTypeOK, NEW h \in Handlers, NEW o \in HandlerStates, Pushes(h, o)
  PROVE  \E next \in HandlerStates :
             /\ handler' = [handler EXCEPT ![h] = next]
             /\ panel # 0 => next = [o EXCEPT !.stage = "drawing", !.panel = panel]
             /\ panel = 0 => next.stage \in {"idle", "asking", "starting"}
             /\ o.kind # "send" => next.kind # "send"
             /\ o.kind = "send" => next.kind = "send" /\ next.stage \in {"drawing", "starting"}
                                   /\ next.files = o.files /\ next.message = o.message
<1>1. panel \in 0..MaxWindows
  BY ChatAssumption DEF ChatTypeOK
<1>2. CASE panel # 0
  <2> DEFINE next == [o EXCEPT !.stage = "drawing", !.panel = panel]
  <2>1. next \in HandlerStates /\ next.kind = o.kind /\ next.files = o.files /\ next.message = o.message
        /\ next.stage = "drawing"
    BY <1>1 DEF HandlerStates
  <2>2. handler' = [handler EXCEPT ![h] = next]
    BY <1>2 DEF Pushes
  <2> QED
    BY <1>2, <2>1, <2>2
<1>3. CASE panel = 0
  <2>1. PICK next \in After(o) : handler' = [handler EXCEPT ![h] = next]
    BY <1>3 DEF Pushes
  <2>2. /\ next \in HandlerStates /\ next.stage \in {"idle", "asking", "starting"}
        /\ o.kind # "send" => next.kind # "send"
        /\ o.kind = "send" => next = [o EXCEPT !.stage = "starting", !.seen = {}]
    BY AfterIsState
  <2>3. o.kind = "send" => next.kind = "send" /\ next.stage = "starting" /\ next.files = o.files
                           /\ next.message = o.message
    BY <2>2 DEF HandlerStates
  <2> QED
    BY <1>3, <2>1, <2>2, <2>3
<1> QED
  BY <1>2, <1>3

\* What is on its way are messages.
LEMMA OnTheWayTyped == ASSUME ChatTypeOK PROVE OnTheWay \subseteq Messages
<1>1. Posted \subseteq Messages
  <2>1. \A i \in DOMAIN mail : mail[i] \in Letters
    BY DEF ChatTypeOK
  <2>2. \A letter \in Letters : letter.message \in Messages
    BY DEF Letters
  <2> QED
    BY <2>1, <2>2 DEF Posted
<1>2. Waiting \subseteq Messages
  BY DEF Waiting, ChatTypeOK, HandlerStates
<1> QED
  BY <1>1, <1>2 DEF OnTheWay

\* The message of a click that is taken.
LEMMA HeadIsLetter ==
  ASSUME ChatTypeOK, NEW h \in Handlers, NEW kind, Takes(h, kind)
  PROVE  Head(mail) \in Letters /\ Head(mail).message \in Messages
<1>1. Head(mail) \in Letters
  BY DEF Takes, ChatTypeOK
<1> QED
  BY <1>1 DEF Letters

\* Every reachable state of the chat view is well typed, whatever the messages and their order.
THEOREM ChatTypeCorrect == ChatSpec => []ChatTypeOK
<1>1. ChatInit => ChatTypeOK
  <2> SUFFICES ASSUME ChatInit PROVE ChatTypeOK
    OBVIOUS
  <2>1. view \in Screens
    BY BlankIsScreen DEF ChatInit
  <2>2. handler \in [Handlers -> HandlerStates]
    BY IdleIsOne DEF ChatInit
  <2>3. fate \in [Attachments -> Fates]
    BY DEF ChatInit, Fates
  <2>4. transcript \in Seq(0..MaxEvents) /\ mail \in Seq(Letters)
    BY EmptyIsSeq DEF ChatInit
  <2>5. happened \in 0..MaxEvents /\ panel \in 0..MaxWindows /\ windows \in 0..MaxWindows /\ clicks \in 0..MaxClicks
        /\ sent \in 0..clicks
    BY ChatAssumption DEF ChatInit
  <2> QED
    BY <2>1, <2>2, <2>3, <2>4, <2>5 DEF ChatInit, ChatTypeOK
<1>2. ChatTypeOK /\ [ChatNext]_chatVars => ChatTypeOK'
  <2> SUFFICES ASSUME ChatTypeOK, [ChatNext]_chatVars PROVE ChatTypeOK'
    OBVIOUS
  <2> USE ChatAssumption
  <2>1. ASSUME NEW kind \in Clicks, NEW file \in Attachments \cup {NoOne}, Click(kind, file) PROVE ChatTypeOK'
    <3> DEFINE letter == [kind |-> kind, file |-> file, message |-> IF kind = "send" THEN sent + 1 ELSE 0]
    <3>1. clicks' \in 0..MaxClicks /\ sent' \in 0..clicks' /\ sent + 1 \in Messages
      BY <2>1 DEF Click, ChatTypeOK, Messages
    <3>2. letter \in Letters
      BY <3>1 DEF Letters, Messages
    <3>3. mail' = Append(mail, letter) /\ mail \in Seq(Letters)
      BY <2>1 DEF Click, ChatTypeOK
    <3>4. mail' \in Seq(Letters)
      BY <3>2, <3>3
    <3>5. view' \in Screens
      <4>1. view \in Screens
        BY DEF ChatTypeOK
      <4>2. CASE kind = "newChat"
        BY <2>1, <4>1, <4>2, Redrawn, EmptyIsSeq DEF Click
      <4>3. CASE kind = "send"
        BY <2>1, <3>1, <4>1, <4>3, Said DEF Click
      <4>4. CASE kind \notin {"newChat", "send"}
        BY <2>1, <4>1, <4>4 DEF Click
      <4> QED
        BY <4>2, <4>3, <4>4
    <3>6. strayed' \in BOOLEAN /\ redrawn' \subseteq Messages /\ refused' \subseteq Messages
      <4>1. strayed' \in BOOLEAN
        BY <2>1, Zenon DEF Click, ChatTypeOK
      <4>2. CASE kind = "newChat"
        BY <2>1, <4>1, <4>2, OnTheWayTyped DEF Click, Redraws
      <4>3. CASE kind # "newChat"
        BY <2>1, <4>1, <4>3 DEF Click, ChatTypeOK, redraw
      <4> QED
        BY <4>2, <4>3
    <3> HIDE DEF letter
    <3> QED
      BY <2>1, <3>1, <3>4, <3>5, <3>6 DEF Click, ChatTypeOK, chatHost
  <2>2. CASE Close
    BY <2>2, BlankIsScreen, EmptyIsSeq DEF Close, ChatTypeOK, chatHost, user, chatHistory, redraw
  <2>3. ASSUME NEW h \in Handlers, OpenView(h) PROVE ChatTypeOK'
    <3>1. [Idle EXCEPT !.kind = "open", !.stage = "asking"] \in HandlerStates
      BY IdleIsOne DEF HandlerStates, Idle
    <3>2. handler' \in [Handlers -> HandlerStates] /\ clicks' \in 0..MaxClicks /\ sent' \in 0..clicks'
      BY <2>3, <3>1 DEF OpenView, ChatTypeOK
    <3>3. CASE panel = 0
      <4> DEFINE letter == [kind |-> "push", file |-> NoOne, message |-> 0]
      <4>1. letter \in Letters
        BY DEF Letters, Clicks, Messages
      <4>2. view' \in Screens
        <5>1. view' = [Blank EXCEPT !.drawn = transcript, !.said = said]
          BY <2>3, <3>3 DEF OpenView
        <5>2. transcript \in Seq(0..MaxEvents) /\ said \in SUBSET Messages /\ Blank \in Screens
          BY BlankIsScreen DEF ChatTypeOK
        <5> QED
          BY <5>1, <5>2, Redrawn
      <4>3. mail' = <<letter>> /\ windows + 1 \in 0..MaxWindows /\ redrawn' \subseteq Messages /\ refused' \subseteq Messages
        BY <2>3, <3>3, OnTheWayTyped DEF OpenView, ChatTypeOK, Redraws
      <4>4. mail' \in Seq(Letters)
        BY <4>1, <4>3
      <4> HIDE DEF letter
      <4> QED
        BY <2>3, <3>2, <3>3, <4>2, <4>3, <4>4 DEF OpenView, ChatTypeOK, chatHost
    <3>4. CASE panel # 0
      <4>1. /\ view' \in Screens /\ strayed' \in BOOLEAN
            /\ redrawn' \subseteq Messages /\ refused' \subseteq Messages
        <5>1. CASE transcript = <<>> /\ said = {}
          BY <2>3, <3>4, <5>1 DEF OpenView, ChatTypeOK, redraw
        <5>2. CASE ~(transcript = <<>> /\ said = {})
          <6>1. view' = [view EXCEPT !.drawn = transcript, !.said = said] /\ strayed' = Clearing /\ Redraws
            BY <2>3, <3>4, <5>2 DEF OpenView
          <6> QED
            BY <6>1, OnTheWayTyped, Redrawn DEF Redraws, ChatTypeOK, Clearing
        <5> QED
          BY <5>1, <5>2
      <4> QED
        BY <2>3, <3>2, <3>4, <4>1 DEF OpenView, ChatTypeOK, chatHost
    <3> QED
      BY <3>3, <3>4
  <2>4. ASSUME NEW h \in Handlers, NEW o \in HandlerStates, Pushes(h, o)
        PROVE  handler' \in [Handlers -> HandlerStates]
    BY <2>4, PushedTo DEF ChatTypeOK
  <2>5. ASSUME NEW h \in Handlers, NEW kind, Takes(h, kind)
        PROVE  Head(mail) \in Letters /\ mail' \in Seq(Letters) /\ mail # <<>>
    BY <2>5 DEF Takes, ChatTypeOK
  <2>6. ASSUME NEW h \in Handlers, Handles(h) PROVE ChatTypeOK'
    <3> USE IdleIsOne
    <3>1. CASE Accept(h)
      <4>1. [Idle EXCEPT !.kind = "send", !.files = staged, !.message = Head(mail).message] \in HandlerStates
        <5>1. Head(mail).message \in Messages
          BY <3>1, <2>5 DEF Accept, Letters
        <5> QED
          BY <5>1, SendIsState DEF ChatTypeOK
      <4> QED
        BY <3>1, <4>1, <2>4, <2>5 DEF Accept, ChatTypeOK, chatHost, user, redraw
    <3>2. CASE TurnAway(h)
      <4>1. Head(mail).message \in Messages
        BY <3>2, <2>5 DEF TurnAway, Letters
      <4> QED
        BY <3>2, <4>1, <2>4, <2>5 DEF TurnAway, ChatTypeOK, chatHost, user
    <3>3. CASE TakeOff(h)
      <4>1. CASE Head(mail).file \in Attachments
        <5>1. fate' \in [Attachments -> Fates]
          BY <3>3, <4>1, TakenOff DEF TakeOff, ChatTypeOK
        <5> QED
          BY <3>3, <5>1, <2>4, <2>5 DEF TakeOff, ChatTypeOK, chatHost, user, redraw
      <4>2. CASE Head(mail).file \notin Attachments
        <5>1. fate' = fate
          BY <3>3, <4>2 DEF TakeOff, ChatTypeOK
        <5> QED
          BY <3>3, <5>1, <2>4, <2>5 DEF TakeOff, ChatTypeOK, chatHost, user, redraw
      <4> QED
        BY <4>1, <4>2
    <3>4. CASE NewChat(h)
      BY <3>4, <2>4, <2>5 DEF NewChat, ChatTypeOK, user, chatHistory, redraw
    <3>5. CASE Asks(h)
      <4>1. PICK kind \in {"push", "attach", "openConversation", "delete", "rekey"} :
                /\ Takes(h, kind)
                /\ handler' = [handler EXCEPT ![h] = [Idle EXCEPT !.kind = kind, !.stage = "asking"]]
        BY <3>5 DEF Asks
      <4>2. [Idle EXCEPT !.kind = kind, !.stage = "asking"] \in HandlerStates
        BY DEF HandlerStates, Idle, Clicks
      <4> QED
        BY <3>5, <4>1, <4>2, <2>5 DEF Asks, ChatTypeOK, chatHost, user, chatHistory, redraw
    <3>6. CASE Draw(h)
      BY <3>6 DEF Draw, ChatTypeOK, HandlerStates, chatHost, window, user, chatHistory, redraw
    <3>7. CASE Post(h)
      <4>1. view' \in Screens
        <5>1. handler[h].seen \in SUBSET Attachments
          BY DEF ChatTypeOK, HandlerStates
        <5> QED
          BY <3>7, <5>1, Restated DEF Post, ChatTypeOK
      <4>2. After(handler[h]) \subseteq HandlerStates
        BY AfterIsState DEF ChatTypeOK
      <4>3. handler' \in [Handlers -> HandlerStates]
        BY <3>7, <4>2 DEF Post, ChatTypeOK
      <4> QED
        BY <3>7, <4>1, <4>3 DEF Post, ChatTypeOK, chatHost, user, chatHistory, redraw
    <3>8. CASE Asked(h)
      <4>1. handler[h] \in HandlerStates
        BY DEF ChatTypeOK
      <4> QED
        BY <3>8, <4>1, <2>4 DEF Asked, ChatTypeOK, chatHost, window, user, chatHistory, redraw
    <3>9. CASE Attach(h)
      <4>1. fate' \in [Attachments -> Fates] /\ staged' \subseteq Attachments
        BY <3>9, WasAttached DEF Attach, ChatTypeOK
      <4> QED
        BY <3>9, <4>1 DEF Attach, ChatTypeOK, chatHost, window, user, redraw
    <3>10. CASE Attached(h)
      BY <3>10, <2>4 DEF Attached, ChatTypeOK, chatHost, window, user, chatHistory, redraw
    <3>11. CASE Nothing(h)
      BY <3>11 DEF Nothing, ChatTypeOK, chatHost, window, user, chatHistory, redraw
    <3>12. CASE ShowStored(h)
      <4>1. FromHistory \in Seq(0..MaxEvents)
        BY DEF FromHistory
      <4>2. /\ view' \in Screens /\ strayed' \in BOOLEAN
            /\ redrawn' \subseteq Messages /\ refused' \subseteq Messages
        BY <3>12, <4>1, Redrawn, OnTheWayTyped DEF ShowStored, Redraws, ChatTypeOK, Clearing
      <4> QED
        BY <3>12, <4>1, <4>2, <2>4 DEF ShowStored, ChatTypeOK, user
    <3>13. CASE Abandoned(h)
      BY <3>13, <2>4 DEF Abandoned, ChatTypeOK, window, user, redraw
    <3>14. CASE Start(h)
      <4>1. CASE running = NoOne
        <5>1. /\ running' = h
              /\ handler' = [handler EXCEPT ![h] = [Idle EXCEPT !.kind = "send", !.stage = "running"]]
              /\ fate' = [f \in Attachments |-> IF f \in handler[h].files THEN [fate[f] EXCEPT !.turns = @ + 1] ELSE fate[f]]
          BY <3>14, <4>1 DEF Start
        <5>2. fate' \in [Attachments -> Fates]
          <6>1. fate \in [Attachments -> Fates]
            BY DEF ChatTypeOK
          <6> QED
            BY <5>1, <6>1 DEF Fates
        <5>3. handler' \in [Handlers -> HandlerStates]
          <6>1. [Idle EXCEPT !.kind = "send", !.stage = "running"] \in HandlerStates
            BY DEF HandlerStates, Clicks
          <6> QED
            BY <5>1, <6>1 DEF ChatTypeOK
        <5>4. said' \subseteq Messages
          BY <3>14, <4>1 DEF Start, ChatTypeOK, HandlerStates
        <5> QED
          BY <3>14, <4>1, <5>1, <5>2, <5>3, <5>4 DEF Start, ChatTypeOK, window, user
      <4>2. CASE running # NoOne
        <5>1. refused' \subseteq Messages
          BY <3>14, <4>2 DEF Start, ChatTypeOK, HandlerStates
        <5> QED
          BY <3>14, <4>2, <5>1, <2>4 DEF Start, ChatTypeOK, window, user
      <4> QED
        BY <4>1, <4>2
    <3>15. CASE Event(h)
      <4>1. happened' \in 0..MaxEvents /\ transcript' \in Seq(0..MaxEvents)
        BY <3>15 DEF Event, ChatTypeOK
      <4>2. view' \in Screens /\ strayed' \in BOOLEAN
        <5>1. Append(view.drawn, happened') \in Seq(0..MaxEvents)
          BY <4>1, DrawnIsSeq DEF ChatTypeOK
        <5> QED
          BY <3>15, <5>1, Drawn DEF Event, ChatTypeOK, Clearing
      <4> QED
        BY <3>15, <4>1, <4>2 DEF Event, ChatTypeOK, user, redraw
    <3>16. CASE End(h)
      <4>1. handler' \in [Handlers -> HandlerStates]
        BY <3>16 DEF End, ChatTypeOK, HandlerStates
      <4> QED
        BY <3>16, <4>1 DEF End, ChatTypeOK, window, user, chatHistory, redraw
    <3>17. CASE Saved(h)
      <4>1. handler' \in [Handlers -> HandlerStates]
        BY <3>17, <2>4 DEF Saved, ChatTypeOK
      <4> QED
        BY <3>17, <4>1 DEF Saved, ChatTypeOK, chatHost, window, user, redraw
    <3> QED
      BY <2>6, <3>1, <3>2, <3>3, <3>4, <3>5, <3>6, <3>7, <3>8, <3>9, <3>10, <3>11, <3>12,
         <3>13, <3>14, <3>15, <3>16, <3>17 DEF Handles
  <2>7. CASE UNCHANGED chatVars
    BY <2>7 DEF chatVars, chatHost, window, user, chatHistory, redraw, ChatTypeOK
  <2> QED
    BY <2>1, <2>2, <2>3, <2>6, <2>7 DEF ChatNext
<1> QED
  BY <1>1, <1>2, PTL DEF ChatSpec

-----------------------------------------------------------------------------
\* The window shows the record, or nothing while a click on "new chat" is in the mail.
ScreenInv ==
    panel # 0 /\ ~strayed => view.drawn = (IF Clearing THEN <<>> ELSE transcript)

\* What a step does to the mail, and whether "new chat" is in it.
LEMMA ClearingKept == ASSUME mail' = mail PROVE Clearing' <=> Clearing
BY DEF Clearing

\* A click that is sent.
LEMMA ClearingSent ==
  ASSUME mail \in Seq(Letters), NEW letter \in Letters, mail' = Append(mail, letter)
  PROVE  Clearing' <=> Clearing \/ letter.kind = "newChat"
<1>1. Len(mail) \in Nat /\ DOMAIN mail = 1..Len(mail) /\ DOMAIN mail' = 1..(Len(mail) + 1)
  OBVIOUS
<1>2. \A i \in 1..Len(mail) : mail'[i] = mail[i]
  OBVIOUS
<1>3. mail'[Len(mail) + 1] = letter
  OBVIOUS
<1>4. CASE Clearing
  BY <1>1, <1>2, <1>4 DEF Clearing
<1>5. CASE letter.kind = "newChat"
  BY <1>1, <1>3, <1>5 DEF Clearing
<1>6. CASE ~Clearing /\ letter.kind # "newChat"
  <2> SUFFICES ASSUME NEW i \in 1..(Len(mail) + 1), mail'[i].kind = "newChat" PROVE FALSE
    BY <1>1, <1>6 DEF Clearing
  <2>1. CASE i = Len(mail) + 1
    BY <1>3, <1>6, <2>1
  <2>2. CASE i \in 1..Len(mail)
    BY <1>1, <1>2, <1>6, <2>2 DEF Clearing
  <2> QED
    BY <1>1, <2>1, <2>2
<1> QED
  BY <1>4, <1>5, <1>6

\* A click that is taken out of the mail.
LEMMA ClearingTaken ==
  ASSUME mail \in Seq(Letters), NEW h \in Handlers, NEW kind, Takes(h, kind)
  PROVE  /\ kind = "newChat" => Clearing
         /\ kind # "newChat" => (Clearing' <=> Clearing)
<1>1. mail # <<>> /\ Head(mail).kind = kind /\ mail' = Tail(mail)
  BY DEF Takes
<1>2. Len(mail) \in Nat \ {0} /\ DOMAIN mail = 1..Len(mail) /\ Head(mail) = mail[1]
  BY <1>1
<1>3. DOMAIN mail' = 1..(Len(mail) - 1) /\ \A i \in 1..(Len(mail) - 1) : mail'[i] = mail[i + 1]
  BY <1>1, <1>2
<1>4. kind = "newChat" => Clearing
  BY <1>1, <1>2 DEF Clearing
<1>5. ASSUME Clearing, kind # "newChat" PROVE Clearing'
  <2>1. PICK i \in 1..Len(mail) : mail[i].kind = "newChat"
    BY <1>2, <1>5 DEF Clearing
  <2>2. i # 1
    BY <1>1, <1>2, <1>5, <2>1
  <2>3. i - 1 \in 1..(Len(mail) - 1) /\ (i - 1) + 1 = i
    BY <1>2, <2>2
  <2>4. mail'[i - 1].kind = "newChat"
    BY <1>3, <2>1, <2>3
  <2> QED
    BY <1>3, <2>3, <2>4 DEF Clearing
<1>6. ASSUME Clearing' PROVE Clearing
  <2>1. PICK i \in 1..(Len(mail) - 1) : mail'[i].kind = "newChat"
    BY <1>3, <1>6 DEF Clearing
  <2>2. i + 1 \in 1..Len(mail) /\ mail[i + 1].kind = "newChat"
    BY <1>2, <1>3, <2>1
  <2> QED
    BY <1>2, <2>2 DEF Clearing
<1> QED
  BY <1>4, <1>5, <1>6

\* The letter of a click.
LEMMA LetterSent ==
  ASSUME ChatTypeOK, NEW kind \in Clicks, NEW file \in Attachments \cup {NoOne}, Click(kind, file)
  PROVE  \E letter \in Letters : /\ letter.kind = kind /\ mail' = Append(mail, letter)
                                 /\ kind = "send" => letter.message = sent + 1
<1> DEFINE letter == [kind |-> kind, file |-> file, message |-> IF kind = "send" THEN sent + 1 ELSE 0]
<1>1. sent + 1 \in Messages /\ 0 \in Messages
  BY ChatAssumption DEF Click, ChatTypeOK, Messages
<1>2. letter \in Letters /\ letter.kind = kind /\ (kind = "send" => letter.message = sent + 1)
  BY <1>1 DEF Letters
<1>3. mail' = Append(mail, letter)
  BY DEF Click
<1> QED
  BY <1>2, <1>3

\* What a click does to the view, "newChat" aside.
LEMMA ViewClicked ==
  ASSUME ChatTypeOK, NEW kind \in Clicks, NEW file \in Attachments \cup {NoOne}, Click(kind, file), kind # "newChat"
  PROVE  /\ view'.drawn = view.drawn /\ view'.busy = view.busy
         /\ view'.said = view.said \cup (IF kind = "send" THEN {sent + 1} ELSE {})
<1>1. sent + 1 \in Messages /\ view \in Screens
  BY ChatAssumption DEF Click, ChatTypeOK, Messages
<1>2. CASE kind = "send"
  BY <1>1, <1>2, Said DEF Click
<1>3. CASE kind # "send"
  BY <1>3 DEF Click
<1> QED
  BY <1>2, <1>3

\* Inductive: the events on the screen are those of the record.
LEMMA EventsAreDrawn == ChatSpec => []ScreenInv
<1>1. ChatInit => ScreenInv
  BY DEF ChatInit, ScreenInv
<1>2. ChatTypeOK /\ ScreenInv /\ [ChatNext]_chatVars => ScreenInv'
  <2> SUFFICES ASSUME ChatTypeOK, ScreenInv, [ChatNext]_chatVars PROVE ScreenInv'
    OBVIOUS
  <2>1. /\ view \in Screens /\ mail \in Seq(Letters) /\ transcript \in Seq(0..MaxEvents)
        /\ said \in SUBSET Messages
    BY DEF ChatTypeOK
  <2>2. ASSUME NEW kind \in Clicks, NEW file \in Attachments \cup {NoOne}, Click(kind, file) PROVE ScreenInv'
    <3>1. PICK letter \in Letters : letter.kind = kind /\ mail' = Append(mail, letter)
      BY <2>2, LetterSent
    <3>2. Clearing' <=> Clearing \/ kind = "newChat"
      BY <2>1, <3>1, ClearingSent
    <3>3. CASE kind = "newChat"
      <4>1. view'.drawn = <<>>
        BY <2>1, <2>2, <3>3 DEF Click, Screens
      <4> QED
        BY <3>2, <3>3, <4>1 DEF ScreenInv
    <3>4. CASE kind # "newChat"
      <4>1. view'.drawn = view.drawn
        BY <2>2, <3>4, ViewClicked
      <4> QED
        BY <2>2, <3>2, <3>4, <4>1 DEF Click, ScreenInv, chatHost
    <3> QED
      BY <3>3, <3>4
  <2>3. CASE Close
    BY <2>3 DEF Close, ScreenInv
  <2>4. ASSUME NEW h \in Handlers, OpenView(h) PROVE ScreenInv'
    <3>1. CASE panel = 0
      <4>1. view' = [Blank EXCEPT !.drawn = transcript, !.said = said] /\ transcript' = transcript
            /\ mail' = <<[kind |-> "push", file |-> NoOne, message |-> 0]>>
        BY <2>4, <3>1 DEF OpenView, chatHost
      <4>2. view'.drawn = transcript
        BY <4>1 DEF Blank
      <4>3. ~Clearing'
        BY <4>1 DEF Clearing
      <4> QED
        BY <4>1, <4>2, <4>3 DEF ScreenInv
    <3>2. CASE panel # 0
      <4>1. Clearing' <=> Clearing
        BY <2>4, <3>2, ClearingKept DEF OpenView
      <4>2. CASE transcript = <<>> /\ said = {}
        BY <2>4, <3>2, <4>1, <4>2 DEF OpenView, ScreenInv, chatHost
      <4>3. CASE ~(transcript = <<>> /\ said = {})
        <5>1. view' = [view EXCEPT !.drawn = transcript, !.said = said] /\ strayed' = Clearing /\ transcript' = transcript
          BY <2>4, <3>2, <4>3 DEF OpenView, chatHost, Clearing
        <5>2. view'.drawn = transcript
          BY <2>1, <5>1 DEF Screens
        <5> QED
          BY <4>1, <5>1, <5>2 DEF ScreenInv
      <4> QED
        BY <4>2, <4>3
    <3> QED
      BY <3>1, <3>2
  <2>5. ASSUME NEW h \in Handlers, Handles(h) PROVE ScreenInv'
    <3>1. CASE Accept(h)
      BY <2>1, <3>1, ClearingTaken DEF Accept, ScreenInv, chatHost
    <3>2. CASE TurnAway(h)
      BY <2>1, <3>2, ClearingTaken DEF TurnAway, ScreenInv, chatHost, chatHistory
    <3>3. CASE TakeOff(h)
      BY <2>1, <3>3, ClearingTaken DEF TakeOff, ScreenInv, chatHost
    <3>4. CASE NewChat(h)
      BY <2>1, <3>4, ClearingTaken DEF NewChat, ScreenInv, chatHistory
    <3>5. CASE Asks(h)
      BY <2>1, <3>5, ClearingTaken DEF Asks, ScreenInv, chatHost, chatHistory
    <3>6. CASE Post(h)
      <4>1. view'.drawn = view.drawn
        <5>1. handler[h].seen \in SUBSET Attachments
          BY DEF ChatTypeOK, HandlerStates
        <5>2. view' = view \/ view' = [view EXCEPT !.busy = running # NoOne, !.files = handler[h].seen]
          BY <3>6 DEF Post
        <5> QED
          BY <2>1, <5>2 DEF Screens
      <4> QED
        BY <3>6, <4>1, ClearingKept DEF Post, ScreenInv, chatHost, chatHistory
    <3>7. CASE ShowStored(h)
      <4>1. FromHistory \in Seq(0..MaxEvents)
        BY ChatAssumption DEF FromHistory
      <4>2. panel # 0 => view'.drawn = transcript'
        BY <2>1, <3>7 DEF ShowStored, Screens
      <4> QED
        BY <3>7, <4>2, ClearingKept DEF ShowStored, ScreenInv
    <3>8. CASE Abandoned(h)
      BY <3>8 DEF Abandoned, ScreenInv
    <3>9. CASE Event(h)
      <4>1. Append(view.drawn, happened') \in Seq(0..MaxEvents)
        <5>1. happened' \in 0..MaxEvents
          BY <3>9, ChatAssumption DEF Event, ChatTypeOK
        <5> QED
          BY <2>1, <5>1, DrawnIsSeq
      <4>2. panel # 0 => view'.drawn = Append(view.drawn, happened')
        BY <2>1, <3>9, <4>1, Drawn DEF Event
      <4> QED
        BY <3>9, <4>2, ClearingKept DEF Event, ScreenInv
    <3>10. CASE Draw(h) \/ Asked(h) \/ Attached(h) \/ Nothing(h) \/ End(h)
      BY <3>10, ClearingKept DEF Draw, Asked, Attached, Nothing, End, ScreenInv, chatHost, window, chatHistory
    <3>11. CASE Attach(h) \/ Start(h) \/ Saved(h)
      BY <3>11, ClearingKept DEF Attach, Start, Saved, ScreenInv, chatHost, window
    <3> QED
      BY <2>5, <3>1, <3>2, <3>3, <3>4, <3>5, <3>6, <3>7, <3>8, <3>9, <3>10, <3>11 DEF Handles
  <2>6. CASE UNCHANGED chatVars
    BY <2>6, ClearingKept DEF chatVars, chatHost, window, chatHistory, ScreenInv
  <2> QED
    BY <2>2, <2>3, <2>4, <2>5, <2>6 DEF ChatNext
<1> QED
  BY <1>1, <1>2, ChatTypeCorrect, PTL DEF ChatSpec

-----------------------------------------------------------------------------
\* A closed window shows nothing, and a push belongs to a window.
BusyInv ==
    /\ BusyIsNotStuck
    /\ panel = 0 => ~view.busy
    /\ \A h \in Handlers : handler[h].stage \in {"drawing", "drawn"} => handler[h].panel # 0

\* A handler that could make the view idle again.
Redeems(h) == \/ At(h, "saving")
              \/ handler[h].stage \in {"drawing", "drawn"} /\ handler[h].panel = panel

\* What a push does to the handlers: the one that pushes will post to the open window, if there is one.
LEMMA PushedHandlers ==
  ASSUME ChatTypeOK, NEW h \in Handlers, NEW o \in HandlerStates, Pushes(h, o)
  PROVE  /\ \A g \in Handlers \ {h} : handler'[g] = handler[g]
         /\ panel # 0 => handler'[h].stage = "drawing" /\ handler'[h].panel = panel
         /\ panel = 0 => handler'[h].stage \in {"idle", "asking", "starting"}
         /\ o.kind # "send" => handler'[h].kind # "send"
         /\ o.kind = "send" => /\ handler'[h].kind = "send" /\ handler'[h].stage \in {"drawing", "starting"}
                               /\ handler'[h].files = o.files /\ handler'[h].message = o.message
<1>1. PICK next \in HandlerStates :
         /\ handler' = [handler EXCEPT ![h] = next]
         /\ panel # 0 => next = [o EXCEPT !.stage = "drawing", !.panel = panel]
         /\ panel = 0 => next.stage \in {"idle", "asking", "starting"}
         /\ o.kind # "send" => next.kind # "send"
         /\ o.kind = "send" => next.kind = "send" /\ next.stage \in {"drawing", "starting"} /\ next.files = o.files
                               /\ next.message = o.message
  BY PushedTo
<1>2. handler'[h] = next /\ \A g \in Handlers \ {h} : handler'[g] = handler[g]
  BY <1>1 DEF ChatTypeOK
<1>3. panel # 0 => next.stage = "drawing" /\ next.panel = panel
  BY <1>1 DEF HandlerStates
<1> QED
  BY <1>1, <1>2, <1>3

\* A push takes nobody away who could make the view idle again.
LEMMA PushKeepsBusy ==
  ASSUME ChatTypeOK, BusyInv, NEW h \in Handlers, NEW o \in HandlerStates, Pushes(h, o),
         panel' = panel, running' = running, threw' = threw, view'.busy = view.busy
  PROVE  BusyInv'
<1>1. /\ \A g \in Handlers \ {h} : handler'[g] = handler[g]
      /\ panel # 0 => handler'[h].stage = "drawing" /\ handler'[h].panel = panel
      /\ panel = 0 => handler'[h].stage \in {"idle", "asking", "starting"}
  BY PushedHandlers
<1> QED
  BY <1>1 DEF BusyInv, BusyIsNotStuck, At

\* Nor does a step that leaves those who could where they are.
LEMMA StepKeepsBusy ==
  ASSUME BusyInv, panel' = panel, running' = running, threw' = threw, view'.busy = view.busy,
         \A g \in Handlers :
             \/ handler'[g] = handler[g]
             \/ /\ handler[g].stage \notin {"saving", "drawing", "drawn"}
                /\ handler'[g].stage \notin {"drawing", "drawn"}
             \/ /\ handler[g].stage = "drawing" /\ handler'[g].stage = "drawn"
                /\ handler'[g].panel = handler[g].panel
  PROVE  BusyInv'
<1>1. ASSUME NEW g \in Handlers, Redeems(g) PROVE Redeems(g)'
  BY <1>1 DEF Redeems, At
<1>2. BusyIsNotStuck'
  BY <1>1 DEF BusyInv, BusyIsNotStuck, Redeems
<1>3. ASSUME NEW g \in Handlers, handler'[g].stage \in {"drawing", "drawn"} PROVE handler'[g].panel # 0
  BY <1>3 DEF BusyInv
<1> QED
  BY <1>2, <1>3 DEF BusyInv

\* controller.ts: a window that shows a turn as running has one, or a push on its way that will
\* say otherwise.
THEOREM BusyEnds == ChatSpec => []BusyIsNotStuck
<1>1. ChatInit => BusyInv
  BY BlankIsScreen, IdleIsOne DEF ChatInit, BusyInv, BusyIsNotStuck, Idle
<1>2. ChatTypeOK /\ BusyInv /\ [ChatNext]_chatVars => BusyInv'
  <2> SUFFICES ASSUME ChatTypeOK, BusyInv, [ChatNext]_chatVars PROVE BusyInv'
    OBVIOUS
  <2>1. /\ view \in Screens /\ transcript \in Seq(0..MaxEvents) /\ handler \in [Handlers -> HandlerStates]
        /\ Idle \in HandlerStates /\ Idle.stage = "idle" /\ said \in SUBSET Messages
    BY IdleIsOne DEF ChatTypeOK, Idle
  <2>2. ASSUME NEW kind \in Clicks, NEW file \in Attachments \cup {NoOne}, Click(kind, file) PROVE BusyInv'
    <3>1. view'.busy = view.busy
      <4>1. CASE kind = "newChat"
        BY <2>1, <2>2, <4>1 DEF Click, Screens
      <4> QED
        BY <2>2, <4>1, ViewClicked
    <3> QED
      BY <2>2, <3>1, StepKeepsBusy DEF Click, chatHost
  <2>3. CASE Close
    BY <2>3, BlankIsScreen DEF Close, BusyInv, BusyIsNotStuck, chatHistory, redraw
  <2>4. ASSUME NEW h \in Handlers, OpenView(h) PROVE BusyInv'
    <3>1. /\ At(h, "idle") /\ handler' = [handler EXCEPT ![h] = [Idle EXCEPT !.kind = "open", !.stage = "asking"]]
          /\ running' = running /\ threw' = threw
      BY <2>4 DEF OpenView, chatHost
    <3>2. handler'[h].stage = "asking" /\ \A g \in Handlers \ {h} : handler'[g] = handler[g]
      BY <2>1, <3>1 DEF Idle
    <3>3. CASE panel = 0
      <4>1. view' = [Blank EXCEPT !.drawn = transcript, !.said = said] /\ panel' = windows + 1
        BY <2>4, <3>3 DEF OpenView
      <4>2. ~view'.busy /\ panel' # 0
        BY <4>1, ChatAssumption DEF ChatTypeOK, Blank
      <4> QED
        BY <3>2, <4>2 DEF BusyInv, BusyIsNotStuck
    <3>4. CASE panel # 0
      <4>1. view'.busy = view.busy /\ panel' = panel
        <5>1. panel' = panel /\ (view' = view \/ view' = [view EXCEPT !.drawn = transcript, !.said = said])
          BY <2>4, <3>4 DEF OpenView
        <5> QED
          BY <2>1, <5>1 DEF Screens
      <4>2. \A g \in Handlers :
              \/ handler'[g] = handler[g]
              \/ /\ handler[g].stage \notin {"saving", "drawing", "drawn"}
                 /\ handler'[g].stage \notin {"drawing", "drawn"}
        BY <3>1, <3>2 DEF At
      <4> QED
        BY <3>1, <4>1, <4>2, StepKeepsBusy
    <3> QED
      BY <3>3, <3>4
  <2>5. ASSUME NEW h \in Handlers, Handles(h) PROVE BusyInv'
    <3>1. CASE Accept(h)
      <4>1. [Idle EXCEPT !.kind = "send", !.files = staged, !.message = Head(mail).message] \in HandlerStates
        BY HeadIsLetter, SendIsState, <3>1 DEF Accept, ChatTypeOK
      <4> QED
        BY <3>1, <4>1, PushKeepsBusy DEF Accept, chatHost
    <3>2. CASE TurnAway(h)
      BY <2>1, <3>2, PushKeepsBusy DEF TurnAway, chatHost, chatHistory, redraw
    <3>3. CASE TakeOff(h)
      BY <2>1, <3>3, PushKeepsBusy DEF TakeOff, chatHost
    <3>4. CASE NewChat(h)
      BY <2>1, <3>4, PushKeepsBusy DEF NewChat, chatHistory, redraw
    <3>5. CASE Asks(h)
      <4>1. PICK kind : /\ Takes(h, kind)
                        /\ handler' = [handler EXCEPT ![h] = [Idle EXCEPT !.kind = kind, !.stage = "asking"]]
        BY <3>5 DEF Asks
      <4>2. handler'[h].stage = "asking" /\ handler[h].stage = "idle" /\ \A g \in Handlers \ {h} : handler'[g] = handler[g]
        BY <2>1, <4>1 DEF Idle, Takes, At
      <4> QED
        BY <3>5, <4>2, StepKeepsBusy DEF Asks, chatHost, chatHistory, redraw
    <3>6. CASE Draw(h)
      <4>1. /\ handler[h].stage = "drawing" /\ handler'[h].stage = "drawn" /\ handler'[h].panel = handler[h].panel
            /\ \A g \in Handlers \ {h} : handler'[g] = handler[g]
        BY <2>1, <3>6 DEF Draw, At, HandlerStates
      <4> QED
        BY <3>6, <4>1, StepKeepsBusy DEF Draw, chatHost, window, chatHistory, redraw
    <3>7. CASE Post(h)
      <4>1. PICK next \in After(handler[h]) : handler' = [handler EXCEPT ![h] = next]
        BY <3>7 DEF Post
      <4>2. next.stage \in {"idle", "asking", "starting"}
        BY <2>1, <4>1, AfterIsState
      <4>3. handler'[h] = next /\ \A g \in Handlers \ {h} : handler'[g] = handler[g]
        BY <2>1, <4>1
      <4>4. running' = running /\ panel' = panel /\ threw' = threw /\ handler[h].stage = "drawn"
        BY <3>7 DEF Post, chatHost, chatHistory, redraw, At
      <4>5. CASE handler[h].panel # panel
        <5>1. view' = view
          BY <3>7, <4>5 DEF Post
        <5>2. ASSUME NEW g \in Handlers, Redeems(g) PROVE Redeems(g)'
          BY <4>3, <4>4, <4>5, <5>2 DEF Redeems, At
        <5>3. BusyIsNotStuck'
          BY <4>4, <5>1, <5>2 DEF BusyInv, BusyIsNotStuck, Redeems
        <5> QED
          BY <4>2, <4>3, <4>4, <5>1, <5>3 DEF BusyInv
      <4>6. CASE handler[h].panel = panel
        <5>1. view' = [view EXCEPT !.busy = running # NoOne, !.files = handler[h].seen]
          BY <3>7, <4>6 DEF Post
        <5>2. view'.busy = (running # NoOne)
          BY <2>1, <5>1 DEF Screens
        <5>3. panel # 0
          BY <4>4, <4>6 DEF BusyInv
        <5> QED
          BY <4>2, <4>3, <4>4, <5>2, <5>3 DEF BusyInv, BusyIsNotStuck
      <4> QED
        BY <4>5, <4>6
    <3>8. CASE Asked(h)
      BY <2>1, <3>8, PushKeepsBusy DEF Asked, chatHost, window, chatHistory, redraw
    <3>9. CASE Attach(h)
      BY <3>9, StepKeepsBusy DEF Attach, chatHost, window
    <3>10. CASE Attached(h)
      BY <2>1, <3>10, PushKeepsBusy DEF Attached, chatHost, window, chatHistory, redraw
    <3>11. CASE Nothing(h)
      <4>1. handler'[h].stage = "idle" /\ handler[h].stage = "asking" /\ \A g \in Handlers \ {h} : handler'[g] = handler[g]
        BY <2>1, <3>11 DEF Nothing, At
      <4> QED
        BY <3>11, <4>1, StepKeepsBusy DEF Nothing, chatHost, window, chatHistory, redraw
    <3>12. CASE ShowStored(h)
      <4>1. FromHistory \in Seq(0..MaxEvents)
        BY ChatAssumption DEF FromHistory
      <4>2. view'.busy = view.busy
        BY <2>1, <3>12 DEF ShowStored, Screens
      <4> QED
        BY <2>1, <3>12, <4>2, PushKeepsBusy DEF ShowStored
    <3>13. CASE Abandoned(h)
      BY <2>1, <3>13, PushKeepsBusy DEF Abandoned, window
    <3>14. CASE Start(h)
      <4>1. CASE running = NoOne
        <5>1. running' = h /\ handler' = [handler EXCEPT ![h] = [Idle EXCEPT !.kind = "send", !.stage = "running"]]
              /\ handler[h].stage = "starting"
              /\ panel' = panel /\ view' = view
          BY <3>14, <4>1 DEF Start, window, At
        <5>2. running' # NoOne
          BY <5>1, ChatAssumption
        <5>3. \A g \in Handlers : handler'[g].stage \in {"drawing", "drawn"} => handler'[g] = handler[g]
          BY <2>1, <5>1 DEF Idle
        <5> QED
          BY <5>1, <5>2, <5>3 DEF BusyInv, BusyIsNotStuck
      <4>2. CASE running # NoOne
        BY <2>1, <3>14, <4>2, PushKeepsBusy DEF Start, window
      <4> QED
        BY <4>1, <4>2
    <3>15. CASE Event(h)
      <4>1. Append(view.drawn, happened') \in Seq(0..MaxEvents)
        <5>1. happened' \in 0..MaxEvents
          BY <3>15, ChatAssumption DEF Event, ChatTypeOK
        <5> QED
          BY <2>1, <5>1, DrawnIsSeq
      <4>2. view'.busy = view.busy
        BY <2>1, <3>15, <4>1, Drawn DEF Event
      <4> QED
        BY <3>15, <4>2, StepKeepsBusy DEF Event
    <3>16. CASE End(h)
      <4>1. handler'[h].stage = "saving" /\ \A g \in Handlers \ {h} : handler'[g] = handler[g]
        BY <2>1, <3>16 DEF End, HandlerStates
      <4>2. panel' = panel /\ view' = view
        BY <3>16 DEF End, window
      <4> QED
        BY <4>1, <4>2 DEF BusyInv, BusyIsNotStuck, At
    <3>17. CASE Saved(h)
      <4>1. CASE Pushes(h, Idle) /\ threw' = threw
        BY <2>1, <3>17, <4>1, PushKeepsBusy DEF Saved, chatHost, window
      <4>2. CASE handler' = [handler EXCEPT ![h] = Idle] /\ threw' = TRUE
        <5>1. handler'[h].stage = "idle" /\ \A g \in Handlers \ {h} : handler'[g] = handler[g]
          BY <2>1, <4>2
        <5> QED
          BY <3>17, <4>2, <5>1 DEF Saved, window, BusyInv, BusyIsNotStuck
      <4> QED
        BY <3>17, <4>1, <4>2 DEF Saved
    <3> QED
      BY <2>5, <3>1, <3>2, <3>3, <3>4, <3>5, <3>6, <3>7, <3>8, <3>9, <3>10, <3>11, <3>12,
         <3>13, <3>14, <3>15, <3>16, <3>17 DEF Handles
  <2>6. CASE UNCHANGED chatVars
    BY <2>6, StepKeepsBusy DEF chatVars, chatHost, window, chatHistory, redraw
  <2> QED
    BY <2>2, <2>3, <2>4, <2>5, <2>6 DEF ChatNext
<1>3. BusyInv => BusyIsNotStuck
  BY DEF BusyInv
<1> QED
  BY <1>1, <1>2, <1>3, ChatTypeCorrect, PTL DEF ChatSpec

-----------------------------------------------------------------------------
\* File f is with handler h, whose message waits for its turn.
With(h, f) == Waits(h) /\ f \in handler[h].files

\* Where file f is: nowhere before it was attached, and never in two places.
PlaceInv(f) ==
    /\ fate[f].turns \in {0, 1}
    /\ \A g, h \in Handlers : With(g, f) /\ With(h, f) => g = h
    /\ \A h \in Handlers : With(h, f) => fate[f].turns = 0 /\ f \notin staged /\ fate[f].attached
    /\ f \in staged => fate[f].turns = 0 /\ fate[f].attached
    /\ fate[f].turns = 1 => fate[f].attached
    /\ fate[f].attached /\ ~fate[f].off /\ ~overlapped =>
           fate[f].turns = 1 \/ f \in staged \/ \E h \in Handlers : With(h, f)

\* Until two messages have overtaken each other one waits, while no turn runs.
WaitInv ==
    /\ \A h \in Handlers : handler[h].stage = "starting" => handler[h].kind = "send"
    /\ ~overlapped => /\ \A g, h \in Handlers : Waits(g) /\ Waits(h) => g = h
                      /\ \A h \in Handlers : Waits(h) => running = NoOne

FilesInv == WaitInv /\ \A f \in Attachments : PlaceInv(f)

\* A step that changes the waiting messages in nothing, and the places of the files in nothing.
LEMMA StepKeepsFiles ==
  ASSUME FilesInv, fate' = fate, staged' = staged, overlapped' = overlapped, running' \in {running, NoOne},
         \A g \in Handlers : /\ Waits(g)' <=> Waits(g)
                             /\ Waits(g) => handler'[g].files = handler[g].files
                             /\ handler'[g].stage = "starting" => handler'[g].kind = "send"
  PROVE  FilesInv'
<1>1. \A g \in Handlers, f \in Attachments : With(g, f)' <=> With(g, f)
  BY Zenon DEF With
<1>2. WaitInv'
  BY Zenon DEF FilesInv, WaitInv
<1>3. ASSUME NEW f \in Attachments PROVE PlaceInv(f)'
  BY <1>1 DEF FilesInv, PlaceInv
<1> QED
  BY <1>2, <1>3 DEF FilesInv

\* The push of a handler that carries no files.
LEMMA PushKeepsWaits ==
  ASSUME ChatTypeOK, WaitInv, NEW h \in Handlers, NEW o \in HandlerStates, Pushes(h, o), o.kind # "send", ~Waits(h)
  PROVE  \A g \in Handlers : /\ Waits(g)' <=> Waits(g)
                             /\ Waits(g) => handler'[g].files = handler[g].files
                             /\ handler'[g].stage = "starting" => handler'[g].kind = "send"
<1>1. /\ handler'[h].kind # "send"
      /\ \A g \in Handlers \ {h} : handler'[g] = handler[g]
      /\ panel # 0 => handler'[h].stage # "starting"
  BY PushedHandlers
<1>2. panel = 0 => handler'[h].stage # "starting"
  <2> SUFFICES ASSUME panel = 0 PROVE handler'[h].stage # "starting"
    OBVIOUS
  <2>1. PICK next \in After(o) : handler' = [handler EXCEPT ![h] = next]
    BY DEF Pushes
  <2>2. next \in {Idle, [Idle EXCEPT !.stage = "asking"]}
    BY <2>1 DEF After
  <2>3. next.stage # "starting"
    BY <2>2 DEF Idle
  <2> QED
    BY <2>1, <2>3 DEF ChatTypeOK
<1> QED
  BY <1>1, <1>2 DEF Waits, WaitInv

\* A file that goes nowhere: the step concerns other files.
LEMMA OtherFile ==
  ASSUME NEW f \in Attachments, PlaceInv(f), fate'[f] = fate[f], f \in staged' <=> f \in staged,
         overlapped => overlapped', \A g \in Handlers : With(g, f)' <=> With(g, f)
  PROVE  PlaceInv(f)'
BY DEF PlaceInv

\* Inductive: every file is in one place.
LEMMA FilesKept == ChatSpec => []FilesInv
<1>1. ChatInit => FilesInv
  <2> SUFFICES ASSUME ChatInit PROVE FilesInv
    OBVIOUS
  <2>1. \A h \in Handlers : handler[h].stage = "idle"
    BY DEF ChatInit, Idle
  <2>2. \A f \in Attachments : fate[f].turns = 0 /\ ~fate[f].attached /\ f \notin staged
    BY DEF ChatInit
  <2> QED
    BY <2>1, <2>2 DEF FilesInv, WaitInv, PlaceInv, With, Waits
<1>2. ChatTypeOK /\ FilesInv /\ [ChatNext]_chatVars => FilesInv'
  <2> SUFFICES ASSUME ChatTypeOK, FilesInv, [ChatNext]_chatVars PROVE FilesInv'
    OBVIOUS
  <2>1. /\ handler \in [Handlers -> HandlerStates] /\ fate \in [Attachments -> Fates] /\ staged \subseteq Attachments
        /\ overlapped \in BOOLEAN /\ Idle \in HandlerStates /\ Idle.stage = "idle" /\ Idle.kind # "send"
    BY IdleIsOne DEF ChatTypeOK, Idle
  <2>2. ASSUME NEW kind \in Clicks, NEW file \in Attachments \cup {NoOne}, Click(kind, file) PROVE FilesInv'
    BY <2>2, StepKeepsFiles DEF Click, chatHost, Waits, FilesInv, WaitInv
  <2>3. CASE Close
    BY <2>3, StepKeepsFiles DEF Close, chatHost, chatHistory, redraw, Waits, FilesInv, WaitInv
  <2>4. ASSUME NEW h \in Handlers, OpenView(h) PROVE FilesInv'
    <3>1. /\ At(h, "idle") /\ handler' = [handler EXCEPT ![h] = [Idle EXCEPT !.kind = "open", !.stage = "asking"]]
          /\ fate' = fate /\ staged' = staged /\ overlapped' = overlapped /\ running' = running
      BY <2>4 DEF OpenView, chatHost
    <3>2. handler'[h].stage = "asking" /\ \A g \in Handlers \ {h} : handler'[g] = handler[g]
      BY <2>1, <3>1 DEF Idle
    <3> QED
      BY <3>1, <3>2, StepKeepsFiles DEF At, Waits, FilesInv, WaitInv
  <2>5. ASSUME NEW h \in Handlers, NEW o \in HandlerStates, Pushes(h, o), o.kind # "send", ~Waits(h)
        PROVE  \A g \in Handlers : /\ Waits(g)' <=> Waits(g)
                                   /\ Waits(g) => handler'[g].files = handler[g].files
                                   /\ handler'[g].stage = "starting" => handler'[g].kind = "send"
    BY <2>5, PushKeepsWaits DEF FilesInv
  <2>6. ASSUME NEW h \in Handlers, NEW kind, Takes(h, kind) PROVE ~Waits(h)
    BY <2>6 DEF Takes, At, Waits
  <2>7. ASSUME NEW h \in Handlers, Handles(h) PROVE FilesInv'
    <3>1. CASE Accept(h)
      <4> DEFINE o == [Idle EXCEPT !.kind = "send", !.files = staged, !.message = Head(mail).message]
      <4>1. o \in HandlerStates /\ o.kind = "send" /\ o.files = staged
        <5>1. Head(mail).message \in Messages /\ staged \in SUBSET Attachments
          BY <2>1, <3>1, HeadIsLetter DEF Accept
        <5> QED
          BY <5>1, SendIsState
      <4>2. /\ ~Waits(h) /\ running = NoOne /\ Pushes(h, o) /\ staged' = {} /\ fate' = fate /\ running' = running
            /\ overlapped' = (overlapped \/ \E g \in Handlers : Waits(g))
        BY <3>1, <2>6 DEF Accept, chatHost
      <4> HIDE DEF o
      <4>3. /\ \A g \in Handlers \ {h} : handler'[g] = handler[g]
            /\ Waits(h)' /\ handler'[h].kind = "send" /\ handler'[h].files = staged
        BY <4>1, <4>2, PushedHandlers DEF Waits
      <4>4. WaitInv'
        <5>1. \A g \in Handlers \ {h} : Waits(g)' <=> Waits(g)
          BY <4>3 DEF Waits
        <5>2. ~overlapped' => ~overlapped /\ \A g \in Handlers : ~Waits(g)
          BY <4>2
        <5>3. \A g \in Handlers : handler'[g].stage = "starting" => handler'[g].kind = "send"
          BY <4>3 DEF FilesInv, WaitInv
        <5> QED
          BY <4>2, <5>1, <5>2, <5>3 DEF WaitInv
      <4>5. ASSUME NEW f \in Attachments PROVE PlaceInv(f)'
        <5>1. PlaceInv(f)
          BY DEF FilesInv
        <5>2. \A g \in Handlers \ {h} : With(g, f)' <=> With(g, f)
          BY <4>3 DEF With, Waits
        <5>3. (With(h, f)' <=> f \in staged) /\ ~With(h, f)
          BY <4>2, <4>3 DEF With
        <5>4. overlapped => overlapped'
          BY <4>2
        <5> QED
          BY <4>2, <5>1, <5>2, <5>3, <5>4 DEF PlaceInv
      <4> QED
        BY <4>4, <4>5 DEF FilesInv
    <3>2. CASE TurnAway(h)
      BY <3>2, <2>1, <2>5, <2>6, StepKeepsFiles DEF TurnAway, chatHost, chatHistory, redraw
    <3>3. CASE TakeOff(h)
      <4>1. /\ Pushes(h, Idle) /\ ~Waits(h) /\ running' = running /\ overlapped' = overlapped
            /\ staged' = staged \ {Head(mail).file} /\ fate' = [fate EXCEPT ![Head(mail).file].off = TRUE]
        BY <3>3, <2>6 DEF TakeOff, chatHost
      <4>2. \A g \in Handlers : /\ Waits(g)' <=> Waits(g)
                                /\ Waits(g) => handler'[g].files = handler[g].files
                                /\ handler'[g].stage = "starting" => handler'[g].kind = "send"
        BY <2>1, <2>5, <4>1
      <4>3. WaitInv'
        BY <4>1, <4>2, Zenon DEF FilesInv, WaitInv
      <4>4. ASSUME NEW f \in Attachments PROVE PlaceInv(f)'
        <5>1. PlaceInv(f) /\ \A g \in Handlers : With(g, f)' <=> With(g, f)
          BY <4>2, Zenon DEF FilesInv, With
        <5>2. CASE f = Head(mail).file
          <6>1. fate'[f].off /\ fate'[f].turns = fate[f].turns /\ fate'[f].attached = fate[f].attached /\ f \notin staged'
            BY <2>1, <4>1, <5>2 DEF Fates
          <6> QED
            BY <5>1, <6>1 DEF PlaceInv
        <5>3. CASE f # Head(mail).file
          <6>1. fate'[f] = fate[f] /\ (f \in staged' <=> f \in staged)
            BY <2>1, <4>1, <5>3
          <6> QED
            BY <4>1, <5>1, <6>1, OtherFile
        <5> QED
          BY <5>2, <5>3
      <4> QED
        BY <4>3, <4>4 DEF FilesInv
    <3>4. CASE NewChat(h)
      BY <3>4, <2>1, <2>5, <2>6, StepKeepsFiles DEF NewChat, chatHistory, redraw
    <3>5. CASE Asks(h)
      <4>1. PICK kind : /\ Takes(h, kind)
                        /\ handler' = [handler EXCEPT ![h] = [Idle EXCEPT !.kind = kind, !.stage = "asking"]]
        BY <3>5 DEF Asks
      <4>2. handler'[h].stage = "asking" /\ handler[h].stage = "idle" /\ \A g \in Handlers \ {h} : handler'[g] = handler[g]
        BY <2>1, <4>1 DEF Idle, Takes, At
      <4> QED
        BY <3>5, <4>2, StepKeepsFiles DEF Asks, chatHost, chatHistory, redraw, Waits, FilesInv, WaitInv
    <3>6. CASE Draw(h)
      <4>1. /\ handler[h].stage = "drawing" /\ handler'[h].stage = "drawn" /\ handler'[h].kind = handler[h].kind
            /\ handler'[h].files = handler[h].files /\ \A g \in Handlers \ {h} : handler'[g] = handler[g]
        BY <2>1, <3>6 DEF Draw, At, HandlerStates
      <4> QED
        BY <3>6, <4>1, StepKeepsFiles DEF Draw, chatHost, chatHistory, redraw, Waits, FilesInv, WaitInv
    <3>7. CASE Post(h)
      <4>1. PICK next \in After(handler[h]) : handler' = [handler EXCEPT ![h] = next]
        BY <3>7 DEF Post
      <4>2. /\ next.stage \in {"idle", "asking", "starting"}
            /\ handler[h].kind # "send" => next.kind # "send"
            /\ handler[h].kind = "send" => next.kind = "send" /\ next.stage = "starting" /\ next.files = handler[h].files
        <5>1. handler[h] \in HandlerStates
          BY <2>1
        <5>2. /\ next.stage \in {"idle", "asking", "starting"}
              /\ handler[h].kind # "send" => next.kind # "send"
              /\ handler[h].kind = "send" => next = [handler[h] EXCEPT !.stage = "starting", !.seen = {}]
          BY <4>1, <5>1, AfterIsState
        <5> QED
          BY <5>1, <5>2 DEF HandlerStates
      <4>3. handler'[h] = next /\ handler[h].stage = "drawn" /\ \A g \in Handlers \ {h} : handler'[g] = handler[g]
        BY <2>1, <3>7, <4>1 DEF Post, At
      <4>4. handler[h].kind # "send" => next.stage # "starting"
        <5>1. CASE handler[h].kind # "send"
          <6>1. next \in {Idle, [Idle EXCEPT !.stage = "asking"]}
            BY <4>1, <5>1 DEF After
          <6> QED
            BY <6>1 DEF Idle
        <5> QED
          BY <5>1
      <4>5. \A g \in Handlers : /\ Waits(g)' <=> Waits(g)
                                /\ Waits(g) => handler'[g].files = handler[g].files
                                /\ handler'[g].stage = "starting" => handler'[g].kind = "send"
        BY <4>2, <4>3, <4>4 DEF Waits, FilesInv, WaitInv
      <4> QED
        BY <3>7, <4>5, StepKeepsFiles DEF Post, chatHost, chatHistory, redraw
    <3>8. CASE Asked(h)
      <4>1. handler[h] \in HandlerStates /\ handler[h].kind # "send" /\ ~Waits(h) /\ Pushes(h, handler[h])
        BY <2>1, <3>8 DEF Asked, Waits
      <4> QED
        BY <3>8, <4>1, <2>5, StepKeepsFiles DEF Asked, chatHost, chatHistory, redraw
    <3>9. CASE Attach(h)
      <4>1. PICK f \in Attachments : /\ ~fate[f].attached /\ staged' = staged \cup {f}
                                     /\ fate' = [fate EXCEPT ![f].attached = TRUE]
        BY <3>9 DEF Attach
      <4>2. handler' = handler /\ overlapped' = overlapped /\ running' = running
        BY <3>9 DEF Attach, chatHost
      <4>3. WaitInv'
        BY <4>2 DEF FilesInv, WaitInv, Waits
      <4>4. ASSUME NEW e \in Attachments PROVE PlaceInv(e)'
        <5>1. PlaceInv(e) /\ \A g \in Handlers : With(g, e)' <=> With(g, e)
          BY <4>2 DEF FilesInv, With, Waits
        <5>2. CASE e = f
          <6>1. fate'[e].attached /\ fate'[e].turns = fate[e].turns /\ e \in staged'
            BY <2>1, <4>1, <5>2 DEF Fates
          <6> QED
            BY <4>1, <5>1, <5>2, <6>1 DEF PlaceInv
        <5>3. CASE e # f
          <6>1. fate'[e] = fate[e] /\ (e \in staged' <=> e \in staged)
            BY <2>1, <4>1, <5>3
          <6> QED
            BY <4>2, <5>1, <6>1, OtherFile
        <5> QED
          BY <5>2, <5>3
      <4> QED
        BY <4>3, <4>4 DEF FilesInv
    <3>10. CASE Attached(h)
      <4>1. ~Waits(h) /\ Pushes(h, Idle)
        BY <3>10 DEF Attached, Waits
      <4> QED
        BY <3>10, <4>1, <2>1, <2>5, StepKeepsFiles DEF Attached, chatHost, chatHistory, redraw
    <3>11. CASE Nothing(h)
      <4>1. handler'[h].stage = "idle" /\ handler[h].stage = "asking" /\ \A g \in Handlers \ {h} : handler'[g] = handler[g]
        BY <2>1, <3>11 DEF Nothing, At
      <4> QED
        BY <3>11, <4>1, StepKeepsFiles DEF Nothing, chatHost, chatHistory, redraw, Waits, FilesInv, WaitInv
    <3>12. CASE ShowStored(h)
      <4>1. ~Waits(h) /\ Pushes(h, Idle)
        BY <3>12 DEF ShowStored, Waits
      <4> QED
        BY <3>12, <4>1, <2>1, <2>5, StepKeepsFiles DEF ShowStored
    <3>13. CASE Abandoned(h)
      <4>1. ~Waits(h) /\ Pushes(h, Idle)
        BY <3>13 DEF Abandoned, Waits
      <4> QED
        BY <3>13, <4>1, <2>1, <2>5, StepKeepsFiles DEF Abandoned
    <3>14. CASE Start(h)
      <4>1. handler[h].stage = "starting" /\ Waits(h) /\ staged' = staged /\ overlapped' = overlapped
        BY <3>14 DEF Start, At, Waits, FilesInv, WaitInv
      <4>2. CASE running = NoOne
        <5>1. /\ handler' = [handler EXCEPT ![h] = [Idle EXCEPT !.kind = "send", !.stage = "running"]]
              /\ fate' = [f \in Attachments |-> IF f \in handler[h].files THEN [fate[f] EXCEPT !.turns = @ + 1] ELSE fate[f]]
          BY <3>14, <4>2 DEF Start
        <5>2. handler'[h].stage = "running" /\ \A g \in Handlers \ {h} : handler'[g] = handler[g]
          BY <2>1, <5>1 DEF Idle
        <5>3. ~Waits(h)' /\ \A g \in Handlers \ {h} : Waits(g)' <=> Waits(g)
          BY <5>2 DEF Waits
        <5>4. WaitInv'
          BY <4>1, <5>2, <5>3 DEF FilesInv, WaitInv
        <5>5. ASSUME NEW f \in Attachments PROVE PlaceInv(f)'
          <6>1. PlaceInv(f) /\ ~With(h, f)' /\ \A g \in Handlers \ {h} : With(g, f)' <=> With(g, f)
            BY <5>2, <5>3 DEF FilesInv, With
          <6>2. CASE f \in handler[h].files
            <7>1. fate'[f].turns = fate[f].turns + 1 /\ fate'[f].attached = fate[f].attached
              BY <2>1, <5>1, <6>2 DEF Fates
            <7>2. With(h, f)
              BY <4>1, <6>2 DEF With
            <7> QED
              BY <4>1, <6>1, <7>1, <7>2 DEF PlaceInv
          <6>3. CASE f \notin handler[h].files
            <7>1. fate'[f] = fate[f] /\ ~With(h, f)
              BY <5>1, <6>3 DEF With
            <7> QED
              BY <4>1, <6>1, <7>1, OtherFile
          <6> QED
            BY <6>2, <6>3
        <5> QED
          BY <5>4, <5>5 DEF FilesInv
      <4>3. CASE running # NoOne
        <5>1. Pushes(h, Idle) /\ running' = running /\ fate' = fate
          BY <3>14, <4>3 DEF Start
        <5>2. overlapped
          BY <4>1, <4>3 DEF FilesInv, WaitInv
        <5>3. /\ \A g \in Handlers \ {h} : handler'[g] = handler[g]
              /\ handler'[h].kind # "send"
          BY <2>1, <5>1, PushedHandlers
        <5>4. handler'[h].stage # "starting"
          <6>1. CASE panel # 0
            BY <2>1, <5>1, <6>1, PushedHandlers
          <6>2. CASE panel = 0
            <7>1. handler' = [handler EXCEPT ![h] = Idle]
              BY <5>1, <6>2, IdleIsOne DEF Pushes, After
            <7> QED
              BY <2>1, <7>1
          <6> QED
            BY <6>1, <6>2
        <5>5. WaitInv'
          BY <4>1, <5>2, <5>3, <5>4 DEF FilesInv, WaitInv
        <5>6. ASSUME NEW f \in Attachments PROVE PlaceInv(f)'
          <6>1. PlaceInv(f) /\ ~With(h, f)' /\ \A g \in Handlers \ {h} : With(g, f)' <=> With(g, f)
            BY <5>3 DEF FilesInv, With, Waits
          <6> QED
            BY <4>1, <5>1, <5>2, <6>1 DEF PlaceInv
        <5> QED
          BY <5>5, <5>6 DEF FilesInv
      <4> QED
        BY <4>2, <4>3
    <3>15. CASE Event(h)
      BY <3>15, StepKeepsFiles DEF Event, Waits, FilesInv, WaitInv
    <3>16. CASE End(h)
      <4>1. handler'[h].stage = "saving" /\ handler[h].stage = "running" /\ \A g \in Handlers \ {h} : handler'[g] = handler[g]
        BY <2>1, <3>16 DEF End, HandlerStates, At
      <4> QED
        BY <3>16, <4>1, StepKeepsFiles DEF End, chatHistory, redraw, Waits, FilesInv, WaitInv
    <3>17. CASE Saved(h)
      <4>1. ~Waits(h) /\ handler[h].stage = "saving" /\ fate' = fate /\ staged' = staged
            /\ overlapped' = overlapped /\ running' = running
        BY <3>17 DEF Saved, At, Waits, chatHost
      <4>2. CASE Pushes(h, Idle)
        BY <4>1, <4>2, <2>1, <2>5, StepKeepsFiles
      <4>3. CASE handler' = [handler EXCEPT ![h] = Idle]
        <5>1. handler'[h].stage = "idle" /\ \A g \in Handlers \ {h} : handler'[g] = handler[g]
          BY <2>1, <4>3
        <5> QED
          BY <4>1, <5>1, StepKeepsFiles DEF Waits, FilesInv, WaitInv
      <4> QED
        BY <3>17, <4>2, <4>3 DEF Saved
    <3> QED
      BY <2>7, <3>1, <3>2, <3>3, <3>4, <3>5, <3>6, <3>7, <3>8, <3>9, <3>10, <3>11, <3>12,
         <3>13, <3>14, <3>15, <3>16, <3>17 DEF Handles
  <2>8. CASE UNCHANGED chatVars
    BY <2>8, StepKeepsFiles DEF chatVars, chatHost, chatHistory, redraw, Waits, FilesInv, WaitInv
  <2> QED
    BY <2>2, <2>3, <2>4, <2>7, <2>8 DEF ChatNext
<1> QED
  BY <1>1, <1>2, ChatTypeCorrect, PTL DEF ChatSpec

\* controller.ts:464: a file never goes with two messages, and it is lost only when two
\* messages overtook each other.
THEOREM FilesGoOnce == ChatSpec => []FilesGoOnceUnlessOverlapped
<1>1. FilesInv => FilesGoOnceUnlessOverlapped
  <2> SUFFICES ASSUME FilesInv, NEW f \in Attachments
               PROVE  LET waiting == {h \in Handlers : Waits(h) /\ f \in handler[h].files}
                          places == Cardinality(waiting) + fate[f].turns + IF f \in staged THEN 1 ELSE 0
                      IN  /\ places <= 1
                          /\ fate[f].attached /\ ~fate[f].off /\ ~overlapped => places = 1
    BY DEF FilesGoOnceUnlessOverlapped
  <2> DEFINE waiting == {h \in Handlers : Waits(h) /\ f \in handler[h].files}
  <2>1. PlaceInv(f)
    BY DEF FilesInv
  <2>2. CASE \E h \in Handlers : With(h, f)
    <3>1. PICK h \in Handlers : With(h, f)
      BY <2>2
    <3>2. waiting = {h}
      BY <2>1, <3>1 DEF PlaceInv, With
    <3>3. Cardinality(waiting) = 1
      BY <3>2, FS_Singleton
    <3> QED
      BY <2>1, <3>1, <3>3 DEF PlaceInv
  <2>3. CASE ~\E h \in Handlers : With(h, f)
    <3>1. waiting = {}
      BY <2>3 DEF With
    <3>2. Cardinality(waiting) = 0
      BY <3>1, FS_EmptySet
    <3> QED
      BY <2>1, <2>3, <3>2 DEF PlaceInv
  <2> QED
    BY <2>2, <2>3
<1> QED
  BY <1>1, FilesKept, PTL

-----------------------------------------------------------------------------
\* Messages in the mail that no click on "new chat" follows.
Fresh == {mail[i].message : i \in {j \in DOMAIN mail :
             mail[j].kind = "send" /\ \A k \in DOMAIN mail : k > j => mail[k].kind # "newChat"}}

(* A message on its way is on the screen, or was on its way when that was  *)
(* last drawn anew.  While "new chat" is in the mail the screen has the    *)
(* messages sent since; else it has the record, those aside that were on   *)
(* their way when it was drawn, and what is on its way or was turned away. *)
SaidInv ==
    panel # 0 =>
        /\ OnTheWay \subseteq view.said \cup redrawn
        /\ ~strayed /\ Clearing => view.said \subseteq Fresh
        /\ ~strayed /\ ~Clearing => /\ said \ view.said \subseteq redrawn
                                    /\ view.said \ said \subseteq OnTheWay \cup refused

\* The mail that is left alone.
LEMMA MailKept == ASSUME mail' = mail PROVE Posted' = Posted /\ Fresh' = Fresh /\ (Clearing' <=> Clearing)
BY DEF Posted, Fresh, Clearing

\* What no "new chat" follows is in the mail.
LEMMA FreshIsPosted == Fresh \subseteq Posted
BY DEF Fresh, Posted

\* A letter that is sent: a message, or another click.
LEMMA LetterAdded ==
  ASSUME mail \in Seq(Letters), NEW letter \in Letters, mail' = Append(mail, letter)
  PROVE  /\ Posted' = Posted \cup (IF letter.kind = "send" THEN {letter.message} ELSE {})
         /\ letter.kind # "newChat" => Fresh \subseteq Fresh'
         /\ letter.kind = "send" => letter.message \in Fresh'
<1> DEFINE n == Len(mail)
<1>1. n \in Nat /\ DOMAIN mail = 1..n /\ DOMAIN mail' = 1..(n + 1)
  OBVIOUS
<1>2. (\A i \in 1..n : mail'[i] = mail[i]) /\ mail'[n + 1] = letter
  OBVIOUS
<1> HIDE DEF n
<1>3. \A i \in 1..(n + 1) : i \in 1..n \/ i = n + 1
  BY <1>1
<1>4. \A i \in 1..n : i \in 1..(n + 1) /\ n + 1 > i
  BY <1>1
<1>5. n + 1 \in 1..(n + 1) /\ \A k \in 1..(n + 1) : ~(k > n + 1)
  BY <1>1
<1>6. Posted' = Posted \cup (IF letter.kind = "send" THEN {letter.message} ELSE {})
  BY <1>1, <1>2, <1>3, <1>4, <1>5 DEF Posted
<1>7. ASSUME letter.kind # "newChat" PROVE Fresh \subseteq Fresh'
  <2> SUFFICES ASSUME NEW j \in 1..n, mail[j].kind = "send", \A k \in 1..n : k > j => mail[k].kind # "newChat"
               PROVE  mail[j].message \in Fresh'
    BY <1>1 DEF Fresh
  <2>1. j \in 1..(n + 1) /\ mail'[j] = mail[j]
    BY <1>2, <1>4
  <2>2. \A k \in 1..(n + 1) : k > j => mail'[k].kind # "newChat"
    BY <1>2, <1>3, <1>7
  <2> QED
    BY <1>1, <2>1, <2>2 DEF Fresh
<1>8. ASSUME letter.kind = "send" PROVE letter.message \in Fresh'
  BY <1>1, <1>2, <1>5, <1>8 DEF Fresh
<1> QED
  BY <1>6, <1>7, <1>8

\* A letter that is taken.
LEMMA LetterTaken ==
  ASSUME mail \in Seq(Letters), NEW h \in Handlers, NEW kind, Takes(h, kind)
  PROVE  /\ Posted' \subseteq Posted
         /\ Posted \subseteq Posted' \cup (IF kind = "send" THEN {Head(mail).message} ELSE {})
         /\ kind = "send" => Head(mail).message \in Posted
         /\ Clearing => Fresh \subseteq Fresh'
<1> DEFINE n == Len(mail)
<1>1. mail # <<>> /\ Head(mail).kind = kind /\ mail' = Tail(mail)
  BY DEF Takes
<1>2. n \in Nat \ {0} /\ DOMAIN mail = 1..n /\ Head(mail) = mail[1]
  BY <1>1
<1>3. DOMAIN mail' = 1..(n - 1) /\ \A i \in 1..(n - 1) : mail'[i] = mail[i + 1]
  BY <1>1, <1>2
<1> HIDE DEF n
<1>4. \A i \in 1..(n - 1) : i + 1 \in 1..n
  BY <1>2
<1>5. \A i \in 1..n : i = 1 \/ (i - 1 \in 1..(n - 1) /\ (i - 1) + 1 = i)
  BY <1>2
<1>6. Posted' \subseteq Posted
  BY <1>2, <1>3, <1>4 DEF Posted
<1>7. 1 \in 1..n
  BY <1>2
<1>8. kind = "send" => Head(mail).message \in Posted
  BY <1>1, <1>2, <1>7 DEF Posted
<1>9. Posted \subseteq Posted' \cup (IF kind = "send" THEN {Head(mail).message} ELSE {})
  <2> SUFFICES ASSUME NEW j \in 1..n, mail[j].kind = "send"
               PROVE  mail[j].message \in Posted' \cup (IF kind = "send" THEN {Head(mail).message} ELSE {})
    BY <1>2 DEF Posted
  <2>1. CASE j = 1
    BY <1>1, <1>2, <2>1
  <2>2. CASE j # 1
    <3>1. j - 1 \in 1..(n - 1) /\ mail'[j - 1] = mail[j]
      BY <1>3, <1>5, <2>2
    <3> QED
      BY <1>3, <3>1 DEF Posted
  <2> QED
    BY <2>1, <2>2
<1>10. ASSUME Clearing PROVE Fresh \subseteq Fresh'
  <2> SUFFICES ASSUME NEW j \in 1..n, mail[j].kind = "send", \A k \in 1..n : k > j => mail[k].kind # "newChat"
               PROVE  mail[j].message \in Fresh'
    BY <1>2 DEF Fresh
  <2>1. PICK c \in 1..n : mail[c].kind = "newChat"
    BY <1>2, <1>10 DEF Clearing
  <2>2. j # 1
    BY <1>2, <2>1
  <2>3. j - 1 \in 1..(n - 1) /\ mail'[j - 1] = mail[j]
    BY <1>3, <1>5, <2>2
  <2>4. ASSUME NEW k \in 1..(n - 1), k > j - 1 PROVE mail'[k].kind # "newChat"
    <3>1. k + 1 \in 1..n /\ k + 1 > j /\ mail'[k] = mail[k + 1]
      BY <1>2, <1>3, <1>4, <2>4
    <3> QED
      BY <3>1
  <2> QED
    BY <1>3, <2>3, <2>4 DEF Fresh
<1> QED
  BY <1>6, <1>8, <1>9, <1>10

\* Handlers that wait with the messages they waited with.
LEMMA WaitingKept ==
  ASSUME \A g \in Handlers : /\ Waits(g)' <=> Waits(g)
                             /\ Waits(g) => handler'[g].message = handler[g].message
  PROVE  Waiting' = Waiting
BY DEF Waiting

\* One handler at most gives its message up.
LEMMA WaitingLess ==
  ASSUME NEW h \in Handlers, \A g \in Handlers \ {h} : handler'[g] = handler[g], ~Waits(h)'
  PROVE  /\ Waiting' \subseteq Waiting
         /\ Waiting \subseteq Waiting' \cup {handler[h].message}
         /\ ~Waits(h) => Waiting' = Waiting
<1>1. \A g \in Handlers \ {h} : Waits(g)' <=> Waits(g)
  BY DEF Waits
<1> QED
  BY <1>1 DEF Waiting

\* A push of a handler that has no message, or none any more.
LEMMA PushedAway ==
  ASSUME ChatTypeOK, NEW h \in Handlers, NEW o \in HandlerStates, Pushes(h, o), o.kind # "send"
  PROVE  /\ Waiting' \subseteq Waiting
         /\ Waiting \subseteq Waiting' \cup {handler[h].message}
         /\ ~Waits(h) => Waiting' = Waiting
<1>1. handler'[h].kind # "send" /\ \A g \in Handlers \ {h} : handler'[g] = handler[g]
  BY PushedHandlers
<1>2. ~Waits(h)'
  BY <1>1 DEF Waits
<1> QED
  BY <1>1, <1>2, WaitingLess

\* A step that records and draws no message, and loses none but those it turns away.
LEMMA StepKeepsSaid ==
  ASSUME SaidInv, panel' = panel, view'.said = view.said, said' = said, redrawn' = redrawn,
         refused \subseteq refused', strayed => strayed', Clearing' <=> Clearing, Clearing => Fresh \subseteq Fresh',
         OnTheWay' \subseteq OnTheWay, OnTheWay \subseteq OnTheWay' \cup refused'
  PROVE  SaidInv'
BY DEF SaidInv

(* controller.ts:84 and agentHost.ts:1066-1069: the window shows the       *)
(* record, events and messages, unless the host left the conversation      *)
(* without a word to the view; a message may be missing that was on its    *)
(* way when the view was drawn anew, and one that was turned away is there *)
(* and not recorded.                                                       *)
THEOREM ScreenIsTrue == ChatSpec => []ScreenIsTheRecordUnlessStrayed
<1>1. ChatInit => SaidInv
  BY DEF ChatInit, SaidInv
<1>2. ChatTypeOK /\ FilesInv /\ SaidInv /\ [ChatNext]_chatVars => SaidInv'
  <2> SUFFICES ASSUME ChatTypeOK, FilesInv, SaidInv, [ChatNext]_chatVars PROVE SaidInv'
    OBVIOUS
  <2>1. /\ view \in Screens /\ mail \in Seq(Letters) /\ transcript \in Seq(0..MaxEvents)
        /\ said \in SUBSET Messages /\ handler \in [Handlers -> HandlerStates]
        /\ Idle \in HandlerStates /\ Idle.stage = "idle" /\ Idle.kind # "send"
    BY IdleIsOne DEF ChatTypeOK, Idle
  <2>2. ASSUME NEW kind \in Clicks, NEW file \in Attachments \cup {NoOne}, Click(kind, file) PROVE SaidInv'
    <3>1. PICK letter \in Letters : /\ letter.kind = kind /\ mail' = Append(mail, letter)
                                    /\ kind = "send" => letter.message = sent + 1
      BY <2>2, LetterSent
    <3>2. /\ Posted' = Posted \cup (IF kind = "send" THEN {sent + 1} ELSE {})
          /\ kind # "newChat" => Fresh \subseteq Fresh'
          /\ kind = "send" => sent + 1 \in Fresh'
      <4>1. letter \in Letters /\ mail \in Seq(Letters) /\ mail' = Append(mail, letter)
        BY <2>1, <3>1
      <4>2. /\ Posted' = Posted \cup (IF letter.kind = "send" THEN {letter.message} ELSE {})
            /\ letter.kind # "newChat" => Fresh \subseteq Fresh'
            /\ letter.kind = "send" => letter.message \in Fresh'
        BY <4>1, LetterAdded
      <4> QED
        BY <3>1, <4>2
    <3>3. Clearing' <=> Clearing \/ kind = "newChat"
      <4>1. letter \in Letters /\ mail \in Seq(Letters) /\ mail' = Append(mail, letter)
        BY <2>1, <3>1
      <4>2. Clearing' <=> Clearing \/ letter.kind = "newChat"
        BY <4>1, ClearingSent
      <4> QED
        BY <3>1, <4>2
    <3>4. handler' = handler /\ said' = said /\ panel' = panel
      BY <2>2 DEF Click, chatHost
    <3>5. Waiting' = Waiting
      BY <3>4, WaitingKept DEF Waits
    <3>6. CASE kind = "newChat"
      <4>1. view' = [view EXCEPT !.drawn = <<>>, !.said = {}] /\ redrawn' = OnTheWay
        BY <2>2, <3>6 DEF Click, Redraws
      <4>2. view'.said = {}
        BY <2>1, <4>1 DEF Screens
      <4>3. OnTheWay' = OnTheWay
        BY <3>2, <3>5, <3>6 DEF OnTheWay
      <4> QED
        BY <3>3, <3>6, <4>1, <4>2, <4>3 DEF SaidInv
    <3>7. CASE kind # "newChat"
      <4>1. view'.said = view.said \cup (IF kind = "send" THEN {sent + 1} ELSE {})
        BY <2>2, <3>7, ViewClicked
      <4>2. strayed' = strayed /\ redrawn' = redrawn /\ refused' = refused
        BY <2>2, <3>7 DEF Click, redraw
      <4>3. OnTheWay' = OnTheWay \cup (IF kind = "send" THEN {sent + 1} ELSE {})
        BY <3>2, <3>5 DEF OnTheWay
      <4> QED
        BY <3>2, <3>3, <3>4, <3>7, <4>1, <4>2, <4>3 DEF SaidInv
    <3> QED
      BY <3>6, <3>7
  <2>3. CASE Close
    BY <2>3 DEF Close, SaidInv
  <2>4. ASSUME NEW h \in Handlers, OpenView(h) PROVE SaidInv'
    <3>1. At(h, "idle") /\ handler' = [handler EXCEPT ![h] = [Idle EXCEPT !.kind = "open", !.stage = "asking"]]
          /\ said' = said
      BY <2>4 DEF OpenView, chatHost
    <3>2. handler'[h].stage = "asking" /\ \A g \in Handlers \ {h} : handler'[g] = handler[g]
      BY <2>1, <3>1 DEF Idle
    <3>3. Waiting' = Waiting
      BY <3>1, <3>2, WaitingLess DEF At, Waits
    <3>4. CASE panel = 0
      <4>1. view' = [Blank EXCEPT !.drawn = transcript, !.said = said] /\ redrawn' = OnTheWay
            /\ mail' = <<[kind |-> "push", file |-> NoOne, message |-> 0]>>
        BY <2>4, <3>4 DEF OpenView, Redraws
      <4>2. view'.said = said'
        BY <2>1, <3>1, <4>1, BlankIsScreen DEF Screens
      <4>3. Posted' = {} /\ ~Clearing'
        BY <4>1 DEF Posted, Clearing
      <4>4. OnTheWay' \subseteq OnTheWay
        BY <3>3, <4>3 DEF OnTheWay
      <4> QED
        BY <4>1, <4>2, <4>3, <4>4 DEF SaidInv
    <3>5. CASE panel # 0
      <4>1. panel' = panel /\ mail' = mail
        BY <2>4, <3>5 DEF OpenView
      <4>2. OnTheWay' = OnTheWay /\ (Clearing' <=> Clearing) /\ Fresh' = Fresh
        BY <3>3, <4>1, MailKept DEF OnTheWay
      <4>3. CASE transcript = <<>> /\ said = {}
        <5>1. view' = view /\ strayed' = strayed /\ redrawn' = redrawn /\ refused' = refused
          BY <2>4, <3>5, <4>3 DEF OpenView, redraw
        <5> QED
          BY <3>1, <4>1, <4>2, <5>1, StepKeepsSaid
      <4>4. CASE ~(transcript = <<>> /\ said = {})
        <5>1. view' = [view EXCEPT !.drawn = transcript, !.said = said] /\ strayed' = Clearing /\ redrawn' = OnTheWay
          BY <2>4, <3>5, <4>4 DEF OpenView, Redraws
        <5>2. view'.said = said'
          BY <2>1, <3>1, <5>1 DEF Screens
        <5> QED
          BY <4>2, <5>1, <5>2 DEF SaidInv
      <4> QED
        BY <4>3, <4>4
    <3> QED
      BY <3>4, <3>5
  <2>5. ASSUME NEW h \in Handlers, NEW kind, Takes(h, kind) PROVE ~Waits(h)
    BY <2>5 DEF Takes, At, Waits
  <2>6. ASSUME NEW h \in Handlers, NEW kind, Takes(h, kind), kind \notin {"send", "newChat"}, Waiting' = Waiting
        PROVE  OnTheWay' = OnTheWay /\ (Clearing' <=> Clearing) /\ (Clearing => Fresh \subseteq Fresh')
    BY <2>1, <2>6, LetterTaken, ClearingTaken DEF OnTheWay
  <2>7. ASSUME mail' = mail, Waiting' = Waiting
        PROVE  OnTheWay' = OnTheWay /\ (Clearing' <=> Clearing) /\ Fresh' = Fresh
    BY <2>7, MailKept DEF OnTheWay
  <2>8. ASSUME NEW h \in Handlers, Handles(h) PROVE SaidInv'
    <3>1. CASE Accept(h)
      <4> DEFINE m == Head(mail).message
                 o == [Idle EXCEPT !.kind = "send", !.files = staged, !.message = m]
      <4>1. Takes(h, "send") /\ Pushes(h, o) /\ ~Waits(h)
        BY <3>1, <2>5 DEF Accept
      <4>2. o \in HandlerStates /\ o.kind = "send" /\ o.message = m
        <5>1. m \in Messages /\ staged \in SUBSET Attachments
          BY <4>1, HeadIsLetter DEF ChatTypeOK
        <5> QED
          BY <5>1, SendIsState
      <4> HIDE DEF o
      <4>3. /\ \A g \in Handlers \ {h} : handler'[g] = handler[g]
            /\ handler'[h].kind = "send" /\ handler'[h].stage \in {"drawing", "starting"} /\ handler'[h].message = m
        BY <4>1, <4>2, PushedHandlers
      <4>4. Waits(h)' /\ \A g \in Handlers \ {h} : Waits(g)' <=> Waits(g)
        BY <4>3 DEF Waits
      <4>5. Waiting' = Waiting \cup {m}
        BY <4>1, <4>3, <4>4 DEF Waiting
      <4>6. /\ Posted' \subseteq Posted /\ Posted \subseteq Posted' \cup {m} /\ m \in Posted
            /\ (Clearing => Fresh \subseteq Fresh') /\ (Clearing' <=> Clearing)
        BY <2>1, <4>1, LetterTaken, ClearingTaken
      <4>7. OnTheWay' = OnTheWay
        BY <4>5, <4>6 DEF OnTheWay
      <4>8. /\ panel' = panel /\ view' = view /\ said' = said /\ strayed' = strayed
            /\ redrawn' = redrawn /\ refused' = refused
        BY <3>1 DEF Accept, chatHost, redraw
      <4> QED
        BY <4>6, <4>7, <4>8, StepKeepsSaid
    <3>2. CASE TurnAway(h)
      <4> DEFINE m == Head(mail).message
      <4>1. Takes(h, "send") /\ Pushes(h, Idle) /\ ~Waits(h)
        BY <3>2, <2>5 DEF TurnAway
      <4>2. Waiting' = Waiting
        BY <2>1, <4>1, PushedAway
      <4>3. /\ Posted' \subseteq Posted /\ Posted \subseteq Posted' \cup {m}
            /\ (Clearing => Fresh \subseteq Fresh') /\ (Clearing' <=> Clearing)
        BY <2>1, <4>1, LetterTaken, ClearingTaken
      <4>4. /\ panel' = panel /\ view' = view /\ said' = said /\ strayed' = strayed
            /\ redrawn' = redrawn /\ refused' = refused \cup {m}
        BY <3>2 DEF TurnAway, chatHost
      <4>5. OnTheWay' \subseteq OnTheWay /\ OnTheWay \subseteq OnTheWay' \cup refused'
        BY <4>2, <4>3, <4>4 DEF OnTheWay
      <4> QED
        BY <4>3, <4>4, <4>5, StepKeepsSaid
    <3>3. CASE TakeOff(h)
      <4>1. Takes(h, "remove") /\ Pushes(h, Idle) /\ ~Waits(h)
        BY <3>3, <2>5 DEF TakeOff
      <4>2. Waiting' = Waiting
        BY <2>1, <4>1, PushedAway
      <4>3. OnTheWay' = OnTheWay /\ (Clearing' <=> Clearing) /\ (Clearing => Fresh \subseteq Fresh')
        BY <2>6, <4>1, <4>2
      <4>4. /\ panel' = panel /\ view' = view /\ said' = said /\ strayed' = strayed
            /\ redrawn' = redrawn /\ refused' = refused
        BY <3>3 DEF TakeOff, chatHost, redraw
      <4> QED
        BY <4>3, <4>4, StepKeepsSaid
    <3>4. CASE NewChat(h)
      <4>1. Takes(h, "newChat") /\ Pushes(h, Idle) /\ ~Waits(h) /\ Clearing
        BY <2>1, <3>4, <2>5, ClearingTaken DEF NewChat
      <4>2. Waiting' = Waiting
        BY <2>1, <4>1, PushedAway
      <4>3. Posted' = Posted /\ Fresh \subseteq Fresh'
        <5>1. /\ Posted' \subseteq Posted /\ (Clearing => Fresh \subseteq Fresh')
              /\ Posted \subseteq Posted' \cup (IF "newChat" = "send" THEN {Head(mail).message} ELSE {})
          BY <2>1, <4>1, LetterTaken
        <5> QED
          BY <4>1, <5>1
      <4>4. OnTheWay' = OnTheWay /\ Fresh' \subseteq OnTheWay'
        <5>1. (Fresh \subseteq Posted)'
          BY FreshIsPosted, PTL
        <5> QED
          BY <4>2, <4>3, <5>1 DEF OnTheWay
      <4>5. /\ panel' = panel /\ view' = view /\ said' = {} /\ strayed' = strayed
            /\ redrawn' = redrawn /\ refused' = refused
        BY <3>4 DEF NewChat, chatHistory, redraw
      <4> QED
        BY <4>1, <4>3, <4>4, <4>5 DEF SaidInv
    <3>5. CASE Asks(h)
      <4>1. PICK kind \in {"push", "attach", "openConversation", "delete", "rekey"} :
                /\ Takes(h, kind)
                /\ handler' = [handler EXCEPT ![h] = [Idle EXCEPT !.kind = kind, !.stage = "asking"]]
        BY <3>5 DEF Asks
      <4>2. handler'[h].stage = "asking" /\ \A g \in Handlers \ {h} : handler'[g] = handler[g]
        BY <2>1, <4>1 DEF Idle
      <4>3. Waiting' = Waiting
        BY <2>5, <4>1, <4>2, WaitingLess DEF Waits
      <4>4. OnTheWay' = OnTheWay /\ (Clearing' <=> Clearing) /\ (Clearing => Fresh \subseteq Fresh')
        BY <2>6, <4>1, <4>3
      <4>5. /\ panel' = panel /\ view' = view /\ said' = said /\ strayed' = strayed
            /\ redrawn' = redrawn /\ refused' = refused
        BY <3>5 DEF Asks, chatHost, chatHistory, redraw
      <4> QED
        BY <4>4, <4>5, StepKeepsSaid
    <3>6. CASE Draw(h)
      <4>1. /\ handler[h].stage = "drawing" /\ handler'[h].stage = "drawn" /\ handler'[h].kind = handler[h].kind
            /\ handler'[h].message = handler[h].message /\ \A g \in Handlers \ {h} : handler'[g] = handler[g]
        BY <2>1, <3>6 DEF Draw, At, HandlerStates
      <4>2. Waiting' = Waiting
        BY <4>1, WaitingKept DEF Waits
      <4>3. /\ panel' = panel /\ view' = view /\ mail' = mail /\ said' = said /\ strayed' = strayed
            /\ redrawn' = redrawn /\ refused' = refused
        BY <3>6 DEF Draw, chatHost, window, chatHistory, redraw
      <4> QED
        BY <2>7, <4>2, <4>3, StepKeepsSaid
    <3>7. CASE Post(h)
      <4>1. PICK next \in After(handler[h]) : handler' = [handler EXCEPT ![h] = next]
        BY <3>7 DEF Post
      <4>2. /\ next.stage \in {"idle", "asking", "starting"}
            /\ handler[h].kind # "send" => next.kind # "send"
            /\ handler[h].kind = "send" => next.kind = "send" /\ next.stage = "starting" /\ next.message = handler[h].message
        <5>1. handler[h] \in HandlerStates
          BY <2>1
        <5>2. /\ next.stage \in {"idle", "asking", "starting"}
              /\ handler[h].kind # "send" => next.kind # "send"
              /\ handler[h].kind = "send" => next = [handler[h] EXCEPT !.stage = "starting", !.seen = {}]
          BY <4>1, <5>1, AfterIsState
        <5> QED
          BY <5>1, <5>2 DEF HandlerStates
      <4>3. handler'[h] = next /\ handler[h].stage = "drawn" /\ \A g \in Handlers \ {h} : handler'[g] = handler[g]
        BY <2>1, <3>7, <4>1 DEF Post, At
      <4>4. Waiting' = Waiting
        BY <4>2, <4>3, WaitingKept DEF Waits
      <4>5. view'.said = view.said
        <5>1. handler[h].seen \in SUBSET Attachments
          BY <2>1 DEF HandlerStates
        <5>2. view' = view \/ view' = [view EXCEPT !.busy = running # NoOne, !.files = handler[h].seen]
          BY <3>7 DEF Post
        <5> QED
          BY <2>1, <5>2 DEF Screens
      <4>6. /\ panel' = panel /\ mail' = mail /\ said' = said /\ strayed' = strayed
            /\ redrawn' = redrawn /\ refused' = refused
        BY <3>7 DEF Post, chatHost, chatHistory, redraw
      <4> QED
        BY <2>7, <4>4, <4>5, <4>6, StepKeepsSaid
    <3>8. CASE Asked(h) \/ Attached(h)
      <4>1. PICK o \in HandlerStates : o.kind # "send" /\ Pushes(h, o) /\ ~Waits(h)
        <5>1. CASE Asked(h)
          <6>1. handler[h] \in HandlerStates /\ handler[h].kind # "send" /\ ~Waits(h) /\ Pushes(h, handler[h])
            BY <2>1, <5>1 DEF Asked, Waits
          <6> QED
            BY <6>1
        <5>2. CASE Attached(h)
          BY <2>1, <5>2 DEF Attached, Waits
        <5> QED
          BY <3>8, <5>1, <5>2
      <4>2. Waiting' = Waiting
        BY <4>1, PushedAway
      <4>3. /\ panel' = panel /\ view' = view /\ mail' = mail /\ said' = said /\ strayed' = strayed
            /\ redrawn' = redrawn /\ refused' = refused
        BY <3>8 DEF Asked, Attached, chatHost, window, chatHistory, redraw
      <4> QED
        BY <2>7, <4>2, <4>3, StepKeepsSaid
    <3>9. CASE Attach(h)
      <4>1. Waiting' = Waiting
        BY <3>9, WaitingKept DEF Attach, Waits
      <4>2. /\ panel' = panel /\ view' = view /\ mail' = mail /\ said' = said /\ strayed' = strayed
            /\ redrawn' = redrawn /\ refused' = refused
        BY <3>9 DEF Attach, chatHost, window, redraw
      <4> QED
        BY <2>7, <4>1, <4>2, StepKeepsSaid
    <3>10. CASE Nothing(h)
      <4>1. handler'[h].stage = "idle" /\ handler[h].stage = "asking" /\ \A g \in Handlers \ {h} : handler'[g] = handler[g]
        BY <2>1, <3>10 DEF Nothing, At
      <4>2. Waiting' = Waiting
        BY <4>1, WaitingLess DEF Waits
      <4>3. /\ panel' = panel /\ view' = view /\ mail' = mail /\ said' = said /\ strayed' = strayed
            /\ redrawn' = redrawn /\ refused' = refused
        BY <3>10 DEF Nothing, chatHost, window, chatHistory, redraw
      <4> QED
        BY <2>7, <4>2, <4>3, StepKeepsSaid
    <3>11. CASE ShowStored(h)
      <4>1. Pushes(h, Idle) /\ ~Waits(h) /\ mail' = mail /\ panel' = panel /\ said' = {}
            /\ strayed' = Clearing /\ redrawn' = OnTheWay
        BY <3>11 DEF ShowStored, Redraws, Waits
      <4>2. Waiting' = Waiting
        BY <2>1, <4>1, PushedAway
      <4>3. panel # 0 => view'.said = {}
        <5>1. panel # 0 => view' = [view EXCEPT !.drawn = FromHistory, !.said = {}]
          BY <3>11 DEF ShowStored
        <5> QED
          BY <2>1, <5>1 DEF Screens
      <4> QED
        BY <2>7, <4>1, <4>2, <4>3 DEF SaidInv
    <3>12. CASE Abandoned(h)
      <4>1. /\ Pushes(h, Idle) /\ ~Waits(h) /\ mail' = mail /\ panel' = panel /\ view' = view
            /\ strayed' = TRUE /\ redrawn' = redrawn
        BY <3>12 DEF Abandoned, window, redraw, Waits
      <4>2. Waiting' = Waiting
        BY <2>1, <4>1, PushedAway
      <4> QED
        BY <2>7, <4>1, <4>2 DEF SaidInv
    <3>13. CASE Start(h)
      <4> DEFINE m == handler[h].message
      <4>1. Waits(h) /\ m \in OnTheWay
        <5>1. Waits(h)
          BY <3>13 DEF Start, At, Waits, FilesInv, WaitInv
        <5> QED
          BY <5>1 DEF OnTheWay, Waiting
      <4>2. panel' = panel /\ view' = view /\ mail' = mail /\ strayed' = strayed /\ redrawn' = redrawn
        BY <3>13 DEF Start, window
      <4>3. Posted' = Posted /\ (Clearing' <=> Clearing) /\ Fresh' = Fresh
        BY <4>2, MailKept
      <4>4. CASE running = NoOne
        <5>1. /\ handler' = [handler EXCEPT ![h] = [Idle EXCEPT !.kind = "send", !.stage = "running"]]
              /\ said' = said \cup {m} /\ refused' = refused
          BY <3>13, <4>4 DEF Start
        <5>2. handler'[h].stage = "running" /\ \A g \in Handlers \ {h} : handler'[g] = handler[g]
          BY <2>1, <5>1 DEF Idle
        <5>3. Waiting' \subseteq Waiting /\ Waiting \subseteq Waiting' \cup {m}
          BY <5>2, WaitingLess DEF Waits
        <5>4. OnTheWay' \subseteq OnTheWay /\ OnTheWay \subseteq OnTheWay' \cup {m}
          BY <4>3, <5>3 DEF OnTheWay
        <5> QED
          BY <4>1, <4>2, <4>3, <5>1, <5>4 DEF SaidInv
      <4>5. CASE running # NoOne
        <5>1. Pushes(h, Idle) /\ said' = said /\ refused' = refused \cup {m}
          BY <3>13, <4>5 DEF Start
        <5>2. Waiting' \subseteq Waiting /\ Waiting \subseteq Waiting' \cup {m}
          BY <2>1, <5>1, PushedAway
        <5>3. OnTheWay' \subseteq OnTheWay /\ OnTheWay \subseteq OnTheWay' \cup refused'
          BY <4>3, <5>1, <5>2 DEF OnTheWay
        <5> QED
          BY <4>2, <4>3, <5>1, <5>3, StepKeepsSaid
      <4> QED
        BY <4>4, <4>5
    <3>14. CASE Event(h)
      <4>1. view'.said = view.said
        <5>1. view' = view \/ view' = [view EXCEPT !.drawn = Append(view.drawn, happened')]
          BY <3>14 DEF Event
        <5> QED
          BY <2>1, <5>1 DEF Screens
      <4>2. Waiting' = Waiting
        BY <3>14, WaitingKept DEF Event, Waits
      <4>3. /\ panel' = panel /\ mail' = mail /\ said' = said /\ strayed' = (strayed \/ Clearing)
            /\ redrawn' = redrawn /\ refused' = refused
        BY <3>14 DEF Event, redraw
      <4> QED
        BY <2>7, <4>1, <4>2, <4>3, StepKeepsSaid
    <3>15. CASE End(h)
      <4>1. handler'[h].stage = "saving" /\ handler[h].stage = "running" /\ \A g \in Handlers \ {h} : handler'[g] = handler[g]
        BY <2>1, <3>15 DEF End, HandlerStates, At
      <4>2. Waiting' = Waiting
        BY <4>1, WaitingLess DEF Waits
      <4>3. /\ panel' = panel /\ view' = view /\ mail' = mail /\ said' = said /\ strayed' = strayed
            /\ redrawn' = redrawn /\ refused' = refused
        BY <3>15 DEF End, window, chatHistory, redraw
      <4> QED
        BY <2>7, <4>2, <4>3, StepKeepsSaid
    <3>16. CASE Saved(h)
      <4>1. ~Waits(h) /\ panel' = panel /\ view' = view /\ mail' = mail /\ said' = said /\ strayed' = strayed
            /\ redrawn' = redrawn /\ refused' = refused
        BY <3>16 DEF Saved, At, Waits, chatHost, window, redraw
      <4>2. Waiting' = Waiting
        <5>1. CASE Pushes(h, Idle)
          BY <2>1, <4>1, <5>1, PushedAway
        <5>2. CASE handler' = [handler EXCEPT ![h] = Idle]
          <6>1. handler'[h].stage = "idle" /\ \A g \in Handlers \ {h} : handler'[g] = handler[g]
            BY <2>1, <5>2
          <6> QED
            BY <4>1, <6>1, WaitingLess DEF Waits
        <5> QED
          BY <3>16, <5>1, <5>2 DEF Saved
      <4> QED
        BY <2>7, <4>1, <4>2, StepKeepsSaid
    <3> QED
      BY <2>8, <3>1, <3>2, <3>3, <3>4, <3>5, <3>6, <3>7, <3>8, <3>9, <3>10, <3>11, <3>12,
         <3>13, <3>14, <3>15, <3>16 DEF Handles
  <2>9. CASE UNCHANGED chatVars
    <3>1. /\ panel' = panel /\ view' = view /\ mail' = mail /\ said' = said /\ strayed' = strayed
          /\ redrawn' = redrawn /\ refused' = refused /\ handler' = handler
      BY <2>9 DEF chatVars, chatHost, window, chatHistory, redraw
    <3>2. Waiting' = Waiting
      BY <3>1, WaitingKept DEF Waits
    <3> QED
      BY <2>7, <3>1, <3>2, StepKeepsSaid
  <2> QED
    BY <2>2, <2>3, <2>4, <2>8, <2>9 DEF ChatNext
<1>3. ScreenInv /\ SaidInv => ScreenIsTheRecordUnlessStrayed
  BY DEF ScreenInv, SaidInv, ScreenIsTheRecordUnlessStrayed
<1> QED
  BY <1>1, <1>2, <1>3, ChatTypeCorrect, FilesKept, EventsAreDrawn, PTL DEF ChatSpec
===============================================================================
