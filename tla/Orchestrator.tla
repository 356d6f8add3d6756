---------------------------- MODULE Orchestrator ----------------------------
(***************************************************************************)
(* The orchestrator process as the extension host owns it (orchestrator.ts *)
(* and the key commands of extension.ts).  Commands of the arena each call *)
(* ensureStarted, which picks a port, spawns a process under the stored    *)
(* key and polls its health, with nothing to keep two of them apart.       *)
(* Processes die by themselves; the user stores and deletes keys, from the *)
(* arena, which disposes of the orchestrator, and from the chat, which     *)
(* shares the secret and does not.                                         *)
(*                                                                         *)
(* An Orchestrator object is a number, and so is a process, whose port and *)
(* token it stands for.  The setting of an external address is left out.   *)
(***************************************************************************)
EXTENDS Integers, FiniteSets

CONSTANTS
    Ops,         \* commands that may be under way at once
    MaxKeys,     \* bound: keys ever stored
    MaxProcs     \* bound: processes ever spawned

ASSUME OrchestratorAssumption == MaxKeys \in Nat \ {0} /\ MaxProcs \in Nat \ {0}

VARIABLES
    key,         \* the secret: 0 when there is none
    keys,        \* keys ever stored
    current,     \* extension.ts orchestrator: an object, or 0
    made,        \* objects ever made
    object,      \* [child, url] of every object: its process, and the one it talks to
    proc,        \* [key, life, by] of every process: by is the object that spawned it
    spawned,     \* processes ever spawned
    op,          \* commands: [stage, of, key]: key until it is used
    \* History.
    spawnedOver,  \* a process was spawned over another, or for an object let go
    fromChat     \* the secret was changed from the chat

secrets == <<key, keys, fromChat>>
objects == <<current, made, object>>
processes == <<proc, spawned, spawnedOver>>
orchestrator == <<secrets, objects, processes, op>>

Objects == 1..(2 * MaxKeys + 1)
Procs == 1..MaxProcs
Lives == {"none", "booting", "up", "killed", "dead"}
Stages == {"free", "port", "health", "asking"}

NoObject == [child |-> 0, url |-> 0]
Dead == [key |-> 0, life |-> "dead", by |-> 0]
Free == [stage |-> "free", of |-> 0, key |-> 0]

OrchestratorTypeOK ==
    /\ key \in 0..MaxKeys /\ keys \in 0..MaxKeys
    /\ current \in {0} \cup Objects /\ made \in {0} \cup Objects
    /\ object \in [Objects -> [child : 0..MaxProcs, url : 0..MaxProcs]]
    /\ \A i \in Objects : object[i].child = 0 => object[i].url = 0
    /\ proc \in [Procs -> [key : 0..MaxKeys, life : Lives, by : {0} \cup Objects]]
    /\ spawned \in 0..MaxProcs
    /\ op \in [Ops -> [stage : Stages, of : {0} \cup Objects, key : 0..MaxKeys]]
    /\ spawnedOver \in BOOLEAN /\ fromChat \in BOOLEAN

OrchestratorInit ==
    /\ key = 0 /\ keys = 0 /\ current = 0 /\ made = 0
    /\ object = [i \in Objects |-> NoObject]
    /\ proc = [p \in Procs |-> [key |-> 0, life |-> "none", by |-> 0]] /\ spawned = 0
    /\ op = [o \in Ops |-> Free]
    /\ spawnedOver = FALSE /\ fromChat = FALSE

Alive(p) == proc[p].life \in {"booting", "up"}

\* ensureOrchestrator(): the object in use, or a new one.
Ensured == IF current # 0 THEN current ELSE made + 1
Ensure ==
    /\ current' = Ensured
    /\ made' = IF current # 0 THEN made ELSE made + 1
    /\ UNCHANGED object

\* What an object can be asked: the process it believes in answers.
Answering(i) == object[i].url # 0 /\ proc[object[i].url].life \in {"up", "killed"}
-----------------------------------------------------------------------------
(* A command: ensureStarted, then its request. *)

\* An address is enough to go on, whether or not its process is healthy.
Call(o) ==
    /\ op[o].stage = "free" /\ key # 0
    /\ Ensure
    /\ op' = [op EXCEPT ![o] = [stage |-> IF object[Ensured].url # 0 THEN "asking" ELSE "port",
                                of |-> Ensured, key |-> IF object[Ensured].url # 0 THEN 0 ELSE key]]
    /\ UNCHANGED <<secrets, processes>>

\* freePort() is awaited; what happened to the object meanwhile is not looked at.
Spawn(o) ==
    /\ op[o].stage = "port" /\ spawned < MaxProcs
    /\ LET p == spawned + 1
       IN  /\ spawned' = p
           /\ proc' = [proc EXCEPT ![p] = [key |-> op[o].key, life |-> "booting", by |-> op[o].of]]
           /\ object' = [object EXCEPT ![op[o].of] = [child |-> p, url |-> p]]
    /\ spawnedOver' = (spawnedOver \/ object[op[o].of].child # 0 \/ op[o].of # current)
    /\ op' = [op EXCEPT ![o] = [stage |-> "health", of |-> op[o].of, key |-> 0]]
    /\ UNCHANGED <<secrets, current, made>>

Healthy(o) ==
    /\ op[o].stage = "health" /\ Answering(op[o].of)
    /\ op' = [op EXCEPT ![o].stage = "asking"]
    /\ UNCHANGED <<secrets, objects, processes>>

\* Twenty seconds: the address is forgotten, the process is not killed.
Unhealthy(o) ==
    /\ op[o].stage = "health" /\ ~Answering(op[o].of)
    /\ object' = [object EXCEPT ![op[o].of].url = 0]
    /\ op' = [op EXCEPT ![o] = Free]
    /\ UNCHANGED <<secrets, current, made, processes>>

\* The request is made, or there is no address any more; the command is over.
Done(o) ==
    /\ op[o].stage = "asking"
    /\ op' = [op EXCEPT ![o] = Free]
    /\ UNCHANGED <<secrets, objects, processes>>
-----------------------------------------------------------------------------
(* Processes. *)

Boot(p) ==
    /\ proc[p].life = "booting"
    /\ proc' = [proc EXCEPT ![p].life = "up"]
    /\ UNCHANGED <<secrets, objects, spawned, spawnedOver, op>>

(* A process ends, killed or not.  The handler empties the object that     *)
(* spawned it, whatever process that object has by now.                    *)
Exit(p) ==
    /\ proc[p].life \in {"booting", "up", "killed"}
    /\ proc' = [proc EXCEPT ![p] = Dead]
    /\ object' = [object EXCEPT ![proc[p].by] = NoObject]
    /\ UNCHANGED <<secrets, current, made, spawned, spawnedOver, op>>
-----------------------------------------------------------------------------
(* Keys. *)

\* Mutant of Dispose: the object is let go, its process is not told.
DisposeQuietly ==
    /\ object' = [i \in Objects |-> IF i = current THEN NoObject ELSE object[i]]
    /\ current' = 0
    /\ UNCHANGED <<made, proc, spawned, spawnedOver>>

\* dispose(), and the object is let go: only the process it has now is killed.
Dispose ==
    /\ object' = [i \in Objects |-> IF i = current THEN NoObject ELSE object[i]]
    /\ proc' = [p \in Procs |-> IF current # 0 /\ p = object[current].child /\ Alive(p)
                                THEN [proc[p] EXCEPT !.life = "killed"] ELSE proc[p]]
    /\ current' = 0
    /\ UNCHANGED <<made, spawned, spawnedOver>>

\* Mutant of StoreKey: what runs under the old key is left to run.
StoreKeyOnly ==
    /\ keys < MaxKeys
    /\ key' = keys + 1 /\ keys' = keys + 1
    /\ UNCHANGED <<fromChat, objects, processes, op>>

\* hasaArena.setApiKey.
StoreKey ==
    /\ keys < MaxKeys
    /\ key' = keys + 1 /\ keys' = keys + 1
    /\ Dispose
    /\ UNCHANGED <<fromChat, op>>

\* hasaArena.clearApiKey.
ClearKey ==
    /\ key # 0
    /\ key' = 0
    /\ Dispose
    /\ UNCHANGED <<keys, fromChat, op>>

\* hasa.setApiKey and hasa.clearApiKey: the same secret, another owner.
ChatChangesKey ==
    /\ \/ keys < MaxKeys /\ key' = keys + 1 /\ keys' = keys + 1
       \/ key # 0 /\ key' = 0 /\ UNCHANGED keys
    /\ fromChat' = TRUE
    /\ UNCHANGED <<objects, processes, op>>

Keys == StoreKey \/ ClearKey \/ ChatChangesKey
-----------------------------------------------------------------------------
(* Properties. *)

(* A living process is the one the object in use can kill, unless two      *)
(* commands started one each or an object was let go while a command was   *)
(* picking a port for it (orchestrator.ts:10 "Owns the orchestrator        *)
(* process"): the only two ways to lose one.                               *)
NoOrphanUnlessOverlapped ==
    spawnedOver \/ \A p \in Procs : Alive(p) => current # 0 /\ p = object[current].child

(* What runs, runs under the stored key, unless the chat changed it or a   *)
(* start overlapped: the arena's own commands tear down what holds the old *)
(* one (extension.ts:85-86).                                               *)
KeyInForceUnlessChat ==
    spawnedOver \/ fromChat \/ \A p \in Procs : Alive(p) => proc[p].key = key

(* An object that has an address has a process behind it, living or just   *)
(* killed: what is asked of a dead one fails once and is started again.    *)
AddressHasProcess ==
    spawnedOver \/ \A i \in Objects : object[i].url # 0 => proc[object[i].url].life # "dead"

=============================================================================
