---------------------------- MODULE Measurements ----------------------------
(***************************************************************************)
(* What is known of the models a key can reach: the capability cache of a  *)
(* provider (provider/hasa/hasaCapabilityProbe.ts) over its file           *)
(* (hasaLiveProbe.ts) and the probe suite (probe/runner.ts), as the host   *)
(* uses it (extension/agentHost.ts): turns choose a model and measure the  *)
(* candidates, the user asks for all models to be verified, the panel      *)
(* looks at the list, and the key changes under all of them.               *)
(*                                                                         *)
(* Every report is "told", also that of a probe which the budget or an     *)
(* outage stopped: the code makes no difference, and what was not asked is *)
(* unknown in it for ever.  The matrix and its absence are one map.  A     *)
(* provider is built with the key it keeps; the file carries the key of    *)
(* its last writer.  Listing models and the validation of a key are in     *)
(* Catalogue; the ranking of models is left out.                           *)
(***************************************************************************)
EXTENDS Naturals, FiniteSets

CONSTANTS
    Models,
    Ops,           \* operations of the host that may be under way at once
    MaxKeys,       \* bound: keys ever stored
    MaxProviders,  \* bound: providers ever built
    MaxVerifies,   \* bound: times a cache is invalidated
    MaxStarts,     \* bound: operations ever begun
    None

ASSUME BoundsAssumption ==
    /\ MaxKeys \in Nat /\ MaxProviders \in Nat /\ MaxVerifies \in Nat /\ MaxStarts \in Nat
    /\ None \notin Models

Kinds == {"choose", "verify"}
Reports == {"none", "told"}
Nobody == [m \in Models |-> "none"]
Providers == 1..MaxProviders
Generations == Nat

VARIABLES
    key,        \* the stored key, or 0
    keys,       \* keys ever stored
    provider,   \* this.provider, or 0
    choice,     \* the key autoChoice was made under, or 0
    cache,      \* [key, reports, loaded, generation, probing] of every provider
    built,      \* providers built
    loads,      \* loads under way: <<provider, generation>>
    file,       \* [key, reports]
    saves,      \* writes under way, by the operation that waits: [key, reports]
    op,         \* [kind, stage, got, of, todo, model, generation, found]
    started,    \* operations begun
    verifies,   \* verifications begun
    \* History.
    crossed     \* what was overtaken while it was under way: "key", "cache", "file"

host == <<key, keys, provider, choice>>
bounds == <<started, verifies>>
caches == <<cache, built, loads>>
vars == <<host, caches, file, saves, op, bounds, crossed>>

Stages == {"idle", "reading", "read", "holding", "next", "loading", "seen", "probing", "joined", "saving"}
Idle == [kind |-> "choose", stage |-> "idle", got |-> 0, of |-> 0, todo |-> {},
         model |-> None, generation |-> 0, found |-> "none"]
NoSave == [key |-> 0, reports |-> Nobody]

CacheStates == [key : 0..MaxKeys, reports : [Models -> Reports], loaded : BOOLEAN,
                generation : Generations, probing : SUBSET Models]
Contents == [key : 0..MaxKeys, reports : [Models -> Reports]]
OpStates == [kind : Kinds, stage : Stages, got : 0..MaxKeys, of : 0..MaxProviders, todo : SUBSET Models,
             model : Models \cup {None}, generation : Generations, found : Reports]

TypeOK ==
    /\ key \in 0..MaxKeys /\ keys \in 0..MaxKeys
    /\ provider \in 0..MaxProviders /\ built \in 0..MaxProviders /\ provider <= built
    /\ choice \in 0..MaxKeys
    /\ cache \in [Providers -> CacheStates]
    /\ loads \subseteq Providers \X Generations
    /\ file \in Contents /\ saves \in [Ops -> Contents]
    /\ op \in [Ops -> OpStates]
    /\ started \in 0..MaxStarts /\ verifies \in 0..MaxVerifies /\ crossed \subseteq {"key", "cache", "file"}

Init ==
    /\ key = 0 /\ keys = 0 /\ provider = 0 /\ choice = 0
    /\ cache = [p \in Providers |-> [key |-> 0, reports |-> Nobody, loaded |-> FALSE,
                                     generation |-> 0, probing |-> {}]]
    /\ built = 0 /\ loads = {}
    /\ file = [key |-> 0, reports |-> Nobody]
    /\ saves = [c \in Ops |-> NoSave]
    /\ op = [c \in Ops |-> Idle]
    /\ started = 0 /\ verifies = 0 /\ crossed = {}

At(c, stage) == op[c].stage = stage
Underway == {c \in Ops : ~At(c, "idle")}
Saving == {c \in Ops : At(c, "saving")}
Crossed(what, how) == IF how THEN crossed \cup {what} ELSE crossed
Becomes(c, stage) == op' = [op EXCEPT ![c].stage = stage, ![c].found = "none", ![c].generation = 0]
Goes(o) == [o EXCEPT !.stage = "next", !.model = None, !.found = "none", !.generation = 0]
-----------------------------------------------------------------------------
(* The key and the provider. *)

\* Mutant of Reset: the choice made under the old key stays.
ResetProvider == provider' = 0 /\ UNCHANGED choice

\* reset(): the fields of the host; what is under way is not told.
Reset == provider' = 0 /\ choice' = 0

\* promptForApiKey, clearApiKey.
Rekey ==
    /\ \/ keys < MaxKeys /\ keys' = keys + 1 /\ key' = keys + 1
       \/ key # 0 /\ key' = 0 /\ UNCHANGED keys
    /\ Reset
    /\ crossed' = Crossed("key", Underway # {})
    /\ UNCHANGED <<caches, file, saves, op, bounds>>

\* resolveModel and verifyModels begin with ensureProvider.
Begin(c) ==
    /\ At(c, "idle") /\ started < MaxStarts
    /\ provider = 0 => built + Cardinality(Underway) < MaxProviders  \* the bound leaves it its provider
    /\ started' = started + 1
    /\ \E kind \in Kinds :
           /\ kind = "verify" => verifies < MaxVerifies
           /\ kind = "choose" => choice = 0
           /\ verifies' = IF kind = "verify" THEN verifies + 1 ELSE verifies
           /\ op' = [op EXCEPT ![c] = [Idle EXCEPT !.kind = kind, !.todo = Models, !.of = provider,
                                                   !.stage = IF provider = 0 THEN "reading" ELSE "holding"]]
    /\ UNCHANGED <<host, caches, file, saves, crossed>>

\* The secret store answers; the answer is looked at later.
ReadKey(c) ==
    /\ At(c, "reading")
    /\ op' = [op EXCEPT ![c] = IF key = 0 THEN Idle ELSE [@ EXCEPT !.stage = "read", !.got = key]]
    /\ UNCHANGED <<host, caches, file, saves, bounds, crossed>>

(* ensureProvider goes on: with the key it got, whatever the host holds by *)
(* now.  A second provider for one key has a cache of its own.             *)
Build(c) ==
    /\ At(c, "read") /\ built < MaxProviders
    /\ built' = built + 1
    /\ provider' = built'
    /\ cache' = [cache EXCEPT ![built'].key = op[c].got]
    /\ op' = [op EXCEPT ![c].stage = "holding", ![c].of = built', ![c].got = 0]
    /\ crossed' = Crossed("key", provider # 0 \/ op[c].got # key)
    /\ UNCHANGED <<key, keys, choice, loads, file, saves, bounds>>
-----------------------------------------------------------------------------
(* The cache. *)

Forgotten(p) == [cache[p] EXCEPT !.reports = Nobody, !.loaded = FALSE, !.generation = @ + 1]

(* verifyModels empties the cache, what is loading or being probed for it  *)
(* notwithstanding; a choice of a model needs nothing of the kind.         *)
Hold(c) ==
    /\ At(c, "holding")
    /\ LET p == op[c].of
       IN  \/ /\ op[c].kind = "verify"
              /\ cache' = [cache EXCEPT ![p] = Forgotten(p)]
              /\ crossed' = Crossed("cache", cache[p].probing # {} \/ \E l \in loads : l[1] = p)
           \/ op[c].kind = "choose" /\ UNCHANGED <<cache, crossed>>
    /\ Becomes(c, "next")
    /\ UNCHANGED <<host, built, loads, file, saves, bounds>>

Loading(p) == <<p, cache[p].generation>> \in loads
StartLoad(p) == loads' = IF cache[p].loaded THEN loads ELSE loads \cup {<<p, cache[p].generation>>}

\* The model list is annotated: whoever draws it wants the matrix.
Glance ==
    /\ provider # 0 /\ ~cache[provider].loaded /\ ~Loading(provider)
    /\ StartLoad(provider)
    /\ UNCHANGED <<host, cache, built, file, saves, op, bounds, crossed>>

\* The file as a provider of this key reads it.
FileFor(k) == IF file.key = k THEN file.reports ELSE Nobody

(* A load ends.  One begun before the cache was invalidated is not stored, *)
(* and is still the answer of those who waited for it.                     *)
Load ==
    \E l \in loads :
        LET p == l[1]
            read == FileFor(cache[p].key)
        IN  /\ loads' = loads \ {l}
            /\ cache' = IF l[2] = cache[p].generation
                        THEN [cache EXCEPT ![p].reports = read, ![p].loaded = TRUE] ELSE cache
            /\ op' = [c \in Ops |-> IF At(c, "loading") /\ op[c].of = p /\ op[c].generation = l[2]
                                    THEN [op[c] EXCEPT !.stage = "seen", !.found = read[op[c].model],
                                                       !.generation = 0]
                                    ELSE op[c]]
            /\ UNCHANGED <<host, built, file, saves, bounds, crossed>>

\* The next model, through matrixOnce.
Take(c) ==
    /\ At(c, "next")
    /\ \E m \in op[c].todo :
           LET p == op[c].of
               todo == op[c].todo \ {m}
           IN  /\ StartLoad(p)
               /\ op' = [op EXCEPT ![c].model = m, ![c].todo = todo, ![c].generation = IF cache[p].loaded THEN 0 ELSE cache[p].generation,
                                   ![c].found = IF cache[p].loaded THEN cache[p].reports[m] ELSE "none",
                                   ![c].stage = IF cache[p].loaded THEN "seen" ELSE "loading"]
    /\ UNCHANGED <<host, cache, built, file, saves, bounds, crossed>>

\* No model left, a usable one found, or the budget spent.
Finish(c) ==
    /\ At(c, "next")
    /\ choice' = IF op[c].kind = "choose" THEN cache[op[c].of].key ELSE 0
    /\ op' = [op EXCEPT ![c] = Idle]
    /\ UNCHANGED <<key, keys, provider, caches, file, saves, bounds, crossed>>

\* Mutant of Look: a probe under way is not waited for.
LookAlone(c) ==
    /\ At(c, "seen")
    /\ cache' = IF op[c].found # "none" THEN cache
                ELSE [cache EXCEPT ![op[c].of].probing = @ \cup {op[c].model}]
    /\ Becomes(c, IF op[c].found # "none" THEN "next" ELSE "probing")
    /\ UNCHANGED <<host, built, loads, file, saves, bounds, crossed>>

(* ensure(), once it has the matrix: any report is an answer; without one  *)
(* the model is probed, or the probe under way is waited for.              *)
Look(c) ==
    /\ At(c, "seen")
    /\ LET p == op[c].of
           m == op[c].model
       IN  \/ /\ op[c].found # "none"
              /\ op' = [op EXCEPT ![c] = Goes(@)]
              /\ UNCHANGED cache
           \/ /\ op[c].found = "none" /\ m \in cache[p].probing
              /\ Becomes(c, "joined")
              /\ UNCHANGED <<cache>>
           \/ /\ op[c].found = "none" /\ m \notin cache[p].probing
              /\ cache' = [cache EXCEPT ![p].probing = @ \cup {m}]
              /\ Becomes(c, "probing")
    /\ UNCHANGED <<host, built, loads, file, saves, bounds, crossed>>
-----------------------------------------------------------------------------
(* Probing and saving. *)

\* Mutant of Merged: what is saved is what was just measured.
MergedAlone(p, m, report) == [Nobody EXCEPT ![m] = report]

\* merge(): the report of the probed model is replaced, the others stay.
Merged(p, m, report) == [cache[p].reports EXCEPT ![m] = report]

\* runProbes returns: a stopped or failed probe is a report too.
Probed(c) ==
    /\ At(c, "probing")
    /\ LET p == op[c].of
           reports == Merged(p, op[c].model, "told")
       IN  /\ cache' = [cache EXCEPT ![p].reports = reports, ![p].loaded = TRUE]
           /\ saves' = [saves EXCEPT ![c] = [key |-> cache[p].key, reports |-> reports]]
    /\ crossed' = Crossed("file", Saving # {})
    /\ Becomes(c, "saving")
    /\ UNCHANGED <<host, built, loads, file, bounds>>

\* Mutant of Released: those who waited for the probe are not told.
ReleasedAlone(c) == {c}

\* Whom the end of a probe concerns: its owner and those who joined it.
Released(c) == {c} \cup {d \in Ops : At(d, "joined") /\ op[d].of = op[c].of /\ op[d].model = op[c].model}

\* The probe is over, for its owner and for those who joined it.
Over(c) ==
    /\ cache' = [cache EXCEPT ![op[c].of].probing = @ \ {op[c].model}]
    /\ op' = [d \in Ops |-> IF d \in Released(c) THEN Goes(op[d]) ELSE op[d]]

\* Only a refused key makes runProbes throw.
ProbeThrows(c) ==
    /\ At(c, "probing")
    /\ Over(c)
    /\ UNCHANGED <<host, built, loads, file, saves, bounds, crossed>>

\* The file is replaced in one go, or, the disk failing, not at all.
Saved(c) ==
    /\ At(c, "saving")
    /\ file' \in {file, saves[c]}
    /\ saves' = [saves EXCEPT ![c] = NoSave]
    /\ Over(c)
    /\ UNCHANGED <<host, built, loads, bounds, crossed>>
-----------------------------------------------------------------------------
(* What follows a resumed await runs before anything else can happen: the  *)
(* answer of a load is looked at, and the next model taken, at once.       *)
Resumed(c) == Take(c) \/ Finish(c) \/ Look(c)
Quiet == \A c \in Ops : op[c].stage \notin {"next", "seen"}

Ends(c) == ReadKey(c) \/ Build(c) \/ Hold(c) \/ Probed(c) \/ ProbeThrows(c) \/ Saved(c)

Next == \/ \E c \in Ops : Resumed(c)
        \/ Quiet /\ (Rekey \/ Glance \/ Load \/ \E c \in Ops : Begin(c) \/ Ends(c))

\* Reads, writes and probes end: each request of a probe has its time-out.
Fairness ==
    /\ WF_vars(Quiet /\ Load)
    /\ \A c \in Ops : WF_vars(Resumed(c)) /\ WF_vars(Quiet /\ Ends(c))

Spec == Init /\ [][Next]_vars /\ Fairness
-----------------------------------------------------------------------------
(* Properties. *)

(* A measurement on disk stays there, as it was, as long as the key does   *)
(* and nothing overtook anything: hasaCapabilityProbe.ts:41-47, "A         *)
(* file-backed store handed only the delta would overwrite the catalogue's *)
(* measurements with a single entry".                                      *)
DiskKeepsUnlessCrossed ==
    [][crossed' = {} /\ file'.key = file.key =>
           \A m \in Models : file.reports[m] # "none" => file'.reports[m] = file.reports[m]]_vars

Probes(c) == At(c, "seen") /\ op'[c].stage = "probing"

(* No two probes of a model run for one provider, and none is begun for    *)
(* what the file already tells of this key: "Ten components asking about   *)
(* the same model as a panel opens must not become ten requests" (:202).   *)
ProbedOnce ==
    [][\A c \in Ops : Probes(c) =>
           /\ \A d \in Ops \ {c} : At(d, "probing") => op[d].of # op[c].of \/ op[d].model # op[c].model
           /\ crossed = {} => FileFor(cache[op[c].of].key)[op[c].model] = "none"]_vars

(* The provider and the choice of a model belong to the stored key, unless *)
(* the key changed or a second provider was built under way: agentHost.ts  *)
(* :384, "nothing built under the old one survives".                       *)
KeyInForceUnlessOvertaken ==
    "key" \notin crossed => /\ provider # 0 => cache[provider].key = key
                            /\ choice \in {0, key}

\* Whoever waits for a measurement gets one or an error.
MeasuringEnds == \A c \in Ops : ~At(c, "idle") ~> At(c, "idle")
=============================================================================
