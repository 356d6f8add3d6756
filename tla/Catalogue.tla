------------------------------ MODULE Catalogue ------------------------------
(***************************************************************************)
(* The provider of a key over the gateway: the client's requests with      *)
(* their retries, back-off and time-outs (hasa-client/client.ts), what its *)
(* errors mean (errors.ts, provider/hasa/hasaErrorMapper.ts), the one list *)
(* of models that all callers refresh together, over memory and disk       *)
(* (hasaModelRegistry.ts, modelCache.ts), and the check of a key that      *)
(* walks the list (hasaProvider.ts).  Callers are the chat view, which     *)
(* lists and validates, and turns, whose chats can be aborted.             *)
(*                                                                         *)
(* Names of models matter only as members of a list; what a list holds is  *)
(* nothing or something.  Every failure that tells nothing of the key      *)
(* (network, time-out, 408, 5xx, a malformed body) is "unavailable".  A    *)
(* 403 is "dead" when its body names the key, "forbidden" when it names    *)
(* models, and "closed" once its body says neither.  The measured          *)
(* capabilities that order a walk and annotate a list are left out.        *)
(***************************************************************************)
EXTENDS Naturals, FiniteSets

CONSTANTS
    Callers,
    Listed,        \* what a list that is not empty holds
    MaxRetries,    \* the provider's maxRetries
    MaxPings,      \* HASA_VALIDATION_MODEL_ATTEMPTS
    MaxCalls,      \* bound: calls ever made
    Gateways,      \* what the gateway may be: whether the key works, for which models, and which are routed
    NoModel

ASSUME CatalogueAssumption ==
    /\ MaxRetries \in Nat /\ MaxPings \in Nat \ {0} /\ MaxCalls \in Nat
    /\ "catalogue" \notin Callers /\ Listed # {} /\ NoModel \notin Listed
    /\ Gateways \subseteq [works : BOOLEAN, granted : SUBSET Listed, routed : SUBSET Listed]

Requests == Callers \cup {"catalogue"}
CallKinds == {"list", "look", "validate", "chat"}
Errors == {"unavailable", "throttled", "refused", "not_found", "auth", "dead", "forbidden", "closed"}
Codes == Errors \cup {"ok", "aborted"}

VARIABLES
    gateway,   \* external, and the same for ever
    req,       \* [stage, attempt, limit, error, model] of the list's request and of each caller's chat
    aborted,   \* callers whose signal has fired
    fresh,     \* there is a memory entry within its time to live
    disk,      \* the cached list: "none", "some"
    call,      \* [kind, stage, todo, front, pings, allowed, forbidden] of each caller
    answer,    \* what a caller's last call came to
    calls,     \* calls made
    \* History.
    strikes,   \* rejected keys the gateway counted for the caller's call
    unread     \* callers that lost the body of an error

registry == <<fresh, disk>>
history == <<strikes, unread>>
catalogueVars == <<gateway, req, aborted, registry, call, answer, calls, history>>

NoRequest == [stage |-> "idle", attempt |-> 0, limit |-> 0, error |-> "none", model |-> NoModel]
Sent(limit, model) == [NoRequest EXCEPT !.stage = "sent", !.limit = limit, !.model = model]
NoCall == [kind |-> "look", stage |-> "idle", todo |-> {}, front |-> {}, pings |-> 0,
           allowed |-> FALSE, forbidden |-> FALSE]
Answers == {"none", "memory", "network", "stale", "error", "yes", "no", "unknown", "ok", "failed", "aborted"}

RequestStates == [stage : {"idle", "sent", "refused", "asleep", "body", "writing"},
                  attempt : 0..MaxRetries, limit : 0..MaxRetries,
                  error : Errors \cup {"none"}, model : Listed \cup {NoModel}]
CallStates == [kind : CallKinds, stage : {"idle", "listing", "fallback", "asking"},
               todo : SUBSET Listed, front : SUBSET Listed, pings : 0..MaxPings,
               allowed : BOOLEAN, forbidden : BOOLEAN]

CatalogueTypeOK ==
    /\ gateway \in Gateways
    /\ req \in [Requests -> RequestStates]
    /\ aborted \subseteq Callers
    /\ fresh \in BOOLEAN /\ disk \in {"none", "some"}
    /\ call \in [Callers -> CallStates] /\ answer \in [Callers -> Answers]
    /\ calls \in 0..MaxCalls
    /\ strikes \in [Callers -> Nat] /\ unread \subseteq Callers

CatalogueInit ==
    /\ gateway \in Gateways
    /\ req = [r \in Requests |-> NoRequest] /\ aborted = {}
    /\ fresh = FALSE /\ disk \in {"none", "some"}
    /\ call = [c \in Callers |-> NoCall]
    /\ answer = [c \in Callers |-> "none"]
    /\ calls = 0
    /\ strikes = [c \in Callers |-> 0] /\ unread = {}

CallAt(c, stage) == call[c].stage = stage
Listing == {c \in Callers : CallAt(c, "listing")}

\* Mutant of Told: only one of those who wait is told.
ToldAlone == IF Listing = {} THEN {} ELSE {CHOOSE c \in Listing : TRUE}

\* Whom the end of the shared refresh concerns.
Told == Listing

-----------------------------------------------------------------------------
(* The walk of a validation: what it asks next, and what it says at last.  *)

\* The models a validation would ask: those of an allow-list first.
Next1(v) == IF v.front # {} THEN v.front ELSE v.todo
WalkOver(v) == Next1(v) = {} \/ v.pings = MaxPings
Asks(v, m) == [v EXCEPT !.stage = "asking", !.front = @ \ {m}, !.todo = @ \ {m}, !.pings = @ + 1]

\* Every attempt was refused for the model, or nothing was learned.
WalkSays(v) == IF v.allowed \/ v.forbidden THEN "yes" ELSE "unknown"

\* Caller c's validation has got as far as v: it asks one more model or ends.
GoOn(c, v) ==
    \/ /\ ~WalkOver(v)
       /\ \E m \in Next1(v) :
              /\ call' = [call EXCEPT ![c] = Asks(v, m)]
              /\ req' = [req EXCEPT ![c] = Sent(0, m)]
       /\ UNCHANGED answer
    \/ /\ WalkOver(v)
       /\ call' = [call EXCEPT ![c] = NoCall]
       /\ req' = [req EXCEPT ![c] = NoRequest]
       /\ answer' = [answer EXCEPT ![c] = WalkSays(v)]

Ended(c, says) ==
    /\ call' = [call EXCEPT ![c] = NoCall]
    /\ req' = [req EXCEPT ![c] = NoRequest]
    /\ answer' = [answer EXCEPT ![c] = says]

\* Mutant of PingOver: a rejected key is one more model that did not work.
PingOverWalksOn(c, code) ==
    LET v == [call[c] EXCEPT !.forbidden = code \in {"forbidden", "closed"}]
    IN  \/ code \in {"ok", "throttled", "refused"} /\ Ended(c, "yes")
        \/ code = "aborted" /\ Ended(c, "error")
        \/ code \in {"not_found", "unavailable", "closed", "forbidden", "auth", "dead"} /\ GoOn(c, v)

(* probeCredential() after one ping.  A list that comes with a 403 may be  *)
(* clipped; the models it names are asked first.                           *)
PingOver(c, code) ==
    LET v == [call[c] EXCEPT !.forbidden = code \in {"forbidden", "closed"}]
    IN  \/ code \in {"ok", "throttled", "refused"} /\ Ended(c, "yes")
        \/ code \in {"auth", "dead"} /\ Ended(c, "no")
        \/ code = "aborted" /\ Ended(c, "error")
        \/ code \in {"not_found", "unavailable", "closed"} /\ GoOn(c, v)
        \/ /\ code = "forbidden"
           /\ \E list \in (SUBSET gateway.granted) \ {{}} :
                  GoOn(c, [v EXCEPT !.allowed = TRUE, !.front = list \cap v.todo])

\* A call of a caller's own ends.
CallOver(c, code) ==
    /\ \/ call[c].kind = "validate" /\ PingOver(c, code)
       \/ call[c].kind = "chat" /\ Ended(c, IF code \in {"ok", "aborted"} THEN code ELSE "failed")
    /\ UNCHANGED registry

-----------------------------------------------------------------------------
(* The shared refresh. *)

(* Everyone who waits gets the list that has come.  An empty one says      *)
(* nothing of the key.                                                     *)
Deliver(content) ==
    \E pick \in [Told -> Listed] :
        LET walks == {c \in Told : call[c].kind = "validate" /\ content = "some"}
            First(c) == Asks([call[c] EXCEPT !.todo = Listed], pick[c])
        IN  /\ call' = [c \in Callers |-> IF c \in walks THEN First(c) ELSE IF c \in Told THEN NoCall ELSE call[c]]
            /\ req' = [r \in Requests |-> IF r \in walks THEN Sent(0, pick[r])
                                          ELSE IF r = "catalogue" THEN NoRequest ELSE req[r]]
            /\ answer' = [c \in Callers |-> IF c \notin Told \/ c \in walks THEN answer[c]
                                            ELSE IF call[c].kind = "validate" THEN "unknown" ELSE "network"]

(* The request of the list ends.  A list goes to memory and, unless it is  *)
(* empty, to disk before anybody is told; an abort is told as it is, any   *)
(* other failure is answered from disk.                                    *)
RefreshOver(code) ==
    \/ /\ code = "ok"
       /\ fresh' = TRUE
       /\ \/ req' = [req EXCEPT !["catalogue"].stage = "writing"] /\ UNCHANGED <<call, answer>>
          \/ Deliver("empty")
       /\ UNCHANGED disk
    \/ /\ code # "ok"
       /\ req' = [req EXCEPT !["catalogue"] = NoRequest]
       /\ call' = [c \in Callers |-> IF c \notin Told THEN call[c]
                                     ELSE IF code = "aborted" THEN NoCall ELSE [call[c] EXCEPT !.stage = "fallback"]]
       /\ answer' = [c \in Callers |-> IF c \notin Told \/ code # "aborted" THEN answer[c]
                                       ELSE IF call[c].kind = "validate" THEN "unknown" ELSE "error"]
       /\ UNCHANGED registry

\* The write to disk is over; it may have failed without a word.
Written ==
    /\ req["catalogue"].stage = "writing"
    /\ disk' \in {disk, "some"}
    /\ Deliver("some")
    /\ UNCHANGED <<gateway, aborted, fresh, calls, history>>

\* The cached list is read; one that is served says nothing of the key.
FallBack(c) ==
    /\ CallAt(c, "fallback")
    /\ Ended(c, IF call[c].kind = "validate" THEN "unknown" ELSE IF disk = "some" THEN "stale" ELSE "error")
    /\ UNCHANGED <<gateway, aborted, registry, calls, history>>

\* The list grows older than its time to live, or the clock is set back.
Expire ==
    /\ fresh /\ fresh' = FALSE
    /\ UNCHANGED <<gateway, req, aborted, disk, call, answer, calls, history>>

-----------------------------------------------------------------------------
(* Calls.  A validation does without retries, also when it is the one that *)
(* starts the refresh others join.                                         *)
Call(c) ==
    /\ CallAt(c, "idle") /\ calls < MaxCalls
    /\ calls' = calls + 1
    /\ aborted' = aborted \ {c} /\ strikes' = [strikes EXCEPT ![c] = 0] /\ unread' = unread \ {c}
    /\ \E kind \in CallKinds :
           \/ /\ kind = "chat"
              /\ call' = [call EXCEPT ![c] = [NoCall EXCEPT !.kind = kind, !.stage = "asking"]]
              /\ \E m \in Listed : req' = [req EXCEPT ![c] = Sent(MaxRetries, m)]
              /\ answer' = [answer EXCEPT ![c] = "none"]
           \/ /\ kind = "look" /\ fresh
              /\ answer' = [answer EXCEPT ![c] = "memory"]
              /\ UNCHANGED <<call, req>>
           \/ /\ kind # "chat" /\ (kind = "look" => ~fresh)
              /\ call' = [call EXCEPT ![c] = [NoCall EXCEPT !.kind = kind, !.stage = "listing"]]
              /\ req' = IF req["catalogue"].stage # "idle" THEN req
                        ELSE [req EXCEPT !["catalogue"] = Sent(IF kind = "validate" THEN 0 ELSE MaxRetries, NoModel)]
              /\ answer' = [answer EXCEPT ![c] = "none"]
    /\ UNCHANGED <<gateway, registry>>

-----------------------------------------------------------------------------
(* The client's requests. *)

RequestOver(r, code) == IF r = "catalogue" THEN RefreshOver(code) ELSE CallOver(r, code)

\* classifyStatus().
Retryable == {"unavailable", "throttled"}

\* Mutant of Throws: the signal is not looked at before the next attempt.
ThrowsOn(r, error) ==
    IF error \in Retryable /\ req[r].attempt < req[r].limit
    THEN /\ req' = [req EXCEPT ![r].stage = "asleep", ![r].error = "none"]
         /\ UNCHANGED <<registry, call, answer>>
    ELSE RequestOver(r, error)

\* withRetry(): an attempt failed, and is made again or not; a sleep whose
\* signal has fired does not begin.
Throws(r, error) ==
    IF error \in Retryable /\ req[r].attempt < req[r].limit
    THEN IF r \in aborted THEN RequestOver(r, "aborted")
         ELSE /\ req' = [req EXCEPT ![r].stage = "asleep", ![r].error = "none"]
              /\ UNCHANGED <<registry, call, answer>>
    ELSE RequestOver(r, error)

\* What the gateway may answer, external: a key that is rejected gets nothing
\* else said of it, and the list is public.
Statuses(r) ==
    {"ok", "unavailable", "throttled"} \cup
    IF r = "catalogue" THEN {"refused"}
    ELSE LET m == req[r].model
         IN  IF m \notin gateway.granted THEN {"forbidden"}
             ELSE IF m \notin gateway.routed THEN {"not_found"} ELSE {"refused"}
Replies(r) == IF r # "catalogue" /\ ~gateway.works THEN {"auth", "dead", "unavailable"}
              ELSE IF r # "catalogue" /\ req[r].model \notin gateway.granted \cap gateway.routed
              THEN Statuses(r) \ {"ok"} ELSE Statuses(r)

\* The gateway answers: a body that will be read, or an error whose body will.
Reply(r) ==
    /\ req[r].stage = "sent"
    /\ \E status \in Replies(r) :
           /\ req' = [req EXCEPT ![r].stage = IF status = "ok" THEN "body" ELSE "refused",
                                 ![r].error = IF status = "ok" THEN "none" ELSE status]
           /\ strikes' = IF status \in {"auth", "dead"} THEN [strikes EXCEPT ![r] = @ + 1] ELSE strikes
    /\ UNCHANGED <<gateway, aborted, registry, call, answer, calls, unread>>

\* No answer: the network or the attempt's own time-out, or the caller's abort.
NoReply(r) ==
    /\ req[r].stage = "sent"
    /\ IF r \in aborted THEN RequestOver(r, "aborted") ELSE Throws(r, "unavailable")
    /\ UNCHANGED <<gateway, aborted, calls, history>>

\* What the mapper makes of an error, its body read or lost.  A list of no
\* models is no list.
Meant(error, read) ==
    IF error = "dead" /\ ~read THEN "closed"
    ELSE IF error = "forbidden" /\ (~read \/ gateway.granted = {}) THEN "closed"
    ELSE error

\* The body of an error is read, and a body that cannot be read is no body.
ReadError(r) ==
    /\ req[r].stage = "refused"
    /\ \E read \in BOOLEAN :
           /\ Throws(r, Meant(req[r].error, read))
           /\ unread' = IF read \/ r = "catalogue" THEN unread ELSE unread \cup {r}
    /\ UNCHANGED <<gateway, aborted, calls, strikes>>

(* The body of an answer is read, outside the retries: it is whole, it is  *)
(* lost or malformed, or the time-out of the attempt or the caller ends it *)
(* with the error of an abort.                                             *)
ReadBody(r) ==
    /\ req[r].stage = "body"
    /\ \E code \in {"ok", "unavailable", "aborted"} : RequestOver(r, code)
    /\ UNCHANGED <<gateway, aborted, calls, history>>

\* The back-off, or the Retry-After, is over.
Wake(r) ==
    /\ req[r].stage = "asleep"
    /\ req' = [req EXCEPT ![r].stage = "sent", ![r].attempt = @ + 1]
    /\ UNCHANGED <<gateway, aborted, registry, call, answer, calls, history>>

\* The user stops a turn, or the turn's time is up.  A sleep ends at once.
Abort(c) ==
    /\ call[c].kind = "chat" /\ CallAt(c, "asking") /\ c \notin aborted
    /\ aborted' = aborted \cup {c}
    /\ IF req[c].stage = "asleep" THEN RequestOver(c, "aborted") ELSE UNCHANGED <<req, call, answer, registry>>
    /\ UNCHANGED <<gateway, calls, history>>

-----------------------------------------------------------------------------
Moves(r) == Reply(r) \/ NoReply(r) \/ ReadError(r) \/ ReadBody(r) \/ Wake(r)

CatalogueNext == \/ \E c \in Callers : Call(c) \/ FallBack(c) \/ Abort(c)
        \/ \E r \in Requests : Moves(r)
        \/ Written \/ Expire

\* A request has a time-out for each attempt, timers fire, the disk answers.
CatalogueFairness ==
    /\ \A r \in Requests : WF_catalogueVars(Moves(r))
    /\ \A c \in Callers : WF_catalogueVars(FallBack(c))
    /\ WF_catalogueVars(Written)

CatalogueSpec == CatalogueInit /\ [][CatalogueNext]_catalogueVars /\ CatalogueFairness
-----------------------------------------------------------------------------
(* Properties. *)

(* What a validation says of the key is so, unless the body of a 403 was   *)
(* lost: hasaProvider.ts:107, a provider "would report connected for a     *)
(* typo'd key and the user would discover the truth on their first real    *)
(* request".  A rejected key costs one of the strikes the gateway counts,  *)
(* never one for each model of the walk.                                   *)
VerdictIsTrueUnlessUnread ==
    \A c \in Callers \ unread :
        /\ answer[c] = "yes" /\ CallAt(c, "idle") => gateway.works
        /\ answer[c] = "no" => ~gateway.works
        /\ call[c].kind = "validate" => strikes[c] <= 1

(* After a caller's abort no request leaves for it: not out of a back-off, *)
(* nor after an answer that could have been tried again.                   *)
NothingSentAfterAbort ==
    [][\A c \in Callers :
           c \in aborted \cap aborted' => req'[c].attempt <= req[c].attempt]_catalogueVars

(* Every call ends, also of those who joined a refresh they did not start. *)
CallsEnd == \A c \in Callers : ~CallAt(c, "idle") ~> CallAt(c, "idle")
=============================================================================
