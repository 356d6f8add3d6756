---------------------------- MODULE ProviderProofs ----------------------------
(***************************************************************************)
(* Proofs about the provider of a key: Catalogue for any callers, lists,   *)
(* retries and gateways, Measurements for any models, operations and       *)
(* bounds.                                                                 *)
(***************************************************************************)
EXTENDS Catalogue, Measurements, TLAPS

-----------------------------------------------------------------------------
(* Calls over the gateway. *)

\* Every request keeps to its limit, a refusal has an error, and a walk begins with no pings.
CatalogueInv ==
    /\ CatalogueTypeOK
    /\ \A r \in Requests : /\ req[r].attempt <= req[r].limit
                           /\ req[r].stage = "asleep" => req[r].attempt < req[r].limit
                           /\ req[r].stage = "refused" => req[r].error # "none"
    /\ \A c \in Callers : CallAt(c, "listing") => call[c].pings = 0

-----------------------------------------------------------------------------
\* What the assumption says of the requests and the bounds.
LEMMA CallersAsk == /\ "catalogue" \in Requests /\ Callers \subseteq Requests /\ "catalogue" \notin Callers
                    /\ NoModel \notin Listed /\ MaxRetries \in Nat /\ MaxPings \in Nat \ {0}
BY CatalogueAssumption DEF Requests

\* A request and a call that are none.
LEMMA Nothing == /\ NoRequest \in RequestStates /\ NoRequest.stage = "idle" /\ NoRequest.attempt = 0
                 /\ NoRequest.limit = 0 /\ NoRequest.error = "none"
                 /\ NoCall \in CallStates /\ NoCall.stage = "idle" /\ NoCall.kind = "look" /\ NoCall.pings = 0
BY CallersAsk DEF NoRequest, NoCall, RequestStates, CallStates, CallKinds

\* A request that leaves.
LEMMA SentState ==
  ASSUME NEW limit \in 0..MaxRetries, NEW model \in Listed \cup {NoModel}
  PROVE  /\ Sent(limit, model) \in RequestStates /\ Sent(limit, model).stage = "sent"
         /\ Sent(limit, model).attempt = 0 /\ Sent(limit, model).limit = limit
         /\ Sent(limit, model).error = "none"
BY Nothing DEF Sent, RequestStates

\* A call that begins.
LEMMA CallsState ==
  ASSUME NEW kind \in CallKinds, NEW stage \in {"listing", "asking"}
  PROVE  LET v == [NoCall EXCEPT !.kind = kind, !.stage = stage]
         IN  v \in CallStates /\ v.kind = kind /\ v.stage = stage /\ v.pings = 0 /\ ~v.allowed /\ ~v.forbidden
<1>1. ~NoCall.allowed /\ ~NoCall.forbidden
  BY DEF NoCall
<1> QED
  BY <1>1, Nothing DEF CallStates

\* A validation that asks one more model.
LEMMA AsksState ==
  ASSUME NEW v \in CallStates, NEW m \in Listed, v.pings < MaxPings
  PROVE  /\ Asks(v, m) \in CallStates /\ Asks(v, m).kind = v.kind /\ Asks(v, m).stage = "asking"
         /\ Asks(v, m).allowed = v.allowed /\ Asks(v, m).forbidden = v.forbidden
<1>1. v.pings + 1 \in 0..MaxPings /\ v.front \ {m} \subseteq Listed /\ v.todo \ {m} \subseteq Listed
  BY CallersAsk DEF CallStates
<1> QED
  BY <1>1 DEF Asks, CallStates

\* A validation after a refusal.
LEMMA ForbiddenState ==
  ASSUME NEW u \in CallStates, NEW code
  PROVE  LET v == [u EXCEPT !.forbidden = code \in {"forbidden", "closed"}]
         IN  /\ v \in CallStates /\ v.allowed = u.allowed /\ v.kind = u.kind
             /\ v.forbidden <=> code \in {"forbidden", "closed"}
<1>1. CASE code \in {"forbidden", "closed"}
  <2>1. (code \in {"forbidden", "closed"}) = TRUE
    BY <1>1
  <2>2. [u EXCEPT !.forbidden = code \in {"forbidden", "closed"}] = [u EXCEPT !.forbidden = TRUE]
    BY <2>1, Zenon
  <2> QED
    BY <1>1, <2>2 DEF CallStates
<1>2. CASE code \notin {"forbidden", "closed"}
  <2>1. (code \in {"forbidden", "closed"}) = FALSE
    BY <1>2
  <2>2. [u EXCEPT !.forbidden = code \in {"forbidden", "closed"}] = [u EXCEPT !.forbidden = FALSE]
    BY <2>1, Zenon
  <2> QED
    BY <1>2, <2>2 DEF CallStates
<1> QED
  BY <1>1, <1>2

\* Caller c's call becomes w, with the request q and the answer a, and nobody else's does.
CallBecomes(c, q, w, a) ==
    /\ req' = [req EXCEPT ![c] = q] /\ call' = [call EXCEPT ![c] = w] /\ answer' = [answer EXCEPT ![c] = a]
    /\ q \in RequestStates /\ q.attempt = 0 /\ q.error = "none" /\ q.stage \in {"idle", "sent"}
    /\ w \in CallStates /\ w.stage \in {"idle", "asking"}
    /\ q.stage = "sent" => w.stage = "asking"
    /\ w.stage = "idle" => w.kind = "look"
    /\ a \in Answers

\* A call that ends leaves the others alone.
LEMMA EndedDoes ==
  ASSUME NEW c \in Callers, NEW a \in Answers, Ended(c, a)
  PROVE  CallBecomes(c, NoRequest, NoCall, a)
BY Nothing DEF Ended, CallBecomes

\* A walk that goes on: one more model is asked, or the call ends.
LEMMA GoOnDoes ==
  ASSUME CatalogueInv, NEW c \in Callers, NEW v \in CallStates, GoOn(c, v)
  PROVE  \E q, w, a :
            /\ CallBecomes(c, q, w, a)
            /\ w.kind = "validate" => w.allowed = v.allowed /\ w.forbidden = v.forbidden
            /\ a \in {answer[c], "unknown"} \/ (a = "yes" /\ (v.allowed \/ v.forbidden))
<1>0. answer \in [Callers -> Answers]
  BY DEF CatalogueInv, CatalogueTypeOK
<1>1. CASE ~WalkOver(v) /\ \E m \in Next1(v) : /\ call' = [call EXCEPT ![c] = Asks(v, m)]
                                               /\ req' = [req EXCEPT ![c] = Sent(0, m)]
                           /\ UNCHANGED answer
  <2>1. PICK m \in Next1(v) : call' = [call EXCEPT ![c] = Asks(v, m)] /\ req' = [req EXCEPT ![c] = Sent(0, m)]
    BY <1>1
  <2>2. m \in Listed /\ v.pings < MaxPings
    BY <1>1, <2>1, CallersAsk DEF Next1, WalkOver, CallStates
  <2>3. answer' = [answer EXCEPT ![c] = answer[c]] /\ answer[c] \in Answers
    BY <1>0, <1>1
  <2>4. 0 \in 0..MaxRetries
    BY CallersAsk
  <2>5. CallBecomes(c, Sent(0, m), Asks(v, m), answer[c])
    BY <2>1, <2>2, <2>3, <2>4, SentState, AsksState DEF CallBecomes
  <2> QED
    BY <2>2, <2>5, AsksState
<1>2. CASE WalkOver(v) /\ Ended(c, WalkSays(v))
  <2>1. WalkSays(v) \in {"yes", "unknown"} /\ (WalkSays(v) = "yes" => v.allowed \/ v.forbidden)
    BY DEF WalkSays
  <2>2. CallBecomes(c, NoRequest, NoCall, WalkSays(v))
    BY <1>2, <2>1, EndedDoes DEF Answers
  <2> QED
    BY <2>1, <2>2, Nothing
<1> QED
  BY <1>1, <1>2 DEF GoOn, Ended

\* The end of a request of a caller's own, whatever its code.
LEMMA CallOverDoes ==
  ASSUME CatalogueInv, NEW c \in Callers, NEW code \in Codes, CallOver(c, code)
  PROVE  /\ UNCHANGED registry
         /\ \E q, w, a :
              /\ CallBecomes(c, q, w, a)
              /\ call[c].kind = "chat" => w = NoCall
              /\ w.kind = "validate" => /\ code \notin {"auth", "dead"}
                                        /\ w.allowed => call[c].allowed \/ code = "forbidden"
                                        /\ w.forbidden => code \in {"forbidden", "closed"}
              /\ a = "yes" /\ a # answer[c] =>
                    call[c].kind = "validate" /\ (call[c].allowed \/ code \in {"ok", "throttled", "refused", "forbidden", "closed"})
              /\ a = "no" /\ a # answer[c] => code \in {"auth", "dead"}
<1>0. /\ UNCHANGED registry /\ call[c] \in CallStates /\ gateway \in Gateways /\ answer[c] \in Answers
  BY DEF CallOver, CatalogueInv, CatalogueTypeOK
<1> DEFINE v == [call[c] EXCEPT !.forbidden = code \in {"forbidden", "closed"}]
<1>1. v \in CallStates /\ v.allowed = call[c].allowed /\ (v.forbidden <=> code \in {"forbidden", "closed"})
      /\ v.kind = call[c].kind
  BY <1>0, ForbiddenState
<1>2. CASE call[c].kind = "validate" /\ PingOver(c, code)
  <2>1. CASE code \in {"ok", "throttled", "refused"} /\ Ended(c, "yes")
    BY <1>0, <1>2, <2>1, EndedDoes, Nothing DEF Answers
  <2>2. CASE code \in {"auth", "dead"} /\ Ended(c, "no")
    BY <1>0, <1>2, <2>2, EndedDoes, Nothing DEF Answers
  <2>3. CASE code = "aborted" /\ Ended(c, "error")
    BY <1>0, <1>2, <2>3, EndedDoes, Nothing DEF Answers
  <2>4. CASE code \in {"not_found", "unavailable", "closed"} /\ GoOn(c, v)
    <3>1. PICK q, w, a : /\ CallBecomes(c, q, w, a)
                         /\ w.kind = "validate" => w.allowed = v.allowed /\ w.forbidden = v.forbidden
                         /\ a \in {answer[c], "unknown"} \/ (a = "yes" /\ (v.allowed \/ v.forbidden))
      BY <1>1, <2>4, GoOnDoes
    <3> QED
      BY <1>0, <1>1, <1>2, <2>4, <3>1
  <2>5. CASE code = "forbidden" /\ \E list \in (SUBSET gateway.granted) \ {{}} :
                                       GoOn(c, [v EXCEPT !.allowed = TRUE, !.front = list \cap v.todo])
    <3>1. PICK list : GoOn(c, [v EXCEPT !.allowed = TRUE, !.front = list \cap v.todo])
      BY <2>5
    <3> DEFINE u == [v EXCEPT !.allowed = TRUE, !.front = list \cap v.todo]
    <3>2. list \cap v.todo \subseteq Listed
      BY <1>1 DEF CallStates
    <3>3. u \in CallStates /\ u.allowed = TRUE /\ u.forbidden = v.forbidden
      BY <1>1, <3>2 DEF CallStates
    <3> HIDE DEF u
    <3>4. PICK q, w, a : /\ CallBecomes(c, q, w, a)
                         /\ w.kind = "validate" => w.allowed = u.allowed /\ w.forbidden = u.forbidden
                         /\ a \in {answer[c], "unknown"} \/ (a = "yes" /\ (u.allowed \/ u.forbidden))
      BY <3>1, <3>3, GoOnDoes DEF u
    <3> QED
      BY <1>0, <1>1, <1>2, <2>5, <3>3, <3>4
  <2> QED
    BY <1>2, <2>1, <2>2, <2>3, <2>4, <2>5 DEF PingOver
<1>3. CASE call[c].kind = "chat" /\ Ended(c, IF code \in {"ok", "aborted"} THEN code ELSE "failed")
  <2>1. PICK a \in {"ok", "aborted", "failed"} : Ended(c, a)
    BY <1>3
  <2> QED
    BY <1>0, <1>3, <2>1, EndedDoes, Nothing DEF Answers
<1> QED
  BY <1>2, <1>3 DEF CallOver

\* What the refresh leaves caller c with: what it had, or nothing, or the cached list to read.
Refreshed(c) ==
    /\ req'[c] = req[c]
    /\ \/ call'[c] = call[c] /\ answer'[c] = answer[c]
       \/ CallAt(c, "listing") /\ call'[c] = NoCall /\ answer'[c] \in {"unknown", "error", "network"}
       \/ CallAt(c, "listing") /\ call'[c] = [call[c] EXCEPT !.stage = "fallback"] /\ answer'[c] = answer[c]

\* ... or with the first ping of its walk.
Walks(c) ==
    /\ CallAt(c, "listing") /\ answer'[c] = answer[c] /\ call[c].kind = "validate"
    /\ \E m \in Listed : call'[c] = Asks([call[c] EXCEPT !.todo = Listed], m) /\ req'[c] = Sent(0, m)

\* A list that comes: those who wait get it or begin to walk it.
LEMMA DeliverDoes ==
  ASSUME CatalogueInv, NEW content, Deliver(content)
  PROVE  /\ req' \in [Requests -> RequestStates] /\ req'["catalogue"] = NoRequest
         /\ call' \in [Callers -> CallStates] /\ answer' \in [Callers -> Answers]
         /\ \A c \in Callers : Refreshed(c) \/ (Walks(c) /\ content = "some")
<1> USE CallersAsk, Nothing
<1>0. /\ req \in [Requests -> RequestStates] /\ call \in [Callers -> CallStates] /\ answer \in [Callers -> Answers]
  BY DEF CatalogueInv, CatalogueTypeOK
<1> DEFINE walks == {c \in Told : call[c].kind = "validate" /\ content = "some"}
           First(c, m) == Asks([call[c] EXCEPT !.todo = Listed], m)
<1>1. PICK pick \in [Told -> Listed] :
         /\ call' = [c \in Callers |-> IF c \in walks THEN First(c, pick[c]) ELSE IF c \in Told THEN NoCall ELSE call[c]]
         /\ req' = [r \in Requests |-> IF r \in walks THEN Sent(0, pick[r])
                                        ELSE IF r = "catalogue" THEN NoRequest ELSE req[r]]
         /\ answer' = [c \in Callers |-> IF c \notin Told \/ c \in walks THEN answer[c]
                                          ELSE IF call[c].kind = "validate" THEN "unknown" ELSE "network"]
  BY DEF Deliver
<1>2. Told \subseteq Callers /\ walks \subseteq Told /\ \A c \in Told : CallAt(c, "listing") /\ pick[c] \in Listed
  BY DEF Told, Listing
<1>3. ASSUME NEW c \in walks PROVE First(c, pick[c]) \in CallStates /\ Sent(0, pick[c]) \in RequestStates
  <2>1. call[c] \in CallStates /\ call[c].pings = 0 /\ pick[c] \in Listed
    BY <1>0, <1>2 DEF CatalogueInv
  <2>2. [call[c] EXCEPT !.todo = Listed] \in CallStates /\ [call[c] EXCEPT !.todo = Listed].pings = 0
    BY <2>1 DEF CallStates
  <2>3. 0 < MaxPings /\ 0 \in 0..MaxRetries
    OBVIOUS
  <2>4. Asks([call[c] EXCEPT !.todo = Listed], pick[c]) \in CallStates
    BY <2>1, <2>2, <2>3, AsksState
  <2> QED
    BY <2>1, <2>3, <2>4, SentState
<1> HIDE DEF walks, First
<1>4. req' \in [Requests -> RequestStates] /\ req'["catalogue"] = NoRequest
  BY <1>0, <1>1, <1>2, <1>3
<1>5. call' \in [Callers -> CallStates]
  BY <1>0, <1>1, <1>3
<1>6. answer' \in [Callers -> Answers]
  BY <1>0, <1>1 DEF Answers
<1>7. ASSUME NEW c \in Callers PROVE Refreshed(c) \/ (Walks(c) /\ content = "some")
  <2>1. c \in Requests /\ c # "catalogue"
    OBVIOUS
  <2>2. CASE c \in walks
    <3>1. call[c].kind = "validate" /\ content = "some"
      BY <2>2 DEF walks
    <3> QED
      BY <1>1, <1>2, <2>1, <2>2, <3>1 DEF Walks, First
  <2>3. CASE c \in Told \ walks
    BY <1>1, <1>2, <2>1, <2>3 DEF Refreshed
  <2>4. CASE c \notin Told
    BY <1>1, <1>2, <2>1, <2>4 DEF Refreshed
  <2> QED
    BY <2>2, <2>3, <2>4
<1> QED
  BY <1>4, <1>5, <1>6, <1>7

\* The end of the request of the list.
LEMMA RefreshOverDoes ==
  ASSUME CatalogueInv, NEW code, RefreshOver(code)
  PROVE  /\ req' \in [Requests -> RequestStates]
         /\ req'["catalogue"] = NoRequest \/ req'["catalogue"] = [req["catalogue"] EXCEPT !.stage = "writing"]
         /\ call' \in [Callers -> CallStates] /\ answer' \in [Callers -> Answers]
         /\ fresh' \in {fresh, TRUE} /\ disk' = disk
         /\ \A c \in Callers : Refreshed(c)
<1> USE CallersAsk, Nothing
<1>0. /\ req \in [Requests -> RequestStates] /\ call \in [Callers -> CallStates] /\ answer \in [Callers -> Answers]
  BY DEF CatalogueInv, CatalogueTypeOK
<1>1. CASE code = "ok"
  <2>1. fresh' = TRUE /\ disk' = disk
    BY <1>1 DEF RefreshOver
  <2>2. CASE req' = [req EXCEPT !["catalogue"].stage = "writing"] /\ UNCHANGED <<call, answer>>
    <3>1. req["catalogue"] \in RequestStates /\ [req["catalogue"] EXCEPT !.stage = "writing"] \in RequestStates
      BY <1>0 DEF RequestStates
    <3>2. req' = [req EXCEPT !["catalogue"] = [req["catalogue"] EXCEPT !.stage = "writing"]]
      BY <2>2
    <3>3. req' \in [Requests -> RequestStates] /\ req'["catalogue"] = [req["catalogue"] EXCEPT !.stage = "writing"]
          /\ \A c \in Callers : req'[c] = req[c]
      BY <1>0, <3>1, <3>2
    <3> QED
      BY <1>0, <2>1, <2>2, <3>3 DEF Refreshed
  <2>3. CASE Deliver("empty")
    BY <2>1, <2>3, DeliverDoes
  <2> QED
    BY <1>1, <2>2, <2>3 DEF RefreshOver
<1>2. CASE code # "ok"
  <2>1. /\ req' = [req EXCEPT !["catalogue"] = NoRequest] /\ fresh' = fresh /\ disk' = disk
        /\ call' = [c \in Callers |-> IF c \notin Told THEN call[c]
                                       ELSE IF code = "aborted" THEN NoCall ELSE [call[c] EXCEPT !.stage = "fallback"]]
        /\ answer' = [c \in Callers |-> IF c \notin Told \/ code # "aborted" THEN answer[c]
                                         ELSE IF call[c].kind = "validate" THEN "unknown" ELSE "error"]
    BY <1>2 DEF RefreshOver, registry
  <2>2. req' \in [Requests -> RequestStates] /\ req'["catalogue"] = NoRequest /\ \A c \in Callers : req'[c] = req[c]
    BY <1>0, <2>1
  <2>3. answer' \in [Callers -> Answers]
    BY <1>0, <2>1 DEF Answers
  <2>4. \A c \in Callers : [call[c] EXCEPT !.stage = "fallback"] \in CallStates
    BY <1>0 DEF CallStates
  <2>5. call' \in [Callers -> CallStates]
    BY <1>0, <2>1, <2>4
  <2>6. ASSUME NEW c \in Callers PROVE Refreshed(c)
    <3>1. c \in Told => CallAt(c, "listing")
      BY DEF Told, Listing
    <3> QED
      BY <2>1, <2>2, <3>1 DEF Refreshed
  <2> QED
    BY <2>1, <2>2, <2>3, <2>5, <2>6
<1> QED
  BY <1>1, <1>2

-----------------------------------------------------------------------------
\* What the end of request r with a code does: to the list's request, or to that of a caller.
LEMMA RequestOverDoes ==
  ASSUME CatalogueInv, NEW r \in Requests, NEW code \in Codes, RequestOver(r, code)
  PROVE  /\ req' \in [Requests -> RequestStates] /\ call' \in [Callers -> CallStates] /\ answer' \in [Callers -> Answers]
         /\ fresh' \in {fresh, TRUE} /\ disk' = disk
         /\ \A q \in Requests \ {r} : req'[q] = req[q]
         /\ \/ req'[r] = [req[r] EXCEPT !.stage = "writing"]
            \/ req'[r].attempt = 0 /\ req'[r].stage \in {"idle", "sent"}
         /\ r = "catalogue" => \A c \in Callers : Refreshed(c)
         /\ r # "catalogue" => CallOver(r, code) /\ \A c \in Callers \ {r} : call'[c] = call[c] /\ answer'[c] = answer[c]
         /\ \A c \in Callers : CallAt(c, "listing")' => CallAt(c, "listing") /\ call'[c] = call[c]
<1> USE CallersAsk, Nothing
<1>0. /\ req \in [Requests -> RequestStates] /\ call \in [Callers -> CallStates] /\ answer \in [Callers -> Answers]
  BY DEF CatalogueInv, CatalogueTypeOK
<1>1. CASE r = "catalogue"
  <2>1. /\ req' \in [Requests -> RequestStates]
        /\ req'["catalogue"] = NoRequest \/ req'["catalogue"] = [req["catalogue"] EXCEPT !.stage = "writing"]
        /\ call' \in [Callers -> CallStates] /\ answer' \in [Callers -> Answers]
        /\ fresh' \in {fresh, TRUE} /\ disk' = disk
        /\ \A c \in Callers : Refreshed(c)
    BY <1>1, RefreshOverDoes DEF RequestOver
  <2>2. \A q \in Requests \ {r} : req'[q] = req[q]
    BY <1>1, <2>1 DEF Refreshed, Requests
  <2>3. ASSUME NEW c \in Callers, CallAt(c, "listing")' PROVE CallAt(c, "listing") /\ call'[c] = call[c]
    <3>1. call[c] \in CallStates /\ [call[c] EXCEPT !.stage = "fallback"].stage = "fallback"
      BY <1>0 DEF CallStates
    <3> QED
      BY <2>1, <2>3, <3>1 DEF Refreshed, CallAt
  <2> QED
    BY <1>1, <2>1, <2>2, <2>3
<1>2. CASE r # "catalogue"
  <2>1. r \in Callers /\ CallOver(r, code)
    BY <1>2 DEF RequestOver, Requests
  <2>2. UNCHANGED registry /\ \E q, w, a : CallBecomes(r, q, w, a)
    BY <2>1, CallOverDoes
  <2>3. PICK q, w, a : CallBecomes(r, q, w, a)
    BY <2>2
  <2>4. /\ req' = [req EXCEPT ![r] = q] /\ call' = [call EXCEPT ![r] = w] /\ answer' = [answer EXCEPT ![r] = a]
        /\ q \in RequestStates /\ q.attempt = 0 /\ q.stage \in {"idle", "sent"}
        /\ w \in CallStates /\ w.stage \in {"idle", "asking"} /\ a \in Answers
    BY <2>3 DEF CallBecomes
  <2>5. /\ req' \in [Requests -> RequestStates] /\ call' \in [Callers -> CallStates] /\ answer' \in [Callers -> Answers]
        /\ \A s \in Requests \ {r} : req'[s] = req[s]
        /\ \A c \in Callers \ {r} : call'[c] = call[c] /\ answer'[c] = answer[c]
        /\ req'[r] = q /\ call'[r] = w
    BY <1>0, <2>1, <2>4
  <2>6. ASSUME NEW c \in Callers, CallAt(c, "listing")' PROVE CallAt(c, "listing") /\ call'[c] = call[c]
    BY <2>4, <2>5, <2>6 DEF CallAt
  <2> QED
    BY <1>2, <2>1, <2>2, <2>4, <2>5, <2>6 DEF registry
<1> QED
  BY <1>1, <1>2

\* ... and what a failed attempt does: that, or it sleeps.
LEMMA ThrowsDoes ==
  ASSUME CatalogueInv, NEW r \in Requests, NEW error \in Errors, Throws(r, error)
  PROVE  \/ /\ error \in Retryable /\ req[r].attempt < req[r].limit /\ r \notin aborted
            /\ req' = [req EXCEPT ![r].stage = "asleep", ![r].error = "none"]
            /\ UNCHANGED <<registry, call, answer>>
         \/ RequestOver(r, error)
         \/ error \in Retryable /\ r \in aborted /\ RequestOver(r, "aborted")
BY DEF Throws

\* A step that changes one caller by states of the right type.
LEMMA StaysTyped ==
  ASSUME CatalogueInv, NEW r \in Requests, NEW q \in RequestStates, req' = [req EXCEPT ![r] = q],
         q.attempt <= q.limit, q.stage = "asleep" => q.attempt < q.limit, q.stage = "refused" => q.error # "none", call' = call,
         gateway' = gateway, aborted' \subseteq Callers, fresh' \in BOOLEAN, disk' \in {"none", "some"}, answer' = answer,
         calls' \in 0..MaxCalls, strikes' \in [Callers -> Nat], unread' \subseteq Callers
  PROVE  CatalogueInv'
<1>1. req \in [Requests -> RequestStates]
  BY DEF CatalogueInv, CatalogueTypeOK
<1>2. req' \in [Requests -> RequestStates] /\ req'[r] = q /\ \A s \in Requests \ {r} : req'[s] = req[s]
  BY <1>1
<1> QED
  BY <1>2 DEF CatalogueInv, CatalogueTypeOK, CallAt

\* The end of a request keeps the invariant.
LEMMA OverStaysTyped ==
  ASSUME CatalogueInv, NEW r \in Requests, NEW code \in Codes, RequestOver(r, code),
         gateway' = gateway, aborted' \subseteq Callers, calls' \in 0..MaxCalls,
         strikes' \in [Callers -> Nat], unread' \subseteq Callers
  PROVE  CatalogueInv'
<1>1. /\ req' \in [Requests -> RequestStates] /\ call' \in [Callers -> CallStates] /\ answer' \in [Callers -> Answers]
      /\ fresh' \in {fresh, TRUE} /\ disk' = disk
      /\ \A q \in Requests \ {r} : req'[q] = req[q]
      /\ \/ req'[r] = [req[r] EXCEPT !.stage = "writing"]
         \/ req'[r].attempt = 0 /\ req'[r].stage \in {"idle", "sent"}
      /\ \A c \in Callers : CallAt(c, "listing")' => CallAt(c, "listing") /\ call'[c] = call[c]
  BY RequestOverDoes
<1>2. req'[r].attempt <= req'[r].limit /\ req'[r].stage \notin {"asleep", "refused"}
  <2>1. req[r] \in RequestStates /\ req'[r] \in RequestStates /\ req[r].attempt <= req[r].limit
    BY <1>1 DEF CatalogueInv, CatalogueTypeOK
  <2>2. CASE req'[r] = [req[r] EXCEPT !.stage = "writing"]
    BY <2>1, <2>2 DEF RequestStates
  <2>3. CASE req'[r].attempt = 0 /\ req'[r].stage \in {"idle", "sent"}
    BY <2>1, <2>3, CallersAsk DEF RequestStates
  <2> QED
    BY <1>1, <2>2, <2>3
<1> QED
  BY <1>1, <1>2 DEF CatalogueInv, CatalogueTypeOK, CallAt

\* A failed attempt keeps the invariant.
LEMMA ThrowsStaysTyped ==
  ASSUME CatalogueInv, NEW r \in Requests, NEW error \in Errors, Throws(r, error),
         gateway' = gateway, aborted' \subseteq Callers, calls' \in 0..MaxCalls,
         strikes' \in [Callers -> Nat], unread' \subseteq Callers
  PROVE  CatalogueInv'
<1>0. req \in [Requests -> RequestStates] /\ "aborted" \in Codes /\ error \in Codes /\ fresh \in BOOLEAN /\ disk \in {"none", "some"}
  BY DEF CatalogueInv, CatalogueTypeOK, Codes
<1>1. CASE /\ error \in Retryable /\ req[r].attempt < req[r].limit /\ r \notin aborted
           /\ req' = [req EXCEPT ![r].stage = "asleep", ![r].error = "none"]
           /\ UNCHANGED <<registry, call, answer>>
  <2> DEFINE q == [req[r] EXCEPT !.stage = "asleep", !.error = "none"]
  <2>1. q \in RequestStates /\ q.attempt = req[r].attempt /\ q.limit = req[r].limit /\ q.stage = "asleep"
    BY <1>0 DEF RequestStates
  <2>2. req' = [req EXCEPT ![r] = q] /\ fresh' = fresh /\ disk' = disk /\ call' = call /\ answer' = answer
    BY <1>1 DEF registry
  <2>3. q.attempt < q.limit /\ q.attempt <= q.limit
    <3>1. req[r].attempt \in Nat /\ req[r].limit \in Nat
      BY <1>0, CallersAsk DEF RequestStates
    <3> QED
      BY <1>1, <2>1, <3>1
  <2> HIDE DEF q
  <2> QED
    BY <1>0, <2>1, <2>2, <2>3, StaysTyped
<1>2. CASE RequestOver(r, error)
  BY <1>0, <1>2, OverStaysTyped
<1>3. CASE RequestOver(r, "aborted")
  BY <1>0, <1>3, OverStaysTyped
<1> QED
  BY <1>1, <1>2, <1>3, ThrowsDoes

\* The invariant is inductive: one step per action.
LEMMA CatalogueInvStep == CatalogueInv /\ [CatalogueNext]_catalogueVars => CatalogueInv'
<1> SUFFICES ASSUME CatalogueInv, [CatalogueNext]_catalogueVars PROVE CatalogueInv'
  OBVIOUS
<1> USE CallersAsk, Nothing
<1>0. /\ req \in [Requests -> RequestStates] /\ call \in [Callers -> CallStates] /\ answer \in [Callers -> Answers]
      /\ gateway \in Gateways /\ aborted \subseteq Callers /\ unread \subseteq Callers
      /\ strikes \in [Callers -> Nat] /\ calls \in 0..MaxCalls /\ fresh \in BOOLEAN /\ disk \in {"none", "some"}
  BY DEF CatalogueInv, CatalogueTypeOK
<1>1. ASSUME NEW c \in Callers, Call(c) PROVE CatalogueInv'
  <2>0. /\ calls' \in 0..MaxCalls /\ aborted' \subseteq Callers /\ unread' \subseteq Callers
        /\ strikes' \in [Callers -> Nat] /\ gateway' = gateway /\ fresh' = fresh /\ disk' = disk
    BY <1>0, <1>1, CatalogueAssumption DEF Call, registry
  <2>1. PICK kind \in CallKinds :
           \/ /\ kind = "chat"
              /\ call' = [call EXCEPT ![c] = [NoCall EXCEPT !.kind = kind, !.stage = "asking"]]
              /\ \E m \in Listed : req' = [req EXCEPT ![c] = Sent(MaxRetries, m)]
              /\ answer' = [answer EXCEPT ![c] = "none"]
           \/ /\ kind = "look" /\ fresh
              /\ answer' = [answer EXCEPT ![c] = "memory"]
              /\ UNCHANGED <<call, req>>
           \/ /\ kind # "chat" /\ (kind = "look" => ~fresh)
              /\ call' = [call EXCEPT ![c] = [NoCall EXCEPT !.kind = kind, !.stage = "listing"]]
              /\ req' = IF req["catalogue"].stage # "idle" THEN req
                        ELSE [req EXCEPT !["catalogue"] = Sent(IF kind = "validate" THEN 0 ELSE MaxRetries, NoModel)]
              /\ answer' = [answer EXCEPT ![c] = "none"]
    BY <1>1 DEF Call
  <2>2. answer' \in [Callers -> Answers]
    BY <1>0, <2>1 DEF Answers
  <2>3. /\ req' \in [Requests -> RequestStates]
        /\ \A r \in Requests : req'[r] = req[r] \/ (req'[r].attempt = 0 /\ req'[r].stage = "sent")
    <3>1. CASE \E m \in Listed : req' = [req EXCEPT ![c] = Sent(MaxRetries, m)]
      <4>1. MaxRetries \in 0..MaxRetries
        OBVIOUS
      <4> QED
        BY <1>0, <3>1, <4>1, SentState
    <3>2. CASE req' = [req EXCEPT !["catalogue"] = Sent(IF kind = "validate" THEN 0 ELSE MaxRetries, NoModel)]
      <4>1. PICK limit \in 0..MaxRetries : req' = [req EXCEPT !["catalogue"] = Sent(limit, NoModel)]
        <5>1. 0 \in 0..MaxRetries /\ MaxRetries \in 0..MaxRetries
          OBVIOUS
        <5>2. CASE kind = "validate"
          BY <3>2, <5>1, <5>2
        <5>3. CASE kind # "validate"
          BY <3>2, <5>1, <5>3
        <5> QED
          BY <5>2, <5>3
      <4> QED
        BY <1>0, <4>1, SentState
    <3>3. CASE req' = req
      BY <1>0, <3>3
    <3> QED
      BY <2>1, <3>1, <3>2, <3>3
  <2>4. /\ call' \in [Callers -> CallStates]
        /\ \A d \in Callers : call'[d] = call[d] \/ call'[d].pings = 0
    <3>1. CASE call' = call
      BY <1>0, <3>1
    <3>2. ASSUME NEW stage \in {"listing", "asking"}, call' = [call EXCEPT ![c] = [NoCall EXCEPT !.kind = kind, !.stage = stage]]
          PROVE  call' \in [Callers -> CallStates] /\ \A d \in Callers : call'[d] = call[d] \/ call'[d].pings = 0
      BY <1>0, <3>2, CallsState
    <3> QED
      BY <2>1, <3>1, <3>2
  <2> QED
    <3>1. \A r \in Requests : /\ req'[r].attempt <= req'[r].limit
                              /\ req'[r].stage = "asleep" => req'[r].attempt < req'[r].limit
                              /\ req'[r].stage = "refused" => req'[r].error # "none"
      BY <2>3 DEF CatalogueInv, RequestStates
    <3>2. \A d \in Callers : CallAt(d, "listing")' => call'[d].pings = 0
      BY <2>4 DEF CatalogueInv, CallAt
    <3> QED
      BY <1>0, <2>0, <2>2, <2>3, <2>4, <3>1, <3>2 DEF CatalogueInv, CatalogueTypeOK
<1>2. ASSUME NEW c \in Callers, FallBack(c) PROVE CatalogueInv'
  <2>1. PICK a \in {"unknown", "stale", "error"} : Ended(c, a)
    BY <1>2 DEF FallBack
  <2>2. /\ req' = [req EXCEPT ![c] = NoRequest] /\ call' = [call EXCEPT ![c] = NoCall] /\ answer' = [answer EXCEPT ![c] = a]
        /\ a \in Answers
    BY <2>1 DEF Ended, Answers
  <2>3. /\ req' \in [Requests -> RequestStates] /\ call' \in [Callers -> CallStates] /\ answer' \in [Callers -> Answers]
        /\ \A r \in Requests : req'[r] = req[r] \/ req'[r] = NoRequest
        /\ \A d \in Callers : call'[d] = call[d] \/ call'[d] = NoCall
    BY <1>0, <2>2
  <2> QED
    BY <1>0, <1>2, <2>3 DEF FallBack, registry, history, CatalogueInv, CatalogueTypeOK, CallAt
<1>3. ASSUME NEW c \in Callers, Abort(c) PROVE CatalogueInv'
  <2>1. aborted' \subseteq Callers /\ gateway' = gateway /\ calls' = calls /\ strikes' = strikes /\ unread' = unread
    BY <1>0, <1>3 DEF Abort, history
  <2>2. CASE RequestOver(c, "aborted")
    BY <1>0, <2>1, <2>2, OverStaysTyped DEF Codes
  <2>3. CASE UNCHANGED <<req, call, answer, registry>>
    BY <1>0, <2>1, <2>3 DEF registry, CatalogueInv, CatalogueTypeOK, CallAt
  <2> QED
    BY <1>3, <2>2, <2>3 DEF Abort
<1>4. ASSUME NEW r \in Requests, Reply(r) PROVE CatalogueInv'
  <2>1. PICK status \in Replies(r) :
           /\ req' = [req EXCEPT ![r].stage = IF status = "ok" THEN "body" ELSE "refused",
                                 ![r].error = IF status = "ok" THEN "none" ELSE status]
           /\ strikes' = IF status \in {"auth", "dead"} THEN [strikes EXCEPT ![r] = @ + 1] ELSE strikes
    BY <1>4 DEF Reply
  <2>2. status \in Errors \cup {"ok"}
    BY <2>1 DEF Replies, Statuses, Errors
  <2> DEFINE q == [req[r] EXCEPT !.stage = IF status = "ok" THEN "body" ELSE "refused",
                                 !.error = IF status = "ok" THEN "none" ELSE status]
  <2>3. q \in RequestStates /\ q.attempt = req[r].attempt /\ q.limit = req[r].limit /\ q.stage \in {"body", "refused"}
        /\ (q.stage = "refused" => q.error # "none")
    BY <1>0, <2>2 DEF RequestStates, Errors
  <2>4. strikes' \in [Callers -> Nat]
    <3>1. CASE r \in Callers
      <4>1. strikes[r] + 1 \in Nat
        BY <1>0, <3>1
      <4> QED
        BY <1>0, <2>1, <4>1
    <3>2. CASE r \notin Callers
      BY <1>0, <2>1, <3>2
    <3> QED
      BY <3>1, <3>2
  <2>5. req' = [req EXCEPT ![r] = q] /\ q.attempt <= q.limit
    BY <2>1, <2>3 DEF CatalogueInv
  <2> HIDE DEF q
  <2>6. /\ gateway' = gateway /\ aborted' = aborted /\ fresh' = fresh /\ disk' = disk /\ call' = call /\ answer' = answer
        /\ calls' = calls /\ unread' = unread
    BY <1>4 DEF Reply, registry
  <2> QED
    BY <1>0, <2>3, <2>4, <2>5, <2>6, StaysTyped
<1>5. ASSUME NEW r \in Requests, NoReply(r) PROVE CatalogueInv'
  <2>1. /\ gateway' = gateway /\ aborted' = aborted /\ calls' = calls /\ strikes' = strikes /\ unread' = unread
    BY <1>5 DEF NoReply, history
  <2>2. CASE RequestOver(r, "aborted")
    BY <1>0, <2>1, <2>2, OverStaysTyped DEF Codes
  <2>3. CASE Throws(r, "unavailable")
    BY <1>0, <2>1, <2>3, ThrowsStaysTyped DEF Errors
  <2> QED
    BY <1>5, <2>2, <2>3 DEF NoReply
<1>6. ASSUME NEW r \in Requests, ReadError(r) PROVE CatalogueInv'
  <2>1. PICK read \in BOOLEAN : /\ Throws(r, Meant(req[r].error, read))
                                /\ unread' = IF read \/ r = "catalogue" THEN unread ELSE unread \cup {r}
    BY <1>6 DEF ReadError
  <2>2. /\ gateway' = gateway /\ aborted' = aborted /\ calls' = calls /\ strikes' = strikes
    BY <1>6 DEF ReadError
  <2>3. unread' \subseteq Callers
    BY <1>0, <2>1 DEF Requests
  <2>4. req[r] \in RequestStates /\ req[r].error # "none"
    BY <1>0, <1>6 DEF ReadError, CatalogueInv
  <2>5. Meant(req[r].error, read) \in Errors
    BY <2>4 DEF Meant, Errors, RequestStates
  <2> QED
    BY <1>0, <2>1, <2>2, <2>3, <2>5, ThrowsStaysTyped
<1>7. ASSUME NEW r \in Requests, ReadBody(r) PROVE CatalogueInv'
  <2>1. /\ gateway' = gateway /\ aborted' = aborted /\ calls' = calls /\ strikes' = strikes /\ unread' = unread
    BY <1>7 DEF ReadBody, history
  <2>2. PICK code \in {"ok", "unavailable", "aborted"} : RequestOver(r, code)
    BY <1>7 DEF ReadBody
  <2> QED
    BY <1>0, <2>1, <2>2, OverStaysTyped DEF Codes, Errors
<1>8. ASSUME NEW r \in Requests, Wake(r) PROVE CatalogueInv'
  <2> DEFINE q == [req[r] EXCEPT !.stage = "sent", !.attempt = @ + 1]
  <2>1. req[r].attempt < req[r].limit /\ req[r] \in RequestStates
    BY <1>0, <1>8 DEF Wake, CatalogueInv
  <2>2. req[r].attempt + 1 \in 0..MaxRetries
    BY <2>1 DEF RequestStates
  <2>3. q \in RequestStates /\ q.attempt = req[r].attempt + 1 /\ q.limit = req[r].limit /\ q.stage = "sent"
    BY <2>1, <2>2 DEF RequestStates
  <2>4. q.attempt <= q.limit
    BY <2>1, <2>3 DEF RequestStates
  <2>5. req' = [req EXCEPT ![r] = q]
    BY <1>8 DEF Wake
  <2> HIDE DEF q
  <2>6. /\ gateway' = gateway /\ aborted' = aborted /\ fresh' = fresh /\ disk' = disk /\ call' = call /\ answer' = answer
        /\ calls' = calls /\ unread' = unread /\ strikes' = strikes
    BY <1>8 DEF Wake, registry, history
  <2> QED
    BY <1>0, <2>3, <2>4, <2>5, <2>6, StaysTyped
<1>9. CASE Written
  <2>1. /\ gateway' = gateway /\ aborted' = aborted /\ calls' = calls /\ strikes' = strikes /\ unread' = unread
        /\ fresh' = fresh /\ disk' \in {"none", "some"} /\ Deliver("some")
    BY <1>0, <1>9 DEF Written, history
  <2>2. /\ req' \in [Requests -> RequestStates] /\ req'["catalogue"] = NoRequest
        /\ call' \in [Callers -> CallStates] /\ answer' \in [Callers -> Answers]
        /\ \A c \in Callers : Refreshed(c) \/ Walks(c)
    BY <2>1, DeliverDoes
  <2>3. ASSUME NEW r \in Requests
        PROVE  /\ req'[r].attempt <= req'[r].limit
               /\ req'[r].stage = "asleep" => req'[r].attempt < req'[r].limit
               /\ req'[r].stage = "refused" => req'[r].error # "none"
    <3>1. CASE r = "catalogue"
      BY <2>2, <3>1
    <3>2. CASE r \in Callers /\ Refreshed(r)
      BY <3>2 DEF Refreshed, CatalogueInv
    <3>3. CASE r \in Callers /\ Walks(r)
      <4>1. 0 \in 0..MaxRetries
        OBVIOUS
      <4>2. PICK m \in Listed : req'[r] = Sent(0, m)
        BY <3>3 DEF Walks
      <4>3. req'[r].attempt = 0 /\ req'[r].limit = 0 /\ req'[r].stage = "sent"
        BY <4>1, <4>2, SentState
      <4> QED
        BY <4>3
    <3> QED
      BY <2>2, <3>1, <3>2, <3>3 DEF Requests
  <2>4. ASSUME NEW c \in Callers, CallAt(c, "listing")' PROVE call'[c].pings = 0
    <3>1. CASE Refreshed(c)
      <4>1. [call[c] EXCEPT !.stage = "fallback"].stage = "fallback"
        BY <1>0 DEF CallStates
      <4> QED
        BY <2>4, <3>1, <4>1 DEF Refreshed, CallAt, CatalogueInv
    <3>2. CASE Walks(c)
      <4>1. call[c] \in CallStates /\ call[c].pings = 0 /\ 0 < MaxPings
        BY <1>0, <3>2 DEF Walks, CatalogueInv
      <4>2. [call[c] EXCEPT !.todo = Listed] \in CallStates /\ [call[c] EXCEPT !.todo = Listed].pings = 0
        BY <4>1 DEF CallStates
      <4>3. PICK m \in Listed : call'[c] = Asks([call[c] EXCEPT !.todo = Listed], m)
        BY <3>2 DEF Walks
      <4>4. call'[c].stage = "asking"
        BY <4>1, <4>2, <4>3, AsksState
      <4> QED
        BY <2>4, <4>4 DEF CallAt
    <3> QED
      BY <2>2, <3>1, <3>2
  <2> QED
    BY <1>0, <2>1, <2>2, <2>3, <2>4 DEF CatalogueInv, CatalogueTypeOK
<1>10. CASE Expire
  BY <1>10 DEF Expire, history, CatalogueInv, CatalogueTypeOK, CallAt
<1>11. CASE UNCHANGED catalogueVars
  BY <1>11 DEF catalogueVars, registry, history, CatalogueInv, CatalogueTypeOK, CallAt
<1> QED
  BY <1>1, <1>2, <1>3, <1>4, <1>5, <1>6, <1>7, <1>8, <1>9, <1>10, <1>11 DEF CatalogueNext, Moves

\* The invariant holds in every reachable state.
LEMMA CatalogueIsSound == CatalogueSpec => []CatalogueInv
<1>1. CatalogueInit => CatalogueInv
  <2> SUFFICES ASSUME CatalogueInit PROVE CatalogueInv
    OBVIOUS
  <2>1. req \in [Requests -> RequestStates] /\ \A r \in Requests : req[r] = NoRequest
    BY Nothing DEF CatalogueInit
  <2>2. call \in [Callers -> CallStates] /\ \A c \in Callers : call[c] = NoCall
    BY Nothing DEF CatalogueInit
  <2>3. answer \in [Callers -> Answers] /\ strikes \in [Callers -> Nat] /\ calls \in 0..MaxCalls
    BY CatalogueAssumption DEF CatalogueInit, Answers
  <2>4. CatalogueTypeOK
    BY <2>1, <2>2, <2>3 DEF CatalogueInit, CatalogueTypeOK
  <2> QED
    BY <2>1, <2>2, <2>4, Nothing DEF CatalogueInv, CallAt
<1> QED
  BY <1>1, CatalogueInvStep, PTL DEF CatalogueSpec

\* Every reachable state of the provider's calls is well typed, whatever the gateway.
THEOREM CatalogueTypeCorrect == CatalogueSpec => []CatalogueTypeOK
<1>1. CatalogueInv => CatalogueTypeOK
  BY DEF CatalogueInv
<1> QED
  BY <1>1, CatalogueIsSound, PTL

-----------------------------------------------------------------------------
\* An aborted request does not sleep.
AbortInv == \A c \in aborted : req[c].stage # "asleep"

\* No request's attempts grow once its caller has aborted.
LEMMA AbortStep ==
  ASSUME CatalogueInv, AbortInv, [CatalogueNext]_catalogueVars
  PROVE  AbortInv' /\ \A c \in Callers : c \in aborted \cap aborted' => req'[c].attempt <= req[c].attempt
<1> USE CallersAsk, Nothing
<1> DEFINE StepIsQuiet == \A c \in Callers : c \in aborted \cap aborted' => req'[c].attempt <= req[c].attempt
<1>0. /\ req \in [Requests -> RequestStates] /\ aborted \subseteq Callers
      /\ \A r \in Requests : req[r] \in RequestStates /\ req[r].attempt \in Nat
  BY DEF CatalogueInv, CatalogueTypeOK, RequestStates
<1>1. ASSUME aborted' = aborted,
             \A c \in aborted : \/ req'[c] = req[c]
                                \/ req'[c].attempt = 0 /\ req'[c].stage # "asleep"
                                \/ req'[c].attempt = req[c].attempt /\ req'[c].stage # "asleep"
      PROVE  AbortInv' /\ StepIsQuiet
  BY <1>0, <1>1 DEF AbortInv
<1>2. ASSUME NEW r \in Requests, NEW code \in Codes, RequestOver(r, code)
      PROVE  \A c \in Callers : \/ req'[c] = req[c]
                                \/ req'[c].attempt = 0 /\ req'[c].stage # "asleep"
                                \/ req'[c].attempt = req[c].attempt /\ req'[c].stage # "asleep"
  <2>1. /\ \A q \in Requests \ {r} : req'[q] = req[q]
        /\ \/ req'[r] = [req[r] EXCEPT !.stage = "writing"]
           \/ req'[r].attempt = 0 /\ req'[r].stage \in {"idle", "sent"}
    BY <1>2, RequestOverDoes
  <2>2. req[r].attempt = [req[r] EXCEPT !.stage = "writing"].attempt /\ [req[r] EXCEPT !.stage = "writing"].stage = "writing"
    BY <1>0 DEF RequestStates
  <2> QED
    BY <2>1, <2>2
<1>3. ASSUME NEW r \in Requests, NEW error \in Errors, Throws(r, error), aborted' = aborted
      PROVE  AbortInv' /\ StepIsQuiet
  <2>1. CASE r \notin aborted /\ req' = [req EXCEPT ![r].stage = "asleep", ![r].error = "none"]
    <3>1. \A c \in aborted : req'[c] = req[c]
      BY <1>0, <2>1
    <3> QED
      BY <1>1, <1>3, <3>1
  <2>2. CASE RequestOver(r, error) \/ RequestOver(r, "aborted")
    <3>1. \A c \in aborted : \/ req'[c] = req[c]
                             \/ req'[c].attempt = 0 /\ req'[c].stage # "asleep"
                             \/ req'[c].attempt = req[c].attempt /\ req'[c].stage # "asleep"
      BY <1>0, <1>2, <1>3, <2>2 DEF Codes
    <3> QED
      BY <1>1, <1>3, <3>1
  <2> QED
    BY <1>3, <2>1, <2>2, ThrowsDoes
<1>4. ASSUME NEW c \in Callers, Call(c) PROVE AbortInv' /\ StepIsQuiet
  <2>1. aborted' = aborted \ {c}
    BY <1>4 DEF Call
  <2>2. \A d \in Callers \ {c} : req'[d] = req[d]
    <3>1. \/ req' = req
          \/ \E m \in Listed : req' = [req EXCEPT ![c] = Sent(MaxRetries, m)]
          \/ \E limit : req' = [req EXCEPT !["catalogue"] = Sent(limit, NoModel)]
      BY <1>4 DEF Call
    <3> QED
      BY <1>0, <3>1
  <2> QED
    BY <1>0, <2>1, <2>2 DEF AbortInv
<1>5. ASSUME NEW c \in Callers, FallBack(c) PROVE AbortInv' /\ StepIsQuiet
  <2>1. aborted' = aborted /\ req' = [req EXCEPT ![c] = NoRequest]
    BY <1>5 DEF FallBack, Ended
  <2>2. \A d \in aborted : req'[d] = req[d] \/ (req'[d].attempt = 0 /\ req'[d].stage # "asleep")
    BY <1>0, <2>1
  <2> QED
    BY <1>1, <2>1, <2>2
<1>6. ASSUME NEW c \in Callers, Abort(c) PROVE AbortInv' /\ StepIsQuiet
  <2>1. aborted' = aborted \cup {c}
    BY <1>6 DEF Abort
  <2>2. CASE req[c].stage = "asleep" /\ RequestOver(c, "aborted")
    <3>1. CallOver(c, "aborted") /\ call[c].kind = "chat"
      BY <1>6, <2>2 DEF Abort, RequestOver
    <3>2. req' = [req EXCEPT ![c] = NoRequest]
      BY <3>1 DEF CallOver, Ended
    <3>3. req'[c] = NoRequest /\ \A d \in Callers \ {c} : req'[d] = req[d]
      BY <1>0, <3>2
    <3> QED
      BY <1>0, <2>1, <3>3 DEF AbortInv
  <2>3. CASE req[c].stage # "asleep" /\ req' = req
    BY <1>0, <2>1, <2>3 DEF AbortInv
  <2> QED
    BY <1>6, <2>2, <2>3 DEF Abort
<1>7. ASSUME NEW r \in Requests, Reply(r) PROVE AbortInv' /\ StepIsQuiet
  <2>1. PICK status : req' = [req EXCEPT ![r].stage = IF status = "ok" THEN "body" ELSE "refused",
                                         ![r].error = IF status = "ok" THEN "none" ELSE status]
    BY <1>7 DEF Reply
  <2>2. req'[r].attempt = req[r].attempt /\ req'[r].stage # "asleep" /\ \A q \in Requests \ {r} : req'[q] = req[q]
    BY <1>0, <2>1 DEF RequestStates
  <2> QED
    BY <1>0, <1>1, <1>7, <2>2 DEF Reply
<1>8. ASSUME NEW r \in Requests, NoReply(r) PROVE AbortInv' /\ StepIsQuiet
  <2>1. CASE RequestOver(r, "aborted")
    <3>1. "aborted" \in Codes
      BY DEF Codes
    <3> QED
      BY <1>0, <1>1, <1>2, <1>8, <2>1, <3>1 DEF NoReply
  <2>2. CASE Throws(r, "unavailable")
    BY <1>3, <1>8, <2>2 DEF NoReply, Errors
  <2> QED
    BY <1>8, <2>1, <2>2 DEF NoReply
<1>9. ASSUME NEW r \in Requests, ReadError(r) PROVE AbortInv' /\ StepIsQuiet
  <2>1. PICK read \in BOOLEAN : Throws(r, Meant(req[r].error, read))
    BY <1>9 DEF ReadError
  <2>2. req[r].error # "none"
    BY <1>9 DEF ReadError, CatalogueInv
  <2>3. Meant(req[r].error, read) \in Errors
    BY <1>0, <2>2 DEF Meant, Errors, RequestStates
  <2> QED
    BY <1>3, <1>9, <2>1, <2>3 DEF ReadError
<1>10. ASSUME NEW r \in Requests, ReadBody(r) PROVE AbortInv' /\ StepIsQuiet
  <2>1. PICK code \in {"ok", "unavailable", "aborted"} : RequestOver(r, code)
    BY <1>10 DEF ReadBody
  <2>2. code \in Codes
    BY DEF Codes, Errors
  <2> QED
    BY <1>0, <1>1, <1>2, <1>10, <2>1, <2>2 DEF ReadBody
<1>11. ASSUME NEW r \in Requests, Wake(r) PROVE AbortInv' /\ StepIsQuiet
  <2>1. r \notin aborted /\ req' = [req EXCEPT ![r].stage = "sent", ![r].attempt = @ + 1]
    BY <1>11 DEF Wake, AbortInv
  <2>2. \A c \in aborted : req'[c] = req[c]
    BY <1>0, <2>1
  <2> QED
    BY <1>1, <1>11, <2>2 DEF Wake
<1>12. CASE Written
  <2>1. \A c \in Callers : Refreshed(c) \/ Walks(c)
    BY <1>12, DeliverDoes DEF Written
  <2>2. ASSUME NEW c \in Callers PROVE req'[c] = req[c] \/ (req'[c].attempt = 0 /\ req'[c].stage # "asleep")
    <3>1. CASE Walks(c)
      <4>1. 0 \in 0..MaxRetries
        OBVIOUS
      <4> QED
        BY <3>1, <4>1, SentState DEF Walks
    <3> QED
      BY <2>1, <3>1 DEF Refreshed
  <2> QED
    BY <1>0, <1>1, <1>12, <2>2 DEF Written
<1>13. CASE Expire
  BY <1>1, <1>13 DEF Expire
<1>14. CASE UNCHANGED catalogueVars
  BY <1>1, <1>14 DEF catalogueVars
<1> QED
  BY <1>4, <1>5, <1>6, <1>7, <1>8, <1>9, <1>10, <1>11, <1>12, <1>13, <1>14 DEF CatalogueNext, Moves

\* client.ts, withRetry(): once the signal of a caller has fired, no attempt is made for it
\* again.
THEOREM AbortIsQuiet == CatalogueSpec => NothingSentAfterAbort
<1>1. CatalogueInit => AbortInv
  BY DEF CatalogueInit, AbortInv
<1>2. CatalogueInv /\ AbortInv /\ [CatalogueNext]_catalogueVars => AbortInv'
  BY AbortStep
<1>3. CatalogueInv /\ AbortInv /\ [CatalogueNext]_catalogueVars =>
          [\A c \in Callers : c \in aborted \cap aborted' => req'[c].attempt <= req[c].attempt]_catalogueVars
  BY AbortStep
<1> QED
  BY <1>1, <1>2, <1>3, CatalogueIsSound, PTL DEF CatalogueSpec, NothingSentAfterAbort

-----------------------------------------------------------------------------
\* What is known of caller c's call while the gateway's verdict on the key is on its way.
Trusted(c) ==
    /\ answer[c] = "yes" => gateway.works
    /\ call[c].kind = "validate" =>
           /\ ~gateway.works => ~call[c].allowed /\ ~call[c].forbidden
           /\ \/ strikes[c] = 0
              \/ strikes[c] = 1 /\ req[c].stage = "refused" /\ req[c].error \in {"auth", "dead"}

VerdictOf(c) ==
    /\ req[c].stage # "idle" => CallAt(c, "asking")
    /\ CallAt(c, "idle") => call[c].kind = "look"
    /\ ~gateway.works => req[c].error \in {"none", "auth", "dead", "unavailable"} /\ req[c].stage # "body"
    /\ gateway.works => req[c].error \notin {"auth", "dead"}
    /\ answer[c] = "no" => ~gateway.works
    /\ c \notin unread => Trusted(c)

VerdictInv == \A c \in Callers : VerdictOf(c)

\* A caller the step does not concern.
LEMMA NotConcerned ==
  ASSUME NEW c \in Callers, VerdictOf(c), gateway' = gateway, req'[c] = req[c], call'[c] = call[c],
         answer'[c] = answer[c], strikes'[c] = strikes[c], c \in unread' <=> c \in unread
  PROVE  VerdictOf(c)'
BY DEF VerdictOf, Trusted, CallAt

\* A caller that waits for the list.
LEMMA RefreshedKeeps ==
  ASSUME CatalogueInv, NEW c \in Callers, VerdictOf(c), Refreshed(c), gateway' = gateway,
         strikes'[c] = strikes[c], c \in unread' <=> c \in unread
  PROVE  VerdictOf(c)'
<1>1. call[c] \in CallStates /\ req'[c] = req[c]
  BY DEF CatalogueInv, CatalogueTypeOK, Refreshed
<1>2. CASE call'[c] = call[c] /\ answer'[c] = answer[c]
  BY <1>1, <1>2, NotConcerned
<1>3. CASE CallAt(c, "listing") /\ call'[c] = NoCall /\ answer'[c] \in {"unknown", "error", "network"}
  BY <1>1, <1>3, Nothing DEF VerdictOf, Trusted, CallAt
<1>4. CASE CallAt(c, "listing") /\ call'[c] = [call[c] EXCEPT !.stage = "fallback"] /\ answer'[c] = answer[c]
  <2>1. /\ call'[c].kind = call[c].kind /\ call'[c].allowed = call[c].allowed /\ call'[c].forbidden = call[c].forbidden
        /\ req[c].stage = "idle" /\ call'[c].stage = "fallback"
    BY <1>1, <1>4 DEF CallStates, VerdictOf, CallAt
  <2> QED
    BY <1>1, <1>4, <2>1 DEF VerdictOf, Trusted, CallAt
<1> QED
  BY <1>2, <1>3, <1>4 DEF Refreshed

\* A caller whose walk begins.
LEMMA WalksKeeps ==
  ASSUME CatalogueInv, NEW c \in Callers, VerdictOf(c), Walks(c), gateway' = gateway,
         strikes'[c] = strikes[c], c \in unread' <=> c \in unread
  PROVE  VerdictOf(c)'
<1>1. call[c] \in CallStates /\ call[c].pings = 0 /\ 0 < MaxPings /\ 0 \in 0..MaxRetries
  BY CallersAsk DEF CatalogueInv, CatalogueTypeOK, Walks
<1>2. PICK m \in Listed : call'[c] = Asks([call[c] EXCEPT !.todo = Listed], m) /\ req'[c] = Sent(0, m)
  BY DEF Walks
<1> DEFINE u == [call[c] EXCEPT !.todo = Listed]
<1>3. /\ u \in CallStates /\ u.pings = 0 /\ u.kind = call[c].kind
      /\ u.allowed = call[c].allowed /\ u.forbidden = call[c].forbidden
  BY <1>1 DEF CallStates
<1>  HIDE DEF u
<1>4. /\ call'[c].kind = call[c].kind /\ call'[c].allowed = call[c].allowed /\ call'[c].forbidden = call[c].forbidden
      /\ call'[c].stage = "asking"
  <2>1. u.pings < MaxPings /\ call'[c] = Asks(u, m)
    BY <1>1, <1>2, <1>3 DEF u
  <2> QED
    BY <1>3, <2>1, AsksState
<1>5. req'[c].stage = "sent" /\ req'[c].error = "none" /\ req[c].stage = "idle" /\ answer'[c] = answer[c]
  BY <1>1, <1>2, SentState DEF VerdictOf, Walks, CallAt
<1> QED
  BY <1>4, <1>5 DEF VerdictOf, Trusted, CallAt

(* The caller whose attempt came to a code.  A key that does not work gets *)
(* no code that speaks for it, but for a body that was lost; one that does *)
(* gets none that speaks against it; and a strike ends the walk.           *)
LEMMA OverKeeps ==
  ASSUME CatalogueInv, NEW c \in Callers, VerdictOf(c), NEW code \in Codes, CallOver(c, code),
         gateway' = gateway, strikes'[c] = strikes[c],
         ~gateway.works => code \in {"auth", "dead", "unavailable", "aborted", "closed"},
         gateway.works => code \notin {"auth", "dead"},
         c \notin unread' => /\ c \notin unread
                             /\ ~gateway.works => code # "closed"
                             /\ call[c].kind = "validate" /\ strikes[c] # 0 => code \in {"auth", "dead"}
  PROVE  VerdictOf(c)'
<1>1. PICK q, w, a :
         /\ CallBecomes(c, q, w, a)
         /\ call[c].kind = "chat" => w = NoCall
         /\ w.kind = "validate" => /\ code \notin {"auth", "dead"}
                                   /\ w.allowed => call[c].allowed \/ code = "forbidden"
                                   /\ w.forbidden => code \in {"forbidden", "closed"}
         /\ a = "yes" /\ a # answer[c] =>
               call[c].kind = "validate" /\ (call[c].allowed \/ code \in {"ok", "throttled", "refused", "forbidden", "closed"})
         /\ a = "no" /\ a # answer[c] => code \in {"auth", "dead"}
  BY CallOverDoes
<1>2. /\ req'[c] = q /\ call'[c] = w /\ answer'[c] = a
      /\ q.error = "none" /\ q.stage \in {"idle", "sent"} /\ (q.stage = "sent" => w.stage = "asking")
      /\ w.stage = "idle" => w.kind = "look"
  BY <1>1, CallersAsk DEF CallBecomes, CatalogueInv, CatalogueTypeOK
<1>3. w.kind = "validate" => call[c].kind = "validate"
  BY <1>1, Nothing DEF CallOver
<1>4. ASSUME c \notin unread' PROVE Trusted(c)'
  <2>1. Trusted(c) /\ (~gateway.works => code # "closed")
    BY <1>4 DEF VerdictOf
  <2>2. a = "yes" => gateway.works
    BY <1>1, <2>1 DEF Trusted
  <2>3. ASSUME w.kind = "validate"
        PROVE  (~gateway.works => ~w.allowed /\ ~w.forbidden) /\ strikes[c] = 0
    BY <1>1, <1>3, <1>4, <2>1, <2>3 DEF Trusted
  <2> QED
    BY <1>2, <2>2, <2>3 DEF Trusted
<1> QED
  BY <1>1, <1>2, <1>4 DEF VerdictOf, CallAt

\* The invariant of the verdicts is inductive: one step per action.
LEMMA VerdictStep ==
  ASSUME CatalogueInv, VerdictInv, [CatalogueNext]_catalogueVars
  PROVE  VerdictInv'
<1> USE CallersAsk, Nothing
<1>0. /\ req \in [Requests -> RequestStates] /\ call \in [Callers -> CallStates] /\ answer \in [Callers -> Answers]
      /\ strikes \in [Callers -> Nat] /\ unread \subseteq Callers
      /\ \A c \in Callers : c \in Requests /\ c # "catalogue" /\ req[c] \in RequestStates /\ VerdictOf(c)
  BY DEF CatalogueInv, CatalogueTypeOK, VerdictInv
<1>1. ASSUME NEW r \in Requests, NEW c \in Callers, c # r, gateway' = gateway, strikes' = strikes,
             unread' \in {unread, unread \cup {r}}, NEW code \in Codes, RequestOver(r, code)
      PROVE  VerdictOf(c)'
  <2>1. req'[c] = req[c] /\ strikes'[c] = strikes[c] /\ (c \in unread' <=> c \in unread)
    BY <1>0, <1>1, RequestOverDoes
  <2>2. CASE r = "catalogue"
    <3>1. Refreshed(c)
      BY <1>1, <2>2, RequestOverDoes
    <3> QED
      BY <1>0, <1>1, <2>1, <3>1, RefreshedKeeps
  <2>3. CASE r # "catalogue"
    <3>1. call'[c] = call[c] /\ answer'[c] = answer[c]
      BY <1>1, <2>3, RequestOverDoes
    <3> QED
      BY <1>0, <1>1, <2>1, <3>1, NotConcerned
  <2> QED
    BY <2>2, <2>3
<1>2. ASSUME NEW c \in Callers, gateway' = gateway, strikes' = strikes, NEW code \in Codes, RequestOver(c, code),
             ~gateway.works => code \in {"auth", "dead", "unavailable", "aborted", "closed"},
             gateway.works => code \notin {"auth", "dead"},
             c \notin unread' => /\ c \notin unread
                                 /\ ~gateway.works => code # "closed"
                                 /\ call[c].kind = "validate" /\ strikes[c] # 0 => code \in {"auth", "dead"}
      PROVE  VerdictOf(c)'
  <2>1. CallOver(c, code) /\ strikes'[c] = strikes[c]
    BY <1>0, <1>2 DEF RequestOver
  <2> QED
    BY <1>0, <1>2, <2>1, OverKeeps
<1>3. ASSUME NEW c \in Callers, Call(c) PROVE VerdictInv'
  <2>1. gateway' = gateway /\ strikes' = [strikes EXCEPT ![c] = 0] /\ unread' = unread \ {c} /\ CallAt(c, "idle")
    BY <1>3 DEF Call
  <2>2. PICK kind \in CallKinds :
           \/ /\ kind = "chat"
              /\ call' = [call EXCEPT ![c] = [NoCall EXCEPT !.kind = kind, !.stage = "asking"]]
              /\ \E m \in Listed : req' = [req EXCEPT ![c] = Sent(MaxRetries, m)]
              /\ answer' = [answer EXCEPT ![c] = "none"]
           \/ /\ kind = "look" /\ fresh
              /\ answer' = [answer EXCEPT ![c] = "memory"]
              /\ UNCHANGED <<call, req>>
           \/ /\ kind # "chat" /\ (kind = "look" => ~fresh)
              /\ call' = [call EXCEPT ![c] = [NoCall EXCEPT !.kind = kind, !.stage = "listing"]]
              /\ req' = IF req["catalogue"].stage # "idle" THEN req
                        ELSE [req EXCEPT !["catalogue"] = Sent(IF kind = "validate" THEN 0 ELSE MaxRetries, NoModel)]
              /\ answer' = [answer EXCEPT ![c] = "none"]
    BY <1>3 DEF Call
  <2>3. ASSUME NEW d \in Callers, d # c PROVE VerdictOf(d)'
    <3>1. req'[d] = req[d]
      BY <1>0, <2>2, <2>3
    <3>2. call'[d] = call[d] /\ answer'[d] = answer[d] /\ strikes'[d] = strikes[d] /\ (d \in unread' <=> d \in unread)
      BY <1>0, <2>1, <2>2, <2>3
    <3> QED
      BY <1>0, <2>1, <3>1, <3>2, NotConcerned
  <2>4. VerdictOf(c)'
    <3>1. strikes'[c] = 0 /\ answer'[c] \in {"none", "memory"} /\ req[c].stage = "idle" /\ call[c].kind = "look"
      BY <1>0, <2>1, <2>2 DEF VerdictOf, CallAt
    <3>2. CASE call' = call /\ req' = req
      BY <1>0, <2>1, <3>1, <3>2 DEF VerdictOf, Trusted, CallAt
    <3>3. CASE /\ kind = "chat" /\ call' = [call EXCEPT ![c] = [NoCall EXCEPT !.kind = kind, !.stage = "asking"]]
               /\ \E m \in Listed : req' = [req EXCEPT ![c] = Sent(MaxRetries, m)]
      <4>1. MaxRetries \in 0..MaxRetries
        OBVIOUS
      <4>2. req'[c].stage = "sent" /\ req'[c].error = "none"
        BY <1>0, <3>3, <4>1, SentState
      <4>3. call'[c].kind = "chat" /\ call'[c].stage = "asking"
        BY <1>0, <3>3, CallsState
      <4> QED
        BY <2>1, <3>1, <4>2, <4>3 DEF VerdictOf, Trusted, CallAt
    <3>4. CASE /\ call' = [call EXCEPT ![c] = [NoCall EXCEPT !.kind = kind, !.stage = "listing"]] /\ req'[c] = req[c]
      <4>1. call'[c].stage = "listing" /\ ~call'[c].allowed /\ ~call'[c].forbidden
        BY <1>0, <3>4, CallsState
      <4> QED
        BY <1>0, <2>1, <3>1, <3>4, <4>1 DEF VerdictOf, Trusted, CallAt
    <3> QED
      BY <1>0, <2>2, <3>2, <3>3, <3>4
  <2> QED
    BY <2>3, <2>4 DEF VerdictInv
<1>4. ASSUME NEW c \in Callers, FallBack(c) PROVE VerdictInv'
  <2>1. PICK a \in {"unknown", "stale", "error"} : Ended(c, a)
    BY <1>4 DEF FallBack
  <2>2. /\ req'[c] = NoRequest /\ call'[c] = NoCall /\ answer'[c] \in {"unknown", "stale", "error"}
        /\ \A d \in Callers \ {c} : req'[d] = req[d] /\ call'[d] = call[d] /\ answer'[d] = answer[d]
        /\ gateway' = gateway /\ strikes' = strikes /\ unread' = unread
    BY <1>0, <1>4, <2>1 DEF Ended, FallBack, history
  <2>3. VerdictOf(c)'
    BY <1>0, <2>2 DEF VerdictOf, Trusted
  <2>4. ASSUME NEW d \in Callers \ {c} PROVE VerdictOf(d)'
    BY <1>0, <2>2, NotConcerned
  <2> QED
    BY <2>3, <2>4 DEF VerdictInv
<1>5. ASSUME NEW c \in Callers, Abort(c) PROVE VerdictInv'
  <2>1. gateway' = gateway /\ strikes' = strikes /\ unread' = unread /\ call[c].kind = "chat"
    BY <1>5 DEF Abort, history
  <2>2. CASE RequestOver(c, "aborted")
    <3>1. "aborted" \in Codes
      BY DEF Codes
    <3>2. VerdictOf(c)'
      BY <1>2, <2>1, <2>2, <3>1
    <3>3. ASSUME NEW d \in Callers, d # c PROVE VerdictOf(d)'
      BY <1>0, <1>1, <2>1, <2>2, <3>1, <3>3
    <3> QED
      BY <3>2, <3>3 DEF VerdictInv
  <2>3. CASE UNCHANGED <<req, call, answer, registry>>
    BY <1>0, <2>1, <2>3, NotConcerned DEF VerdictInv
  <2> QED
    BY <1>5, <2>2, <2>3 DEF Abort
<1>6. ASSUME NEW r \in Requests, Reply(r) PROVE VerdictInv'
  <2>1. PICK status \in Replies(r) :
           /\ req' = [req EXCEPT ![r].stage = IF status = "ok" THEN "body" ELSE "refused",
                                 ![r].error = IF status = "ok" THEN "none" ELSE status]
           /\ strikes' = IF status \in {"auth", "dead"} THEN [strikes EXCEPT ![r] = @ + 1] ELSE strikes
    BY <1>6 DEF Reply
  <2>2. gateway' = gateway /\ call' = call /\ answer' = answer /\ unread' = unread /\ req[r].stage = "sent"
    BY <1>6 DEF Reply
  <2>3. ASSUME NEW c \in Callers, c # r PROVE VerdictOf(c)'
    BY <1>0, <2>1, <2>2, <2>3, NotConcerned
  <2>4. ASSUME r \in Callers PROVE VerdictOf(r)'
    <3>1. ~gateway.works => status \in {"auth", "dead", "unavailable"}
      BY <1>0, <2>1, <2>4 DEF Replies
    <3>2. gateway.works => status \notin {"auth", "dead"}
      BY <1>0, <2>1, <2>4 DEF Replies, Statuses
    <3>3. /\ req'[r].stage = IF status = "ok" THEN "body" ELSE "refused"
          /\ req'[r].error = IF status = "ok" THEN "none" ELSE status
      BY <1>0, <2>1, <2>4 DEF RequestStates
    <3>4. strikes'[r] = IF status \in {"auth", "dead"} THEN strikes[r] + 1 ELSE strikes[r]
      BY <1>0, <2>1, <2>4
    <3>5. VerdictOf(r)
      BY <1>0, <2>4
    <3>6. r \notin unread' => Trusted(r)'
      BY <2>2, <3>1, <3>3, <3>4, <3>5 DEF VerdictOf, Trusted
    <3> QED
      BY <2>2, <3>1, <3>2, <3>3, <3>5, <3>6 DEF VerdictOf, CallAt
  <2> QED
    BY <2>3, <2>4 DEF VerdictInv
<1>14. ASSUME NEW r \in Requests, NEW error \in Errors, Throws(r, error), gateway' = gateway, strikes' = strikes,
              unread' \in {unread, unread \cup {r}},
              r \in Callers =>
                  /\ req[r].stage # "idle"
                  /\ ~gateway.works => error \in {"auth", "dead", "unavailable", "closed"}
                  /\ gateway.works => error \notin {"auth", "dead"}
                  /\ r \notin unread' => /\ r \notin unread
                                         /\ ~gateway.works => error # "closed"
                                         /\ call[r].kind = "validate" /\ strikes[r] # 0 => error \in {"auth", "dead"}
       PROVE  VerdictInv'
  <2>0. error \in Codes /\ "aborted" \in Codes /\ {"auth", "dead"} \cap Retryable = {}
    BY DEF Codes, Retryable
  <2>1. CASE error \in Retryable /\ req' = [req EXCEPT ![r].stage = "asleep", ![r].error = "none"] /\ UNCHANGED <<registry, call, answer>>
    <3>1. ASSUME NEW c \in Callers, c # r PROVE VerdictOf(c)'
      <4>1. req'[c] = req[c] /\ (c \in unread' <=> c \in unread)
        BY <1>0, <1>14, <2>1, <3>1
      <4> QED
        BY <1>0, <1>14, <2>1, <4>1, NotConcerned
    <3>2. ASSUME r \in Callers PROVE VerdictOf(r)'
      <4>1. req'[r].stage = "asleep" /\ req'[r].error = "none" /\ req[r].stage # "idle"
        BY <1>0, <1>14, <2>1, <3>2 DEF RequestStates
      <4>2. call' = call /\ answer' = answer /\ VerdictOf(r)
        BY <1>0, <2>1, <3>2
      <4>3. r \notin unread' => Trusted(r)'
        BY <1>14, <2>0, <2>1, <3>2, <4>1, <4>2 DEF VerdictOf, Trusted
      <4> QED
        BY <1>14, <4>1, <4>2, <4>3 DEF VerdictOf, CallAt
    <3> QED
      BY <3>1, <3>2 DEF VerdictInv
  <2>2. ASSUME NEW code \in Codes, RequestOver(r, code), code = error \/ (code = "aborted" /\ error \in Retryable)
        PROVE  VerdictInv'
    <3>1. ASSUME NEW c \in Callers, c # r PROVE VerdictOf(c)'
      BY <1>1, <1>14, <2>2, <3>1
    <3>2. ASSUME r \in Callers PROVE VerdictOf(r)'
      <4>1. /\ ~gateway.works => code \in {"auth", "dead", "unavailable", "aborted", "closed"}
            /\ gateway.works => code \notin {"auth", "dead"}
            /\ r \notin unread' => /\ r \notin unread
                                   /\ ~gateway.works => code # "closed"
                                   /\ call[r].kind = "validate" /\ strikes[r] # 0 => code \in {"auth", "dead"}
        BY <1>14, <2>0, <2>2, <3>2
      <4> QED
        BY <1>2, <1>14, <2>2, <3>2, <4>1
    <3> QED
      BY <3>1, <3>2 DEF VerdictInv
  <2> QED
    BY <1>14, <2>0, <2>1, <2>2, ThrowsDoes
<1>7. ASSUME NEW r \in Requests, NoReply(r) PROVE VerdictInv'
  <2>1. gateway' = gateway /\ strikes' = strikes /\ unread' = unread /\ req[r].stage = "sent"
    BY <1>7 DEF NoReply, history
  <2>2. r \in Callers /\ r \notin unread /\ call[r].kind = "validate" => strikes[r] = 0
    BY <1>0, <2>1 DEF VerdictOf, Trusted
  <2>3. CASE RequestOver(r, "aborted")
    <3>1. "aborted" \in Codes
      BY DEF Codes
    <3>2. ASSUME NEW c \in Callers, c # r PROVE VerdictOf(c)'
      BY <1>1, <2>1, <2>3, <3>1, <3>2
    <3>3. ASSUME r \in Callers PROVE VerdictOf(r)'
      BY <1>2, <2>1, <2>2, <2>3, <3>1, <3>3
    <3> QED
      BY <3>2, <3>3 DEF VerdictInv
  <2>4. CASE Throws(r, "unavailable")
    <3>1. "unavailable" \in Errors
      BY DEF Errors
    <3> QED
      BY <1>14, <2>1, <2>2, <2>4, <3>1
  <2> QED
    BY <1>7, <2>3, <2>4 DEF NoReply
<1>8. ASSUME NEW r \in Requests, ReadError(r) PROVE VerdictInv'
  <2>1. PICK read \in BOOLEAN : /\ Throws(r, Meant(req[r].error, read))
                                /\ unread' = IF read \/ r = "catalogue" THEN unread ELSE unread \cup {r}
    BY <1>8 DEF ReadError
  <2>2. gateway' = gateway /\ strikes' = strikes /\ req[r].stage = "refused" /\ req[r].error # "none"
    BY <1>8 DEF ReadError, CatalogueInv
  <2>3. Meant(req[r].error, read) \in Errors
    BY <1>0, <2>2 DEF Meant, Errors, RequestStates
  <2>4. ASSUME r \in Callers
        PROVE  /\ ~gateway.works => Meant(req[r].error, read) \in {"auth", "dead", "unavailable", "closed"}
               /\ gateway.works => Meant(req[r].error, read) \notin {"auth", "dead"}
               /\ r \notin unread' => /\ r \notin unread
                                      /\ ~gateway.works => Meant(req[r].error, read) # "closed"
                                      /\ call[r].kind = "validate" /\ strikes[r] # 0 => Meant(req[r].error, read) \in {"auth", "dead"}
    <3>1. VerdictOf(r) /\ r # "catalogue"
      BY <1>0, <2>4
    <3>2. /\ ~gateway.works => req[r].error \in {"auth", "dead", "unavailable"}
          /\ gateway.works => req[r].error \notin {"auth", "dead"}
          /\ r \notin unread' => r \notin unread /\ read = TRUE
          /\ r \notin unread /\ call[r].kind = "validate" /\ strikes[r] # 0 => req[r].error \in {"auth", "dead"}
      BY <2>1, <2>2, <2>4, <3>1 DEF VerdictOf, Trusted
    <3> QED
      BY <3>2 DEF Meant
  <2>5. unread' \in {unread, unread \cup {r}}
    BY <2>1
  <2> QED
    BY <1>14, <2>1, <2>2, <2>3, <2>4, <2>5
<1>9. ASSUME NEW r \in Requests, ReadBody(r) PROVE VerdictInv'
  <2>1. gateway' = gateway /\ strikes' = strikes /\ unread' = unread /\ req[r].stage = "body"
    BY <1>9 DEF ReadBody, history
  <2>2. PICK code \in {"ok", "unavailable", "aborted"} : RequestOver(r, code)
    BY <1>9 DEF ReadBody
  <2>3. code \in Codes
    BY DEF Codes, Errors
  <2>4. ASSUME NEW c \in Callers, c # r PROVE VerdictOf(c)'
    BY <1>1, <2>1, <2>2, <2>3, <2>4
  <2>5. ASSUME r \in Callers PROVE VerdictOf(r)'
    <3>1. gateway.works /\ (r \notin unread /\ call[r].kind = "validate" => strikes[r] = 0)
      BY <1>0, <2>1, <2>5 DEF VerdictOf, Trusted
    <3> QED
      BY <1>2, <2>1, <2>2, <2>3, <2>5, <3>1
  <2> QED
    BY <2>4, <2>5 DEF VerdictInv
<1>10. ASSUME NEW r \in Requests, Wake(r) PROVE VerdictInv'
  <2>1. /\ req' = [req EXCEPT ![r].stage = "sent", ![r].attempt = @ + 1] /\ req[r].stage = "asleep"
        /\ gateway' = gateway /\ call' = call /\ answer' = answer /\ unread' = unread /\ strikes' = strikes
    BY <1>10 DEF Wake, history
  <2>2. ASSUME NEW c \in Callers, c # r PROVE VerdictOf(c)'
    BY <1>0, <2>1, <2>2, NotConcerned
  <2>3. ASSUME r \in Callers PROVE VerdictOf(r)'
    <3>1. req'[r].stage = "sent" /\ req'[r].error = req[r].error
      BY <1>0, <2>1, <2>3 DEF RequestStates
    <3> QED
      BY <1>0, <2>1, <2>3, <3>1 DEF VerdictOf, Trusted, CallAt
  <2> QED
    BY <2>2, <2>3 DEF VerdictInv
<1>11. CASE Written
  <2>1. /\ gateway' = gateway /\ strikes' = strikes /\ unread' = unread
        /\ \A c \in Callers : Refreshed(c) \/ Walks(c)
    BY <1>11, DeliverDoes DEF Written, history
  <2> QED
    BY <1>0, <2>1, RefreshedKeeps, WalksKeeps DEF VerdictInv
<1>12. CASE Expire
  BY <1>0, <1>12, NotConcerned DEF Expire, history, VerdictInv
<1>13. CASE UNCHANGED catalogueVars
  BY <1>0, <1>13, NotConcerned DEF catalogueVars, history, VerdictInv
<1> QED
  BY <1>3, <1>4, <1>5, <1>6, <1>7, <1>8, <1>9, <1>10, <1>11, <1>12, <1>13 DEF CatalogueNext, Moves

\* hasaProvider.ts:107: what a validation says of a key is so, unless the body of a 403 was
\* lost.
THEOREM VerdictIsTrue == CatalogueSpec => []VerdictIsTrueUnlessUnread
<1>1. CatalogueInit => VerdictInv
  <2> SUFFICES ASSUME CatalogueInit, NEW c \in Callers PROVE VerdictOf(c)
    BY DEF VerdictInv
  <2>1. req[c] = NoRequest /\ call[c] = NoCall /\ answer[c] = "none" /\ strikes[c] = 0
    BY CallersAsk DEF CatalogueInit
  <2> QED
    BY <2>1, Nothing DEF VerdictOf, Trusted
<1>2. VerdictInv => VerdictIsTrueUnlessUnread
  BY DEF VerdictInv, VerdictOf, Trusted, VerdictIsTrueUnlessUnread
<1> QED
  BY <1>1, <1>2, VerdictStep, CatalogueIsSound, PTL DEF CatalogueSpec

-----------------------------------------------------------------------------
(* Measurements of models. *)

\* The operations that hold a provider, and those that wait for a report.
Holders == {"holding", "next", "loading", "seen", "probing", "joined", "saving"}
Owners == {"probing", "saving"}
Built == {p \in Providers : p <= built}

\* What an operation has at each stage.
Shape(c) ==
    /\ At(c, "idle") \/ At(c, "reading") \/ At(c, "read") => op[c].of = 0
    /\ At(c, "idle") \/ At(c, "reading") => op[c].got = 0
    /\ At(c, "read") => op[c].got # 0
    /\ op[c].stage \in Holders => op[c].of \in Built /\ op[c].got = 0
    /\ op[c].stage \in {"loading", "seen", "probing", "joined", "saving"} => op[c].model \in Models

MeasureInv == TypeOK /\ \A c \in Ops : Shape(c)

\* The key of everything that is used.
KeyRight ==
    /\ provider # 0 => cache[provider].key = key
    /\ choice \in {0, key}
    /\ \A c \in Ops : /\ op[c].got # 0 => op[c].got = key
                      /\ op[c].of # 0 => op[c].of = provider

KeyInv == "key" \notin crossed => KeyRight

\* A probe is somebody's, and nobody else's.
ProbeInv ==
    /\ \A c \in Ops : op[c].stage \in {"probing", "joined", "saving"} => op[c].model \in cache[op[c].of].probing
    /\ \A c, d \in Ops : op[c].stage \in Owners /\ op[d].stage \in Owners /\ op[c].of = op[d].of
                             /\ op[c].model = op[d].model => c = d

\* One provider for each key ever stored.
OneEach ==
    /\ key <= keys
    /\ \A p \in Built : cache[p].key \in 1..keys /\ (provider = 0 => cache[p].key # key)
    /\ \A p, q \in Built : cache[p].key = cache[q].key => p = q

\* a tells at least what b tells.
Extends(a, b) == \A m \in Models : b[m] # "none" => a[m] = b[m]

\* What a cache holds, as long as nothing was overtaken.
Sound(p) ==
    /\ cache[p].loaded => p \in Built
    /\ \A l \in loads : l[1] = p => p \in Built /\ l[2] = cache[p].generation /\ ~cache[p].loaded
    /\ cache[p].loaded /\ cache[p].key = file.key => Extends(cache[p].reports, file.reports)

\* What an operation knows of it.
Knows(c) ==
    /\ op[c].stage \in {"seen", "probing", "joined", "saving"} => cache[op[c].of].loaded
    /\ At(c, "seen") => op[c].found = cache[op[c].of].reports[op[c].model]
    /\ At(c, "saving") => /\ saves[c] = [key |-> cache[op[c].of].key, reports |-> cache[op[c].of].reports]
                          /\ \A d \in Ops : At(d, "saving") => d = c

DiskRight == OneEach /\ (\A p \in Providers : Sound(p)) /\ (\A c \in Ops : Knows(c))

DiskInv == crossed = {} => DiskRight

-----------------------------------------------------------------------------
\* What is not begun is well typed.
LEMMA StatesOfRest ==
  /\ Idle \in OpStates /\ Idle.stage = "idle" /\ Idle.of = 0 /\ Idle.got = 0
  /\ NoSave \in Contents
  /\ [key |-> 0, reports |-> Nobody] \in Contents
  /\ Nobody \in [Models -> Reports]
  /\ 0 \in 0..MaxKeys /\ 0 \in 0..MaxProviders /\ 0 \in 0..MaxVerifies /\ 0 \in 0..MaxStarts /\ 0 \in Generations
<1>1. 0 \in 0..MaxKeys /\ 0 \in 0..MaxProviders /\ 0 \in 0..MaxVerifies /\ 0 \in 0..MaxStarts /\ 0 \in Generations
  BY BoundsAssumption DEF Generations
<1>2. Nobody \in [Models -> Reports]
  BY DEF Nobody, Reports
<1>3. Idle \in OpStates /\ Idle.stage = "idle" /\ Idle.of = 0 /\ Idle.got = 0
  BY <1>1 DEF Idle, OpStates, Kinds, Stages, Reports
<1> QED
  BY <1>1, <1>2, <1>3 DEF NoSave, Contents

\* The steps of one operation: what becomes of it, field by field.
LEMMA BeginState ==
  ASSUME NEW kind \in Kinds, NEW p \in 0..MaxProviders
  PROVE  LET o == [Idle EXCEPT !.kind = kind, !.todo = Models, !.of = p, !.stage = IF p = 0 THEN "reading" ELSE "holding"]
         IN  o \in OpStates /\ o.stage = (IF p = 0 THEN "reading" ELSE "holding") /\ o.of = p /\ o.got = 0
BY StatesOfRest DEF Idle, OpStates, Kinds, Stages, Reports

\* An operation that turns to its next model.
LEMMA GoesState ==
  ASSUME NEW o \in OpStates
  PROVE  /\ Goes(o) \in OpStates /\ Goes(o).stage = "next" /\ Goes(o).of = o.of /\ Goes(o).got = o.got
BY StatesOfRest DEF Goes, OpStates, Stages, Reports

\* An operation that only changes its stage.
LEMMA BecomesState ==
  ASSUME op \in [Ops -> OpStates], NEW c \in Ops, NEW stage \in Stages, Becomes(c, stage)
  PROVE  /\ op' \in [Ops -> OpStates] /\ \A d \in Ops : d # c => op'[d] = op[d]
         /\ op'[c].stage = stage /\ op'[c].of = op[c].of /\ op'[c].got = op[c].got /\ op'[c].model = op[c].model
<1>1. op[c] \in OpStates
  OBVIOUS
<1>2. LET o == [op[c] EXCEPT !.stage = stage, !.found = "none", !.generation = 0]
      IN  o \in OpStates /\ o.stage = stage /\ o.of = op[c].of /\ o.got = op[c].got /\ o.model = op[c].model
  BY <1>1, StatesOfRest DEF OpStates, Reports
<1> QED
  BY <1>2 DEF Becomes

\* The invariant holds at first.
LEMMA InitMeasures == Init => MeasureInv
<1> SUFFICES ASSUME Init PROVE MeasureInv
  OBVIOUS
<1>1. TypeOK
  <2>1. [key |-> 0, reports |-> Nobody, loaded |-> FALSE, generation |-> 0, probing |-> {}] \in CacheStates
    BY StatesOfRest DEF CacheStates
  <2>2. cache \in [Providers -> CacheStates]
    BY <2>1 DEF Init
  <2>3. file \in Contents /\ saves \in [Ops -> Contents] /\ op \in [Ops -> OpStates]
    BY StatesOfRest DEF Init
  <2>4. loads = {} /\ crossed = {} /\ provider <= built
    BY DEF Init
  <2> QED
    BY <2>2, <2>3, <2>4, StatesOfRest DEF Init, TypeOK
<1>2. \A c \in Ops : Shape(c)
  BY StatesOfRest DEF Init, Shape, At, Holders
<1> QED
  BY <1>1, <1>2 DEF MeasureInv

\* What becomes of a cache: filled, emptied, and with another probe or one less.
LEMMA FilledState ==
  ASSUME NEW x \in CacheStates, NEW r \in [Models -> Reports]
  PROVE  LET y == [x EXCEPT !.reports = r, !.loaded = TRUE]
         IN  /\ y \in CacheStates /\ y.key = x.key /\ y.reports = r /\ y.loaded /\ y.generation = x.generation
             /\ y.probing = x.probing
BY DEF CacheStates

\* A cache that is emptied.
LEMMA ForgottenState ==
  ASSUME NEW p, cache[p] \in CacheStates
  PROVE  LET y == Forgotten(p)
         IN  /\ y \in CacheStates /\ y.key = cache[p].key /\ ~y.loaded /\ y.generation = cache[p].generation + 1
             /\ y.probing = cache[p].probing
<1> DEFINE x == cache[p]
<1>1. x \in CacheStates /\ x.generation + 1 \in Generations
  BY DEF CacheStates, Generations
<1> HIDE DEF x
<1>2. LET y == [x EXCEPT !.reports = Nobody, !.loaded = FALSE, !.generation = @ + 1]
      IN  /\ y \in CacheStates /\ y.key = x.key /\ ~y.loaded /\ y.generation = x.generation + 1
          /\ y.probing = x.probing
  BY <1>1, StatesOfRest DEF CacheStates
<1> QED
  BY <1>2 DEF Forgotten, x

\* A cache with other probes under way.
LEMMA ProbingState ==
  ASSUME NEW x \in CacheStates, NEW s \in SUBSET Models
  PROVE  LET y == [x EXCEPT !.probing = s]
         IN  /\ y \in CacheStates /\ y.key = x.key /\ y.reports = x.reports /\ y.loaded = x.loaded
             /\ y.generation = x.generation /\ y.probing = s
<1>1. CASE x.loaded = TRUE
  BY <1>1 DEF CacheStates
<1>2. CASE x.loaded = FALSE
  BY <1>2 DEF CacheStates
<1> QED
  BY <1>1, <1>2 DEF CacheStates

\* A cache that gets its key.
LEMMA KeyedState ==
  ASSUME NEW x \in CacheStates, NEW k \in 0..MaxKeys
  PROVE  LET y == [x EXCEPT !.key = k]
         IN  /\ y \in CacheStates /\ y.key = k /\ y.reports = x.reports /\ y.loaded = x.loaded
             /\ y.generation = x.generation /\ y.probing = x.probing
<1>1. CASE x.loaded = TRUE
  BY <1>1 DEF CacheStates
<1>2. CASE x.loaded = FALSE
  BY <1>2 DEF CacheStates
<1> QED
  BY <1>1, <1>2 DEF CacheStates

\* What a provider reads from the file is a set of reports.
LEMMA FileForState ==
  ASSUME file \in Contents, NEW k PROVE FileFor(k) \in [Models -> Reports]
BY StatesOfRest DEF Contents, FileFor

-----------------------------------------------------------------------------
\* The steps of an operation, and what they do to the caches.

\* What the beginning of an operation does.
LEMMA BeginDoes ==
  ASSUME MeasureInv, NEW c \in Ops, Begin(c)
  PROVE  /\ op' \in [Ops -> OpStates] /\ \A d \in Ops : d # c => op'[d] = op[d]
         /\ op'[c].got = 0 /\ op'[c].of = provider
         /\ \/ provider = 0 /\ op'[c].stage = "reading"
            \/ provider \in Built /\ op'[c].stage = "holding"
         /\ started' \in 0..MaxStarts /\ verifies' \in 0..MaxVerifies
<1> DEFINE o(kind) == [Idle EXCEPT !.kind = kind, !.todo = Models, !.of = provider,
                                   !.stage = IF provider = 0 THEN "reading" ELSE "holding"]
<1>1. provider \in 0..MaxProviders /\ op \in [Ops -> OpStates] /\ built \in 0..MaxProviders /\ provider <= built
  BY DEF MeasureInv, TypeOK
<1>2. PICK kind \in Kinds : op' = [op EXCEPT ![c] = o(kind)]
  BY DEF Begin
<1>3. /\ o(kind) \in OpStates /\ o(kind).stage = (IF provider = 0 THEN "reading" ELSE "holding")
      /\ o(kind).of = provider /\ o(kind).got = 0
  BY <1>1, BeginState
<1> HIDE DEF o
<1>4. /\ op' \in [Ops -> OpStates] /\ \A d \in Ops : d # c => op'[d] = op[d]
      /\ op'[c] = o(kind)
  BY <1>1, <1>2, <1>3
<1>5. provider # 0 => provider \in Built
  BY <1>1, BoundsAssumption DEF Built, Providers
<1>6. started' \in 0..MaxStarts /\ verifies' \in 0..MaxVerifies
  BY BoundsAssumption DEF Begin, MeasureInv, TypeOK
<1> QED
  BY <1>3, <1>4, <1>5, <1>6

\* What the answer of the secret store does.
LEMMA ReadKeyDoes ==
  ASSUME MeasureInv, NEW c \in Ops, ReadKey(c)
  PROVE  /\ op' \in [Ops -> OpStates] /\ \A d \in Ops : d # c => op'[d] = op[d]
         /\ \/ op'[c] = Idle
            \/ op'[c].stage = "read" /\ op'[c].of = 0 /\ op'[c].got = key /\ key # 0
<1>1. op \in [Ops -> OpStates] /\ key \in 0..MaxKeys /\ op[c].of = 0 /\ op[c] \in OpStates
  BY DEF MeasureInv, TypeOK, Shape, ReadKey
<1>2. CASE key = 0
  BY <1>1, <1>2, StatesOfRest DEF ReadKey
<1>3. CASE key # 0
  <2> DEFINE o == [op[c] EXCEPT !.stage = "read", !.got = key]
  <2>1. o \in OpStates /\ o.stage = "read" /\ o.of = 0 /\ o.got = key
    BY <1>1 DEF OpStates, Stages
  <2>2. op' = [op EXCEPT ![c] = o]
    BY <1>3 DEF ReadKey
  <2> HIDE DEF o
  <2> QED
    BY <1>1, <1>3, <2>1, <2>2
<1> QED
  BY <1>2, <1>3

\* What the building of a provider does.
LEMMA BuildDoes ==
  ASSUME MeasureInv, NEW c \in Ops, Build(c)
  PROVE  /\ op' \in [Ops -> OpStates] /\ \A d \in Ops : d # c => op'[d] = op[d]
         /\ op'[c].stage = "holding" /\ op'[c].of = built' /\ op'[c].got = 0 /\ op[c].got # 0 /\ op[c].of = 0
         /\ built' = built + 1 /\ built' \in 0..MaxProviders /\ built' \in Providers
         /\ cache' \in [Providers -> CacheStates] /\ \A p \in Providers : p # built' => cache'[p] = cache[p]
         /\ cache'[built'].key = op[c].got /\ cache'[built'].loaded = cache[built'].loaded
         /\ cache'[built'].reports = cache[built'].reports /\ cache'[built'].generation = cache[built'].generation
         /\ cache'[built'].probing = cache[built'].probing
<1>1. /\ op \in [Ops -> OpStates] /\ op[c] \in OpStates /\ op[c].got \in 0..MaxKeys
      /\ op[c].got # 0 /\ op[c].of = 0
      /\ cache \in [Providers -> CacheStates] /\ built \in 0..MaxProviders
  BY DEF MeasureInv, TypeOK, Shape, Build, OpStates
<1>2. built' = built + 1 /\ built' \in 0..MaxProviders /\ built' \in Providers
  BY <1>1, BoundsAssumption DEF Build, Providers
<1> DEFINE b == built'
           o == [op[c] EXCEPT !.stage = "holding", !.of = b, !.got = 0]
           x == [cache[b] EXCEPT !.key = op[c].got]
<1> HIDE DEF b
<1>3. o \in OpStates /\ o.stage = "holding" /\ o.of = b /\ o.got = 0
  BY <1>1, <1>2, StatesOfRest DEF OpStates, Stages, b
<1>4. /\ x \in CacheStates /\ x.key = op[c].got /\ x.reports = cache[b].reports /\ x.loaded = cache[b].loaded
      /\ x.generation = cache[b].generation /\ x.probing = cache[b].probing
  BY <1>1, <1>2, KeyedState DEF b
<1>5. op' = [op EXCEPT ![c] = o] /\ cache' = [cache EXCEPT ![b] = x]
  BY DEF Build, b
<1> HIDE DEF o, x
<1>6. cache'[b] = x /\ op'[c] = o
  BY <1>1, <1>2, <1>5 DEF b
<1> QED
  BY <1>1, <1>2, <1>3, <1>4, <1>5, <1>6 DEF b

\* What a verification does to the cache before it asks for anything.
LEMMA HoldDoes ==
  ASSUME MeasureInv, NEW c \in Ops, Hold(c)
  PROVE  /\ op' \in [Ops -> OpStates] /\ \A d \in Ops : d # c => op'[d] = op[d]
         /\ op'[c].stage = "next" /\ op'[c].of = op[c].of /\ op'[c].got = 0
         /\ op[c].of \in Built /\ cache' \in [Providers -> CacheStates]
         /\ \A p \in Providers : p # op[c].of => cache'[p] = cache[p]
         /\ \/ cache'[op[c].of] = cache[op[c].of] /\ UNCHANGED crossed
            \/ /\ cache'[op[c].of].key = cache[op[c].of].key /\ ~cache'[op[c].of].loaded
               /\ cache'[op[c].of].probing = cache[op[c].of].probing
               /\ crossed' = Crossed("cache", cache[op[c].of].probing # {} \/ \E l \in loads : l[1] = op[c].of)
<1>1. /\ op \in [Ops -> OpStates] /\ op[c].of \in Built /\ op[c].of \in Providers /\ op[c].got = 0
      /\ cache \in [Providers -> CacheStates] /\ cache[op[c].of] \in CacheStates /\ Becomes(c, "next")
  BY DEF MeasureInv, TypeOK, Shape, Hold, At, Holders, Built
<1> DEFINE p == op[c].of
<1> HIDE DEF p
<1>2. "next" \in Stages
  BY DEF Stages
<1>3. /\ op' \in [Ops -> OpStates] /\ \A d \in Ops : d # c => op'[d] = op[d]
      /\ op'[c].stage = "next" /\ op'[c].of = p /\ op'[c].got = 0
  BY <1>1, <1>2, BecomesState DEF p
<1>4. CASE UNCHANGED <<cache, crossed>>
  BY <1>1, <1>3, <1>4 DEF p
<1>5. CASE cache' = [cache EXCEPT ![p] = Forgotten(p)] /\ crossed' = Crossed("cache", cache[p].probing # {} \/ \E l \in loads : l[1] = p)
  <2>1. /\ Forgotten(p) \in CacheStates /\ Forgotten(p).key = cache[p].key /\ ~Forgotten(p).loaded
        /\ Forgotten(p).probing = cache[p].probing
    BY <1>1, ForgottenState DEF p
  <2>2. cache' \in [Providers -> CacheStates] /\ cache'[p] = Forgotten(p) /\ \A q \in Providers : q # p => cache'[q] = cache[q]
    BY <1>1, <1>5, <2>1 DEF p
  <2> QED
    BY <1>1, <1>3, <1>5, <2>1, <2>2 DEF p
<1> QED
  BY <1>4, <1>5 DEF Hold, p

\* The operation d waits for the load l.
Awaits(d, l) == At(d, "loading") /\ op[d].of = l[1] /\ op[d].generation = l[2]

\* What the end of a load does, to the cache and to those who wait for it.
LEMMA LoadDoes ==
  ASSUME MeasureInv, Load
  PROVE  \E l \in loads : LET p == l[1]
                              read == FileFor(cache[p].key)
         IN  /\ loads' = loads \ {l} /\ p \in Providers /\ read \in [Models -> Reports]
             /\ op' \in [Ops -> OpStates]
             /\ \A d \in Ops : ~Awaits(d, l) => op'[d] = op[d]
             /\ \A d \in Ops : Awaits(d, l) => /\ op'[d].stage = "seen" /\ op'[d].of = p /\ op'[d].got = op[d].got
                                               /\ op'[d].model = op[d].model /\ op'[d].found = read[op[d].model]
             /\ cache' \in [Providers -> CacheStates] /\ \A q \in Providers : q # p => cache'[q] = cache[q]
             /\ cache'[p].key = cache[p].key /\ cache'[p].probing = cache[p].probing
             /\ cache'[p].generation = cache[p].generation
             /\ \/ l[2] = cache[p].generation /\ cache'[p].reports = read /\ cache'[p].loaded
                \/ l[2] # cache[p].generation /\ cache'[p] = cache[p]
<1>1. /\ op \in [Ops -> OpStates] /\ cache \in [Providers -> CacheStates] /\ loads \subseteq Providers \X Generations
      /\ file \in Contents /\ 0 \in Generations
  BY StatesOfRest DEF MeasureInv, TypeOK
<1> DEFINE p(l) == l[1]
           read(l) == FileFor(cache[p(l)].key)
           o(d, l) == [op[d] EXCEPT !.stage = "seen", !.found = read(l)[op[d].model], !.generation = 0]
           x(l) == [cache[p(l)] EXCEPT !.reports = read(l), !.loaded = TRUE]
<1>2. PICK l \in loads :
        /\ loads' = loads \ {l}
        /\ cache' = IF l[2] = cache[p(l)].generation THEN [cache EXCEPT ![p(l)] = x(l)] ELSE cache
        /\ op' = [d \in Ops |-> IF Awaits(d, l) THEN o(d, l) ELSE op[d]]
  BY DEF Load, Awaits
<1>3. p(l) \in Providers /\ read(l) \in [Models -> Reports] /\ cache[p(l)] \in CacheStates
  BY <1>1, FileForState
<1> HIDE DEF p, read
<1>4. /\ x(l) \in CacheStates /\ x(l).key = cache[p(l)].key /\ x(l).reports = read(l) /\ x(l).loaded
      /\ x(l).probing = cache[p(l)].probing /\ x(l).generation = cache[p(l)].generation
  BY <1>3, FilledState
<1>5. ASSUME NEW d \in Ops, Awaits(d, l)
      PROVE  /\ o(d, l) \in OpStates /\ o(d, l).stage = "seen" /\ o(d, l).of = p(l) /\ o(d, l).got = op[d].got
             /\ o(d, l).model = op[d].model /\ o(d, l).found = read(l)[op[d].model]
  <2>1. op[d] \in OpStates /\ op[d].model \in Models /\ op[d].of = p(l)
    BY <1>1, <1>5 DEF Awaits, MeasureInv, Shape, At, p
  <2>2. read(l)[op[d].model] \in Reports
    BY <1>3, <2>1
  <2> QED
    BY <1>1, <2>1, <2>2 DEF OpStates, Stages
<1> HIDE DEF o, x
<1>6. /\ op' \in [Ops -> OpStates] /\ \A d \in Ops : ~Awaits(d, l) => op'[d] = op[d]
      /\ \A d \in Ops : Awaits(d, l) => op'[d] = o(d, l)
  BY <1>1, <1>2, <1>5
<1>7. /\ cache' \in [Providers -> CacheStates] /\ \A q \in Providers : q # p(l) => cache'[q] = cache[q]
      /\ \/ l[2] = cache[p(l)].generation /\ cache'[p(l)] = x(l)
         \/ l[2] # cache[p(l)].generation /\ cache'[p(l)] = cache[p(l)]
  BY <1>1, <1>2, <1>3, <1>4
<1> QED
  BY <1>2, <1>3, <1>4, <1>5, <1>6, <1>7 DEF p, read

\* What the turn to a model does.
LEMMA TakeDoes ==
  ASSUME MeasureInv, NEW c \in Ops, Take(c)
  PROVE  /\ op[c].of \in Built /\ op[c].of \in Providers
         /\ op' \in [Ops -> OpStates] /\ \A d \in Ops : d # c => op'[d] = op[d]
         /\ op'[c].of = op[c].of /\ op'[c].got = op[c].got /\ op'[c].model \in Models
         /\ \/ /\ cache[op[c].of].loaded /\ op'[c].stage = "seen" /\ loads' = loads
               /\ op'[c].found = cache[op[c].of].reports[op'[c].model]
            \/ /\ ~cache[op[c].of].loaded /\ op'[c].stage = "loading"
               /\ loads' = loads \cup {<<op[c].of, cache[op[c].of].generation>>}
<1>1. /\ op \in [Ops -> OpStates] /\ op[c].of \in Built /\ op[c].of \in Providers /\ op[c] \in OpStates
      /\ cache[op[c].of] \in CacheStates
  BY DEF MeasureInv, TypeOK, Shape, Take, At, Holders, Built
<1> DEFINE p == op[c].of
           o(m) == [op[c] EXCEPT !.model = m, !.todo = op[c].todo \ {m},
                                 !.generation = IF cache[p].loaded THEN 0 ELSE cache[p].generation,
                                 !.found = IF cache[p].loaded THEN cache[p].reports[m] ELSE "none",
                                 !.stage = IF cache[p].loaded THEN "seen" ELSE "loading"]
<1>2. PICK m \in op[c].todo : op' = [op EXCEPT ![c] = o(m)] /\ StartLoad(p)
  BY DEF Take
<1>3. m \in Models /\ cache[p].reports[m] \in Reports /\ cache[p].generation \in Generations
  BY <1>1 DEF OpStates, CacheStates
<1> HIDE DEF p
<1>4. CASE cache[p].loaded
  <2>1. /\ o(m) \in OpStates /\ o(m).of = op[c].of /\ o(m).got = op[c].got /\ o(m).model = m
        /\ o(m).stage = "seen" /\ o(m).found = cache[p].reports[m]
    BY <1>1, <1>3, <1>4, StatesOfRest DEF OpStates, Stages
  <2> HIDE DEF o
  <2> QED
    BY <1>1, <1>2, <1>3, <1>4, <2>1 DEF StartLoad, p
<1>5. CASE ~cache[p].loaded
  <2>1. /\ o(m) \in OpStates /\ o(m).of = op[c].of /\ o(m).got = op[c].got /\ o(m).model = m
        /\ o(m).stage = "loading"
    BY <1>1, <1>3, <1>5, StatesOfRest DEF OpStates, Stages, Reports
  <2> HIDE DEF o
  <2> QED
    BY <1>1, <1>2, <1>3, <1>5, <2>1 DEF StartLoad, p
<1> QED
  BY <1>4, <1>5

\* What ensure() does once it has the matrix.
LEMMA LookDoes ==
  ASSUME MeasureInv, NEW c \in Ops, Look(c)
  PROVE  /\ op[c].of \in Built /\ op[c].of \in Providers /\ op[c].model \in Models
         /\ op' \in [Ops -> OpStates] /\ \A d \in Ops : d # c => op'[d] = op[d]
         /\ op'[c].of = op[c].of /\ op'[c].got = op[c].got
         /\ cache' \in [Providers -> CacheStates] /\ \A q \in Providers : q # op[c].of => cache'[q] = cache[q]
         /\ \/ op'[c].stage = "next" /\ cache' = cache /\ op[c].found # "none"
            \/ /\ op'[c].stage = "joined" /\ cache' = cache /\ op[c].model \in cache[op[c].of].probing
               /\ op'[c].model = op[c].model
            \/ /\ op'[c].stage = "probing" /\ op[c].model \notin cache[op[c].of].probing /\ op[c].found = "none"
               /\ op'[c].model = op[c].model
               /\ cache'[op[c].of].probing = cache[op[c].of].probing \cup {op[c].model}
               /\ cache'[op[c].of].key = cache[op[c].of].key /\ cache'[op[c].of].reports = cache[op[c].of].reports
               /\ cache'[op[c].of].loaded = cache[op[c].of].loaded
               /\ cache'[op[c].of].generation = cache[op[c].of].generation
<1>1. /\ op \in [Ops -> OpStates] /\ op[c].of \in Built /\ op[c].of \in Providers /\ op[c] \in OpStates
      /\ op[c].model \in Models /\ cache \in [Providers -> CacheStates] /\ cache[op[c].of] \in CacheStates
      /\ cache[op[c].of].probing \in SUBSET Models /\ {"joined", "probing"} \subseteq Stages
  BY DEF MeasureInv, TypeOK, Shape, Look, At, Holders, Built, CacheStates, Stages
<1> DEFINE p == op[c].of
           m == op[c].model
           s == cache[p].probing \cup {m}
           x == [cache[p] EXCEPT !.probing = s]
<1> HIDE DEF p, m
<1>2. CASE op[c].found # "none" /\ op' = [op EXCEPT ![c] = Goes(op[c])] /\ UNCHANGED cache
  BY <1>1, <1>2, GoesState
<1>3. CASE op[c].found = "none" /\ m \in cache[p].probing /\ Becomes(c, "joined") /\ UNCHANGED cache
  BY <1>1, <1>3, BecomesState DEF p, m
<1>4. CASE op[c].found = "none" /\ m \notin cache[p].probing /\ cache' = [cache EXCEPT ![p] = x] /\ Becomes(c, "probing")
  <2>1. /\ op' \in [Ops -> OpStates] /\ \A d \in Ops : d # c => op'[d] = op[d]
        /\ op'[c].of = op[c].of /\ op'[c].got = op[c].got /\ op'[c].stage = "probing" /\ op'[c].model = m
    BY <1>1, <1>4, BecomesState DEF m
  <2>2. s \in SUBSET Models
    BY <1>1 DEF p, m
  <2> HIDE DEF s
  <2>3. /\ x \in CacheStates /\ x.key = cache[p].key /\ x.reports = cache[p].reports /\ x.loaded = cache[p].loaded
        /\ x.generation = cache[p].generation /\ x.probing = s
    BY <1>1, <2>2, ProbingState DEF p
  <2> HIDE DEF x
  <2>4. cache' \in [Providers -> CacheStates] /\ cache'[p] = x /\ \A q \in Providers : q # p => cache'[q] = cache[q]
    BY <1>1, <1>4, <2>3 DEF p
  <2> QED
    BY <1>1, <1>4, <2>1, <2>3, <2>4 DEF p, m, s
<1> QED
  BY <1>2, <1>3, <1>4 DEF Look, p, m

\* What the end of an operation does.
LEMMA FinishDoes ==
  ASSUME MeasureInv, NEW c \in Ops, Finish(c)
  PROVE  /\ op[c].of \in Built /\ op[c].of \in Providers
         /\ op' \in [Ops -> OpStates] /\ \A d \in Ops : d # c => op'[d] = op[d]
         /\ op'[c] = Idle /\ choice' \in {0, cache[op[c].of].key} /\ choice' \in 0..MaxKeys
<1>1. /\ op \in [Ops -> OpStates] /\ op[c].of \in Built /\ op[c].of \in Providers
      /\ cache[op[c].of] \in CacheStates /\ cache[op[c].of].key \in 0..MaxKeys
  BY DEF MeasureInv, TypeOK, Shape, Finish, At, Holders, Built, CacheStates
<1> QED
  BY <1>1, StatesOfRest DEF Finish

\* A report replaced, the others kept.
LEMMA MergedState ==
  ASSUME NEW p, cache[p] \in CacheStates, NEW m \in Models
  PROVE  /\ Merged(p, m, "told") \in [Models -> Reports] /\ Merged(p, m, "told")[m] = "told"
         /\ \A n \in Models : n # m => Merged(p, m, "told")[n] = cache[p].reports[n]
BY DEF Merged, CacheStates, Reports

\* What the end of a probe does.
LEMMA ProbedDoes ==
  ASSUME MeasureInv, NEW c \in Ops, Probed(c)
  PROVE  LET p == op[c].of
             reports == Merged(p, op[c].model, "told")
         IN  /\ p \in Built /\ p \in Providers /\ op[c].model \in Models /\ reports \in [Models -> Reports]
             /\ op' \in [Ops -> OpStates] /\ \A d \in Ops : d # c => op'[d] = op[d]
             /\ op'[c].of = p /\ op'[c].got = op[c].got /\ op'[c].stage = "saving" /\ op'[c].model = op[c].model
             /\ cache' \in [Providers -> CacheStates] /\ \A q \in Providers : q # p => cache'[q] = cache[q]
             /\ cache'[p].reports = reports /\ cache'[p].loaded /\ cache'[p].key = cache[p].key
             /\ cache'[p].generation = cache[p].generation /\ cache'[p].probing = cache[p].probing
             /\ saves' \in [Ops -> Contents] /\ \A d \in Ops : d # c => saves'[d] = saves[d]
             /\ saves'[c] = [key |-> cache[p].key, reports |-> reports]
<1>1. /\ op \in [Ops -> OpStates] /\ op[c].of \in Built /\ op[c].of \in Providers /\ op[c] \in OpStates
      /\ op[c].model \in Models /\ cache \in [Providers -> CacheStates] /\ cache[op[c].of] \in CacheStates
      /\ cache[op[c].of].key \in 0..MaxKeys /\ saves \in [Ops -> Contents] /\ "saving" \in Stages
  BY DEF MeasureInv, TypeOK, Shape, Probed, At, Holders, Built, CacheStates, Stages
<1> DEFINE p == op[c].of
           reports == Merged(p, op[c].model, "told")
           x == [cache[p] EXCEPT !.reports = reports, !.loaded = TRUE]
           w == [key |-> cache[p].key, reports |-> reports]
<1>2. cache' = [cache EXCEPT ![p] = x] /\ saves' = [saves EXCEPT ![c] = w] /\ Becomes(c, "saving")
  BY DEF Probed
<1>3. reports \in [Models -> Reports]
  BY <1>1, MergedState
<1> HIDE DEF p, reports
<1>4. /\ x \in CacheStates /\ x.key = cache[p].key /\ x.reports = reports /\ x.loaded
      /\ x.generation = cache[p].generation /\ x.probing = cache[p].probing
  BY <1>1, <1>3, FilledState DEF p
<1>5. w \in Contents
  BY <1>1, <1>3 DEF Contents, p
<1> HIDE DEF x
<1>6. cache' \in [Providers -> CacheStates] /\ cache'[p] = x /\ \A q \in Providers : q # p => cache'[q] = cache[q]
  BY <1>1, <1>2, <1>4 DEF p
<1>7. saves' \in [Ops -> Contents] /\ saves'[c] = w /\ \A d \in Ops : d # c => saves'[d] = saves[d]
  BY <1>1, <1>2, <1>5
<1>8. /\ op' \in [Ops -> OpStates] /\ \A d \in Ops : d # c => op'[d] = op[d]
      /\ op'[c].of = p /\ op'[c].got = op[c].got /\ op'[c].stage = "saving" /\ op'[c].model = op[c].model
  BY <1>1, <1>2, BecomesState DEF p
<1> QED
  BY <1>1, <1>3, <1>4, <1>6, <1>7, <1>8 DEF p, reports

\* What the end of an operation's probe does to those who wait.
LEMMA OverDoes ==
  ASSUME MeasureInv, NEW c \in Ops, op[c].stage \in Owners, Over(c)
  PROVE  LET p == op[c].of
         IN  /\ p \in Built /\ p \in Providers /\ op[c].model \in Models
             /\ op' \in [Ops -> OpStates]
             /\ \A d \in Ops : d \notin Released(c) => op'[d] = op[d]
             /\ \A d \in Released(c) : op'[d].stage = "next" /\ op'[d].of = op[d].of /\ op'[d].got = op[d].got
             /\ cache' \in [Providers -> CacheStates] /\ \A q \in Providers : q # p => cache'[q] = cache[q]
             /\ cache'[p].reports = cache[p].reports /\ cache'[p].loaded = cache[p].loaded
             /\ cache'[p].key = cache[p].key /\ cache'[p].generation = cache[p].generation
             /\ cache'[p].probing = cache[p].probing \ {op[c].model}
<1>1. /\ op \in [Ops -> OpStates] /\ op[c].of \in Built /\ op[c].of \in Providers /\ op[c] \in OpStates
      /\ op[c].model \in Models /\ cache \in [Providers -> CacheStates] /\ cache[op[c].of] \in CacheStates
      /\ cache[op[c].of].probing \in SUBSET Models
  BY DEF MeasureInv, TypeOK, Shape, Owners, At, Holders, Built, CacheStates
<1> DEFINE p == op[c].of
           s == cache[p].probing \ {op[c].model}
           x == [cache[p] EXCEPT !.probing = s]
<1>2. cache' = [cache EXCEPT ![p] = x] /\ op' = [d \in Ops |-> IF d \in Released(c) THEN Goes(op[d]) ELSE op[d]]
  BY DEF Over
<1> HIDE DEF p
<1>3. s \in SUBSET Models
  BY <1>1 DEF p
<1>4. /\ x \in CacheStates /\ x.key = cache[p].key /\ x.reports = cache[p].reports /\ x.loaded = cache[p].loaded
      /\ x.generation = cache[p].generation /\ x.probing = s
  BY <1>1, <1>3, ProbingState DEF p
<1> HIDE DEF s, x
<1>5. cache' \in [Providers -> CacheStates] /\ cache'[p] = x /\ \A q \in Providers : q # p => cache'[q] = cache[q]
  BY <1>1, <1>2, <1>4 DEF p
<1>6. /\ op' \in [Ops -> OpStates] /\ \A d \in Ops : d \notin Released(c) => op'[d] = op[d]
      /\ \A d \in Released(c) : op'[d].stage = "next" /\ op'[d].of = op[d].of /\ op'[d].got = op[d].got
  <2>1. \A d \in Ops : /\ Goes(op[d]) \in OpStates /\ Goes(op[d]).stage = "next" /\ Goes(op[d]).of = op[d].of
                       /\ Goes(op[d]).got = op[d].got
    BY <1>1, GoesState
  <2>2. Released(c) \subseteq Ops
    BY DEF Released
  <2> QED
    BY <1>1, <1>2, <2>1, <2>2
<1> QED
  BY <1>1, <1>4, <1>5, <1>6 DEF p, s

-----------------------------------------------------------------------------
\* The operations after a step: none has something its stage does not give it.

\* An operation the step does not concern.
LEMMA ShapeKept ==
  ASSUME NEW c \in Ops, Shape(c), op'[c] = op[c], built <= built', built \in Nat, built' \in Nat
  PROVE  Shape(c)'
BY DEF Shape, At, Built, Providers

\* The invariant is inductive: one step per action.
LEMMA MeasureInvStep ==
  ASSUME MeasureInv, [Next]_vars PROVE MeasureInv'
<1>0. TypeOK /\ built \in Nat /\ built <= built /\ \A c \in Ops : Shape(c)
  BY BoundsAssumption DEF MeasureInv, TypeOK
<1>1. CASE Rekey
  <2>1. key' \in 0..MaxKeys /\ keys' \in 0..MaxKeys /\ provider' = 0 /\ choice' = 0
    BY <1>0, <1>1, BoundsAssumption DEF TypeOK, Rekey, Reset
  <2>2. UNCHANGED <<caches, file, saves, op, bounds>> /\ crossed' \subseteq {"key", "cache", "file"}
    BY <1>0, <1>1 DEF TypeOK, Rekey, Crossed
  <2>3. TypeOK'
    BY <1>0, <2>1, <2>2, StatesOfRest DEF TypeOK, caches, bounds
  <2> QED
    BY <1>0, <2>2, <2>3, ShapeKept DEF MeasureInv, caches
<1>2. ASSUME NEW c \in Ops, Begin(c) PROVE MeasureInv'
  <2>1. UNCHANGED <<host, caches, file, saves, crossed>>
    BY <1>2 DEF Begin
  <2>2. TypeOK'
    BY <1>0, <1>2, <2>1, BeginDoes DEF TypeOK, host, caches
  <2>3. Shape(c)'
    BY <1>0, <1>2, <2>1, BeginDoes DEF Shape, At, Holders, Built, caches
  <2> QED
    BY <1>0, <1>2, <2>1, <2>2, <2>3, BeginDoes, ShapeKept DEF MeasureInv, caches
<1>3. ASSUME NEW c \in Ops, ReadKey(c) PROVE MeasureInv'
  <2>1. UNCHANGED <<host, caches, file, saves, bounds, crossed>>
    BY <1>3 DEF ReadKey
  <2>2. TypeOK'
    BY <1>0, <1>3, <2>1, ReadKeyDoes DEF TypeOK, host, caches, bounds
  <2>3. Shape(c)'
    BY <1>0, <1>3, <2>1, ReadKeyDoes, StatesOfRest DEF Shape, At, Holders
  <2> QED
    BY <1>0, <1>3, <2>1, <2>2, <2>3, ReadKeyDoes, ShapeKept DEF MeasureInv, caches
<1>4. ASSUME NEW c \in Ops, Build(c) PROVE MeasureInv'
  <2>1. UNCHANGED <<key, keys, choice, loads, file, saves, bounds>> /\ provider' = built'
    BY <1>4 DEF Build
  <2>2. crossed' \subseteq {"key", "cache", "file"}
    BY <1>0, <1>4 DEF Build, TypeOK, Crossed
  <2>3. built' = built + 1 /\ built' \in 0..MaxProviders /\ built' \in Providers
    BY <1>4, BuildDoes
  <2>4. TypeOK'
    BY <1>0, <1>4, <2>1, <2>2, <2>3, BuildDoes DEF TypeOK, bounds
  <2>5. Shape(c)'
    BY <1>4, <2>3, BuildDoes DEF Shape, At, Holders, Built, Providers
  <2>6. built <= built' /\ built' \in Nat
    BY <1>0, <2>3
  <2> QED
    BY <1>0, <1>4, <2>4, <2>5, <2>6, BuildDoes, ShapeKept DEF MeasureInv
<1>5. ASSUME NEW c \in Ops, Hold(c) PROVE MeasureInv'
  <2>1. UNCHANGED <<host, built, loads, file, saves, bounds>>
    BY <1>5 DEF Hold
  <2>2. crossed' \subseteq {"key", "cache", "file"}
    BY <1>0, <1>5 DEF Hold, TypeOK, Crossed
  <2>3. TypeOK'
    BY <1>0, <1>5, <2>1, <2>2, HoldDoes DEF TypeOK, host, bounds
  <2>4. Shape(c)'
    BY <1>5, <2>1, HoldDoes DEF Shape, At, Holders, Built
  <2> QED
    BY <1>0, <1>5, <2>1, <2>3, <2>4, HoldDoes, ShapeKept DEF MeasureInv
<1>6. CASE Glance
  <2>1. UNCHANGED <<host, cache, built, file, saves, op, bounds, crossed>>
    BY <1>6 DEF Glance
  <2>2. loads' \subseteq Providers \X Generations
    <3>1. provider \in Providers /\ cache[provider] \in CacheStates
      BY <1>0, <1>6, BoundsAssumption DEF TypeOK, Glance, Providers
    <3>2. cache[provider].generation \in Generations
      BY <3>1 DEF CacheStates
    <3> QED
      BY <1>0, <1>6, <3>1, <3>2 DEF Glance, StartLoad, TypeOK
  <2>3. TypeOK'
    BY <1>0, <2>1, <2>2 DEF TypeOK, host, bounds
  <2> QED
    BY <1>0, <2>1, <2>3, ShapeKept DEF MeasureInv
<1>7. CASE Load
  <2>1. UNCHANGED <<host, built, file, saves, bounds, crossed>>
    BY <1>7 DEF Load
  <2>2. PICK l \in loads :
          /\ loads' = loads \ {l}
          /\ op' \in [Ops -> OpStates] /\ cache' \in [Providers -> CacheStates]
          /\ \A d \in Ops : ~Awaits(d, l) => op'[d] = op[d]
          /\ \A d \in Ops : Awaits(d, l) => /\ op'[d].stage = "seen" /\ op'[d].of = op[d].of
                                            /\ op'[d].got = op[d].got /\ op'[d].model = op[d].model
    BY <1>7, LoadDoes DEF Awaits
  <2>3. TypeOK'
    BY <1>0, <2>1, <2>2 DEF TypeOK, host, bounds
  <2>4. ASSUME NEW d \in Ops, Awaits(d, l) PROVE Shape(d)'
    BY <1>0, <2>1, <2>2, <2>4 DEF Shape, At, Holders, Built, Awaits
  <2> QED
    BY <1>0, <2>1, <2>2, <2>3, <2>4, ShapeKept DEF MeasureInv
<1>8. ASSUME NEW c \in Ops, Take(c) PROVE MeasureInv'
  <2>1. UNCHANGED <<host, cache, built, file, saves, bounds, crossed>>
    BY <1>8 DEF Take
  <2>2. loads' \subseteq Providers \X Generations
    <3>1. op[c].of \in Providers /\ cache[op[c].of] \in CacheStates
      BY <1>0, <1>8, TakeDoes DEF TypeOK
    <3>2. cache[op[c].of].generation \in Generations
      BY <3>1 DEF CacheStates
    <3> QED
      BY <1>0, <1>8, <3>1, <3>2, TakeDoes DEF TypeOK
  <2>3. TypeOK'
    BY <1>0, <1>8, <2>1, <2>2, TakeDoes DEF TypeOK, host, bounds
  <2>4. Shape(c)'
    BY <1>0, <1>8, <2>1, TakeDoes DEF Shape, At, Holders, Built, Take
  <2> QED
    BY <1>0, <1>8, <2>1, <2>3, <2>4, TakeDoes, ShapeKept DEF MeasureInv
<1>9. ASSUME NEW c \in Ops, Finish(c) PROVE MeasureInv'
  <2>1. UNCHANGED <<key, keys, provider, caches, file, saves, bounds, crossed>>
    BY <1>9 DEF Finish
  <2>2. TypeOK'
    BY <1>0, <1>9, <2>1, FinishDoes DEF TypeOK, caches, bounds
  <2>3. Shape(c)'
    BY <1>9, <2>1, FinishDoes, StatesOfRest DEF Shape, At, Holders
  <2> QED
    BY <1>0, <1>9, <2>1, <2>2, <2>3, FinishDoes, ShapeKept DEF MeasureInv, caches
<1>10. ASSUME NEW c \in Ops, Look(c) PROVE MeasureInv'
  <2>1. UNCHANGED <<host, built, loads, file, saves, bounds, crossed>>
    BY <1>10 DEF Look
  <2>2. TypeOK'
    BY <1>0, <1>10, <2>1, LookDoes DEF TypeOK, host, bounds
  <2>3. Shape(c)'
    BY <1>0, <1>10, <2>1, LookDoes DEF Shape, At, Holders, Built, Look
  <2> QED
    BY <1>0, <1>10, <2>1, <2>2, <2>3, LookDoes, ShapeKept DEF MeasureInv
<1>11. ASSUME NEW c \in Ops, Probed(c) PROVE MeasureInv'
  <2>1. UNCHANGED <<host, built, loads, file, bounds>>
    BY <1>11 DEF Probed
  <2>2. crossed' \subseteq {"key", "cache", "file"}
    BY <1>0, <1>11 DEF Probed, TypeOK, Crossed
  <2>3. TypeOK'
    <3>1. op' \in [Ops -> OpStates] /\ cache' \in [Providers -> CacheStates] /\ saves' \in [Ops -> Contents]
      BY <1>11, ProbedDoes
    <3> QED
      BY <1>0, <2>1, <2>2, <3>1 DEF TypeOK, host, bounds
  <2>4. Shape(c)'
    <3>1. /\ op[c].of \in Built /\ op[c].model \in Models /\ op'[c].of = op[c].of /\ op'[c].got = op[c].got
          /\ op'[c].stage = "saving" /\ op'[c].model = op[c].model
      BY <1>11, ProbedDoes
    <3>2. op[c].got = 0 /\ built' = built
      BY <1>0, <1>11, <2>1 DEF Shape, At, Holders, Probed
    <3> QED
      BY <3>1, <3>2 DEF Shape, At, Holders, Built
  <2> QED
    BY <1>0, <1>11, <2>1, <2>3, <2>4, ProbedDoes, ShapeKept DEF MeasureInv
<1>12. ASSUME NEW c \in Ops, op[c].stage \in Owners, Over(c), UNCHANGED <<host, built, loads, bounds, crossed>>,
              file' \in Contents, saves' \in [Ops -> Contents]
       PROVE  MeasureInv'
  <2>1. TypeOK'
    BY <1>0, <1>12, OverDoes DEF TypeOK, host, bounds
  <2>2. Released(c) \subseteq Ops /\ \A d \in Released(c) : op[d].stage \in {"probing", "joined", "saving"}
    BY <1>12 DEF Released, Owners, At
  <2>3. ASSUME NEW d \in Released(c) PROVE Shape(d)'
    BY <1>0, <1>12, <2>2, OverDoes DEF Shape, At, Holders, Built
  <2> QED
    BY <1>0, <1>12, <2>1, <2>2, <2>3, OverDoes, ShapeKept DEF MeasureInv
<1>13. ASSUME NEW c \in Ops, ProbeThrows(c) PROVE MeasureInv'
  <2>1. op[c].stage \in Owners /\ Over(c) /\ UNCHANGED <<host, built, loads, file, saves, bounds, crossed>>
    BY <1>13 DEF ProbeThrows, Owners, At
  <2> QED
    BY <1>0, <1>12, <2>1 DEF TypeOK
<1>14. ASSUME NEW c \in Ops, Saved(c) PROVE MeasureInv'
  <2>1. op[c].stage \in Owners /\ Over(c) /\ UNCHANGED <<host, built, loads, bounds, crossed>>
    BY <1>14 DEF Saved, Owners, At
  <2>2. file' \in Contents /\ saves' \in [Ops -> Contents]
    BY <1>0, <1>14, StatesOfRest DEF Saved, TypeOK
  <2> QED
    BY <1>12, <2>1, <2>2
<1>15. CASE UNCHANGED vars
  <2>1. TypeOK'
    BY <1>0, <1>15 DEF TypeOK, vars, host, caches, bounds
  <2> QED
    BY <1>0, <1>15, <2>1, ShapeKept DEF MeasureInv, vars, caches
<1> QED
  BY <1>1, <1>2, <1>3, <1>4, <1>5, <1>6, <1>7, <1>8, <1>9, <1>10, <1>11, <1>13, <1>14, <1>15 DEF Next, Resumed, Ends

(* What the spec keeps the code from using wrongly has its type.           *)
THEOREM MeasuresTypeCorrect == Spec => []TypeOK
<1>1. MeasureInv => TypeOK
  BY DEF MeasureInv
<1> QED
  BY <1>1, InitMeasures, MeasureInvStep, PTL DEF Spec

\* The invariant of the measurements holds in every reachable state.
THEOREM MeasuresShape == Spec => []MeasureInv
  BY InitMeasures, MeasureInvStep, PTL DEF Spec

-----------------------------------------------------------------------------
\* An operation that keeps its key and its provider, or has none any more.
LEMMA KeyKept ==
  ASSUME KeyRight, UNCHANGED <<key, provider>>, provider # 0 => cache'[provider].key = cache[provider].key, choice' \in {choice, 0, key},
         \A c \in Ops : /\ op'[c].got # 0 => op'[c].got = op[c].got \/ op'[c].got = key
                        /\ op'[c].of # 0 => op'[c].of = op[c].of \/ op'[c].of = provider
  PROVE  KeyRight'
BY DEF KeyRight

\* The invariant of the keys is inductive: one step per action.
LEMMA KeyStep ==
  ASSUME MeasureInv, KeyInv, [Next]_vars PROVE KeyInv'
<1> SUFFICES ASSUME "key" \notin crossed' PROVE KeyRight'
  BY DEF KeyInv
<1>0. /\ TypeOK /\ \A c \in Ops : Shape(c)
      /\ provider # 0 => provider \in Providers
      /\ cache \in [Providers -> CacheStates] /\ op \in [Ops -> OpStates]
      /\ \A c \in Ops : op[c].of \in Built => op[c].of \in Providers /\ op[c].of # 0
  BY BoundsAssumption DEF MeasureInv, TypeOK, Providers, Built
<1>1. CASE Rekey
  <2>1. Underway = {} /\ "key" \notin crossed /\ provider' = 0 /\ choice' = 0 /\ op' = op
    BY <1>1 DEF Rekey, Crossed, Reset
  <2>2. \A c \in Ops : op[c].of = 0 /\ op[c].got = 0
    BY <1>0, <2>1 DEF Underway, Shape, At
  <2> QED
    BY <2>1, <2>2 DEF KeyRight
<1>2. ASSUME NEW c \in Ops, Begin(c) PROVE KeyRight'
  <2>1. UNCHANGED <<host, caches, crossed>>
    BY <1>2 DEF Begin
  <2>2. op'[c].got = 0 /\ op'[c].of = provider /\ \A d \in Ops : d # c => op'[d] = op[d]
    BY <1>2, BeginDoes
  <2> QED
    BY <2>1, <2>2, KeyKept DEF KeyInv, host, caches
<1>3. ASSUME NEW c \in Ops, ReadKey(c) PROVE KeyRight'
  <2>1. UNCHANGED <<host, caches, crossed>>
    BY <1>3 DEF ReadKey
  <2>2. /\ op'[c].got = 0 \/ op'[c].got = key
        /\ op'[c].of = 0 /\ \A d \in Ops : d # c => op'[d] = op[d]
    BY <1>3, ReadKeyDoes, StatesOfRest
  <2> QED
    BY <2>1, <2>2, KeyKept DEF KeyInv, host, caches
<1>4. ASSUME NEW c \in Ops, Build(c) PROVE KeyRight'
  <2>1. UNCHANGED <<key, choice>> /\ provider' = built' /\ provider = 0 /\ op[c].got = key /\ "key" \notin crossed
    BY <1>4 DEF Build, Crossed
  <2>2. \A d \in Ops : op[d].of = 0
    BY <2>1 DEF KeyInv, KeyRight
  <2>3. /\ \A d \in Ops : d # c => op'[d] = op[d]
        /\ op'[c].of = built' /\ op'[c].got = 0 /\ cache'[built'].key = op[c].got
    BY <1>4, BuildDoes
  <2> QED
    BY <2>1, <2>2, <2>3 DEF KeyInv, KeyRight
<1>5. ASSUME NEW c \in Ops, Hold(c) PROVE KeyRight'
  <2>1. UNCHANGED host /\ crossed \subseteq crossed'
    BY <1>5 DEF Hold, Crossed
  <2>2. \A p \in Providers : cache'[p].key = cache[p].key
    BY <1>5, HoldDoes
  <2>3. op'[c].of = op[c].of /\ op'[c].got = 0 /\ \A d \in Ops : d # c => op'[d] = op[d]
    BY <1>5, HoldDoes
  <2> QED
    BY <1>0, <2>1, <2>2, <2>3, KeyKept DEF KeyInv, host
<1>6. CASE Glance
  BY <1>6, KeyKept DEF Glance, KeyInv, host
<1>7. CASE Load
  <2>1. UNCHANGED <<host, crossed>>
    BY <1>7 DEF Load
  <2>2. PICK l \in loads :
          /\ \A q \in Providers : cache'[q].key = cache[q].key
          /\ \A d \in Ops : op'[d].of = op[d].of /\ op'[d].got = op[d].got
    BY <1>7, LoadDoes DEF Awaits
  <2> QED
    BY <1>0, <2>1, <2>2, KeyKept DEF KeyInv, host
<1>8. ASSUME NEW c \in Ops, Take(c) PROVE KeyRight'
  BY <1>8, TakeDoes, KeyKept DEF Take, KeyInv, host
<1>9. ASSUME NEW c \in Ops, Finish(c) PROVE KeyRight'
  <2>1. UNCHANGED <<key, provider, caches, crossed>> /\ KeyRight
    BY <1>9 DEF Finish, KeyInv
  <2>2. op[c].of = provider
    BY <1>0, <1>9, <2>1, FinishDoes DEF KeyRight
  <2>3. choice' \in {0, key}
    BY <1>0, <1>9, <2>1, <2>2, FinishDoes DEF KeyRight
  <2>4. op'[c].of = 0 /\ op'[c].got = 0 /\ \A d \in Ops : d # c => op'[d] = op[d]
    BY <1>9, FinishDoes, StatesOfRest
  <2> QED
    BY <2>1, <2>3, <2>4, KeyKept DEF caches
<1>10. ASSUME NEW c \in Ops, Look(c) PROVE KeyRight'
  <2>1. UNCHANGED <<host, crossed>>
    BY <1>10 DEF Look
  <2>2. \A q \in Providers : cache'[q].key = cache[q].key
    BY <1>10, LookDoes
  <2>3. \A d \in Ops : op'[d].of = op[d].of /\ op'[d].got = op[d].got
    BY <1>10, LookDoes
  <2> QED
    BY <1>0, <2>1, <2>2, <2>3, KeyKept DEF KeyInv, host
<1>11. ASSUME NEW c \in Ops, Probed(c) PROVE KeyRight'
  <2>1. UNCHANGED host /\ crossed \subseteq crossed'
    BY <1>11 DEF Probed, Crossed
  <2>2. \A q \in Providers : cache'[q].key = cache[q].key
    BY <1>11, ProbedDoes
  <2>3. \A d \in Ops : op'[d].of = op[d].of /\ op'[d].got = op[d].got
    BY <1>11, ProbedDoes
  <2> QED
    BY <1>0, <2>1, <2>2, <2>3, KeyKept DEF KeyInv, host
<1>12. ASSUME NEW c \in Ops, ProbeThrows(c) \/ Saved(c) PROVE KeyRight'
  <2>1. op[c].stage \in Owners /\ Over(c) /\ UNCHANGED <<host, crossed>>
    BY <1>12 DEF ProbeThrows, Saved, Owners, At
  <2>2. \A q \in Providers : cache'[q].key = cache[q].key
    BY <2>1, OverDoes
  <2>3. \A d \in Ops : op'[d].of = op[d].of /\ op'[d].got = op[d].got
    BY <2>1, OverDoes
  <2> QED
    BY <1>0, <2>1, <2>2, <2>3, KeyKept DEF KeyInv, host
<1>13. CASE UNCHANGED vars
  BY <1>13, KeyKept DEF vars, host, caches, KeyInv
<1> QED
  BY <1>1, <1>2, <1>3, <1>4, <1>5, <1>6, <1>7, <1>8, <1>9, <1>10, <1>11, <1>12, <1>13 DEF Next, Resumed, Ends

(* agentHost.ts:384: the provider and the choice belong to the stored key. *)
THEOREM KeyInForce == Spec => []KeyInForceUnlessOvertaken
<1>1. Init => KeyInv
  BY StatesOfRest DEF Init, KeyInv, KeyRight
<1>2. KeyInv => KeyInForceUnlessOvertaken
  BY DEF KeyInv, KeyRight, KeyInForceUnlessOvertaken
<1> QED
  BY <1>1, <1>2, KeyStep, MeasuresShape, PTL DEF Spec

-----------------------------------------------------------------------------
\* Nothing here is begun or ended: every probe stays where it is.
LEMMA ProbesKept ==
  ASSUME MeasureInv, ProbeInv, \A p \in Built : cache[p].probing \subseteq cache'[p].probing,
         \A c \in Ops : op'[c].stage \in {"probing", "joined", "saving"} =>
             /\ op[c].stage \in {"probing", "joined", "saving"} /\ op'[c].of = op[c].of /\ op'[c].model = op[c].model
             /\ op'[c].stage \in Owners => op[c].stage \in Owners
  PROVE  ProbeInv'
<1>1. \A c \in Ops : op[c].stage \in {"probing", "joined", "saving"} => op[c].of \in Built
  BY DEF MeasureInv, Shape, Holders
<1>2. ASSUME NEW c \in Ops, op'[c].stage \in {"probing", "joined", "saving"}
      PROVE  op'[c].model \in cache'[op'[c].of].probing
  BY <1>1, <1>2 DEF ProbeInv
<1>3. ASSUME NEW c \in Ops, NEW d \in Ops, op'[c].stage \in Owners, op'[d].stage \in Owners,
             op'[c].of = op'[d].of, op'[c].model = op'[d].model
      PROVE  c = d
  BY <1>3 DEF ProbeInv, Owners
<1> QED
  BY <1>2, <1>3 DEF ProbeInv

\* The invariant of the probes is inductive: one step per action.
LEMMA ProbeStep ==
  ASSUME MeasureInv, ProbeInv, [Next]_vars PROVE ProbeInv'
<1>0. /\ \A c \in Ops : Shape(c)
      /\ \A p \in Built : p \in Providers
      /\ \A c \in Ops : op[c].stage \in {"probing", "joined", "saving"} => op[c].of \in Built
      /\ built \in 0..MaxProviders
  BY DEF MeasureInv, TypeOK, Built, Shape, Holders
<1>1. CASE UNCHANGED <<cache, op>>
  BY <1>1, ProbesKept
<1>2. ASSUME NEW c \in Ops, Begin(c) \/ ReadKey(c) \/ Take(c) \/ Finish(c) PROVE ProbeInv'
  <2>1. cache' = cache
    BY <1>2 DEF Begin, ReadKey, Take, Finish, caches
  <2>2. op'[c].stage \notin {"probing", "joined", "saving"} /\ \A d \in Ops : d # c => op'[d] = op[d]
    BY <1>2, BeginDoes, ReadKeyDoes, TakeDoes, FinishDoes, StatesOfRest
  <2> QED
    BY <2>1, <2>2, ProbesKept
<1>3. ASSUME NEW c \in Ops, Build(c) PROVE ProbeInv'
  <2>1. op'[c].stage = "holding" /\ \A d \in Ops : d # c => op'[d] = op[d]
    BY <1>3, BuildDoes
  <2>2. \A p \in Built : cache'[p].probing = cache[p].probing
    BY <1>0, <1>3, BuildDoes
  <2> QED
    BY <2>1, <2>2, ProbesKept
<1>4. ASSUME NEW c \in Ops, Hold(c) PROVE ProbeInv'
  <2>1. op'[c].stage = "next" /\ \A d \in Ops : d # c => op'[d] = op[d]
    BY <1>4, HoldDoes
  <2>2. \A p \in Built : cache'[p].probing = cache[p].probing
    BY <1>0, <1>4, HoldDoes
  <2> QED
    BY <2>1, <2>2, ProbesKept
<1>5. CASE Load
  <2>1. PICK l \in loads :
          /\ \A q \in Providers : cache'[q].probing = cache[q].probing
          /\ \A d \in Ops : op'[d] = op[d] \/ op'[d].stage = "seen"
    BY <1>5, LoadDoes
  <2>2. \A p \in Built : cache[p].probing \subseteq cache'[p].probing
    BY <1>0, <2>1
  <2> QED
    BY <2>1, <2>2, ProbesKept
<1>6. ASSUME NEW c \in Ops, Look(c) PROVE ProbeInv'
  <2> DEFINE p == op[c].of
             m == op[c].model
  <2>1. /\ \A d \in Ops : d # c => op'[d] = op[d]
        /\ op'[c].of = p /\ p \in Built /\ \A q \in Providers : q # p => cache'[q] = cache[q]
        /\ \/ op'[c].stage = "next" /\ cache' = cache
           \/ op'[c].stage = "joined" /\ cache' = cache /\ m \in cache[p].probing /\ op'[c].model = m
           \/ /\ op'[c].stage = "probing" /\ m \notin cache[p].probing /\ op'[c].model = m
              /\ cache'[p].probing = cache[p].probing \cup {m}
    BY <1>6, LookDoes
  <2>2. CASE op'[c].stage = "next" /\ cache' = cache
    BY <2>1, <2>2, ProbesKept
  <2>3. CASE op'[c].stage = "joined" /\ cache' = cache /\ m \in cache[p].probing /\ op'[c].model = m
    BY <2>1, <2>3 DEF ProbeInv, Owners
  <2>4. CASE op'[c].stage = "probing" /\ m \notin cache[p].probing /\ op'[c].model = m /\ cache'[p].probing = cache[p].probing \cup {m}
    <3>1. \A d \in Ops \ {c} : op'[d].stage \in {"probing", "joined", "saving"} =>
            /\ op[d].stage \in {"probing", "joined", "saving"} /\ op[d].of \in Providers /\ op[d].model \in cache[op[d].of].probing
            /\ ~(op'[d].of = p /\ op'[d].model = m)
      BY <1>0, <2>1, <2>4 DEF ProbeInv
    <3>2. \A q \in Providers : cache[q].probing \subseteq cache'[q].probing
      BY <2>1, <2>4
    <3>3. \A d \in Ops : op'[d].stage \in {"probing", "joined", "saving"} => op'[d].model \in cache'[op'[d].of].probing
      BY <2>1, <2>4, <3>1, <3>2
    <3>4. ASSUME NEW d \in Ops, NEW e \in Ops, op'[d].stage \in Owners, op'[e].stage \in Owners,
                 op'[d].of = op'[e].of, op'[d].model = op'[e].model
          PROVE  d = e
      BY <2>1, <2>4, <3>1, <3>4 DEF ProbeInv, Owners
    <3> QED
      BY <3>3, <3>4 DEF ProbeInv
  <2> QED
    BY <2>1, <2>2, <2>3, <2>4
<1>7. ASSUME NEW c \in Ops, Probed(c) PROVE ProbeInv'
  <2>1. /\ op[c].stage = "probing" /\ \A d \in Ops : d # c => op'[d] = op[d]
        /\ op'[c].of = op[c].of /\ op'[c].model = op[c].model /\ op'[c].stage = "saving"
    BY <1>7, ProbedDoes DEF Probed, At
  <2>2. \A p \in Built : cache'[p].probing = cache[p].probing
    BY <1>0, <1>7, ProbedDoes
  <2> QED
    BY <2>1, <2>2, ProbesKept DEF Owners
<1>8. ASSUME NEW c \in Ops, ProbeThrows(c) \/ Saved(c) PROVE ProbeInv'
  <2> DEFINE p == op[c].of
             m == op[c].model
  <2>1. op[c].stage \in Owners /\ Over(c)
    BY <1>8 DEF ProbeThrows, Saved, Owners, At
  <2>2. /\ p \in Built /\ \A d \in Ops : d \notin Released(c) => op'[d] = op[d]
        /\ \A d \in Released(c) : op'[d].stage = "next"
        /\ \A q \in Providers : q # p => cache'[q] = cache[q]
        /\ cache'[p].probing = cache[p].probing \ {m}
    BY <2>1, OverDoes
  <2>3. ASSUME NEW d \in Ops, op'[d].stage \in {"probing", "joined", "saving"}
        PROVE  /\ op'[d] = op[d] /\ op[d].stage \in {"probing", "joined", "saving"}
               /\ op[d].of # p \/ op[d].model # m
    <3>1. op'[d] = op[d] /\ d \notin Released(c)
      BY <2>2, <2>3
    <3>2. d # c /\ ~(At(d, "joined") /\ op[d].of = p /\ op[d].model = m)
      BY <3>1 DEF Released
    <3> QED
      BY <2>1, <2>3, <3>1, <3>2 DEF ProbeInv, Owners, At
  <2>4. ASSUME NEW d \in Ops, op'[d].stage \in {"probing", "joined", "saving"}
        PROVE  op'[d].model \in cache'[op'[d].of].probing
    BY <1>0, <2>2, <2>3, <2>4 DEF ProbeInv
  <2>5. ASSUME NEW d \in Ops, NEW e \in Ops, op'[d].stage \in Owners, op'[e].stage \in Owners,
               op'[d].of = op'[e].of, op'[d].model = op'[e].model
        PROVE  d = e
    BY <2>3, <2>5 DEF ProbeInv, Owners
  <2> QED
    BY <2>4, <2>5 DEF ProbeInv
<1>9. Rekey \/ Glance \/ UNCHANGED vars => UNCHANGED <<cache, op>>
  BY DEF Rekey, Glance, vars, caches
<1> QED
  BY <1>1, <1>2, <1>3, <1>4, <1>5, <1>6, <1>7, <1>8, <1>9 DEF Next, Resumed, Ends

-----------------------------------------------------------------------------
Informed == {"seen", "probing", "joined", "saving"}

\* An operation that learns nothing, of a cache that stays.
LEMMA KnowsKept ==
  ASSUME NEW c \in Ops, Knows(c), \/ op'[c] = op[c] /\ cache'[op[c].of] = cache[op[c].of] /\ saves'[c] = saves[c]
                                  \/ op'[c].stage \notin Informed,
         \A d \in Ops \ {c} : op'[d].stage = "saving" => op[d].stage = "saving"
  PROVE  Knows(c)'
BY DEF Knows, At, Informed

\* A cache the step does not concern, over a file that stays.
LEMMA SoundKept ==
  ASSUME NEW p \in Providers, Sound(p), cache'[p] = cache[p], file' = file, \A l \in loads' : l[1] = p => l \in loads,
         p \in Built => p \in Built'
  PROVE  Sound(p)'
BY DEF Sound

\* Nobody stores a key or builds a provider.
LEMMA OneEachKept ==
  ASSUME OneEach, UNCHANGED <<key, keys, provider, built>>, \A p \in Built : cache'[p].key = cache[p].key
  PROVE  OneEach'
BY DEF OneEach, Built

\* The invariant of caches and file is inductive: one step per action.
LEMMA DiskStep ==
  ASSUME MeasureInv, ProbeInv, DiskInv, [Next]_vars PROVE DiskInv'
<1> USE DEF Informed
<1> SUFFICES ASSUME crossed' = {}
             PROVE  DiskRight'
  BY DEF DiskInv
<1>0. /\ TypeOK /\ cache \in [Providers -> CacheStates] /\ op \in [Ops -> OpStates] /\ loads \subseteq Providers \X Generations
      /\ \A c \in Ops : Shape(c)
      /\ \A p \in Built : p \in Providers /\ cache[p] \in CacheStates
      /\ \A c \in Ops : op[c].stage \in Informed \cup {"loading"} => op[c].of \in Built /\ op[c].model \in Models
      /\ built \in 0..MaxProviders
  BY DEF MeasureInv, TypeOK, Built, Shape, Holders
<1>a. crossed = {} /\ OneEach /\ (\A p \in Providers : Sound(p)) /\ \A c \in Ops : Knows(c)
  <2>1. [Next]_vars => crossed \subseteq crossed'
    BY DEF Next, vars, Resumed, Ends, Rekey, Begin, ReadKey, Build, Hold, Glance, Load, Take, Finish, Look, Probed,
           ProbeThrows, Saved, Crossed
  <2> QED
    BY <2>1 DEF DiskInv, DiskRight
<1>1. CASE Rekey
  <2>1. UNCHANGED <<cache, built, loads, file, saves, op>> /\ provider' = 0 /\ Built' = Built
    BY <1>1 DEF Rekey, Reset, caches, Built
  <2>2. key \in 0..MaxKeys /\ keys \in 0..MaxKeys
    BY <1>0 DEF TypeOK
  <2>3. \/ keys' = keys + 1 /\ key' = keys + 1
        \/ key' = 0 /\ keys' = keys
    BY <1>1 DEF Rekey
  <2>4. OneEach'
    <3>1. \A p \in Built : cache[p].key \in 1..keys
      BY <1>a DEF OneEach
    <3>2. \A p \in Built : cache[p].key \in 1..keys' /\ cache[p].key # key'
      BY <2>2, <2>3, <3>1
    <3>3. key' <= keys'
      BY <2>2, <2>3
    <3> QED
      BY <1>a, <2>1, <3>2, <3>3 DEF OneEach
  <2>5. \A p \in Providers : Sound(p)'
    BY <1>a, <2>1, SoundKept
  <2>6. \A c \in Ops : Knows(c)'
    BY <1>a, <2>1, KnowsKept
  <2> QED
    BY <2>4, <2>5, <2>6 DEF DiskRight
<1>2. ASSUME UNCHANGED <<key, keys, provider, cache, built, file, saves, loads>>,
             \A d \in Ops : op'[d] = op[d] \/ op'[d].stage \notin Informed
      PROVE  DiskRight'
  <2>1. OneEach' /\ Built' = Built
    BY <1>2, <1>a, OneEachKept DEF Built
  <2>2. \A p \in Providers : Sound(p)'
    BY <1>a, <1>2, <2>1, SoundKept
  <2>3. \A c \in Ops : Knows(c)'
    BY <1>a, <1>2, KnowsKept
  <2> QED
    BY <2>1, <2>2, <2>3 DEF DiskRight
<1>3. ASSUME NEW c \in Ops, Begin(c) \/ ReadKey(c) \/ Finish(c)
      PROVE  DiskRight'
  <2>1. UNCHANGED <<key, keys, provider, cache, built, file, saves, loads>>
    BY <1>3 DEF Begin, ReadKey, Finish, host, caches
  <2>2. op'[c].stage \notin Informed /\ \A d \in Ops : d # c => op'[d] = op[d]
    BY <1>3, BeginDoes, ReadKeyDoes, FinishDoes, StatesOfRest
  <2> QED
    BY <1>2, <2>1, <2>2
<1>4. ASSUME NEW c \in Ops, Build(c)
      PROVE  DiskRight'
  <2>1. /\ UNCHANGED <<key, keys, loads, file, saves>> /\ provider' = built' /\ provider = 0 /\ op[c].got = key
    BY <1>4 DEF Build, Crossed
  <2>2. /\ built' = built + 1 /\ built' \in Providers /\ key # 0
        /\ cache'[built'].key = key /\ \A p \in Built : cache'[p] = cache[p]
        /\ cache'[built'].loaded = cache[built'].loaded
    <3>1. \A p \in Built : p # built + 1
      BY <1>0 DEF Built, Providers
    <3> QED
      BY <1>0, <1>4, <2>1, <3>1, BuildDoes
  <2>3. Built' = Built \cup {built'} /\ built' \notin Built /\ provider' # 0
    BY <1>0, <2>1, <2>2, BoundsAssumption DEF Built, Providers
  <2>4. OneEach'
    <3>1. key \in 1..keys
      BY <1>0, <1>a, <2>2 DEF TypeOK, OneEach
    <3>2. \A p \in Built' : cache'[p].key \in 1..keys
      BY <1>a, <2>2, <2>3, <3>1 DEF OneEach
    <3>3. \A p, q \in Built' : cache'[p].key = cache'[q].key => p = q
      BY <1>a, <2>1, <2>2, <2>3 DEF OneEach
    <3> QED
      BY <1>a, <2>1, <2>3, <3>1, <3>2, <3>3 DEF OneEach
  <2>5. ASSUME NEW p \in Providers PROVE Sound(p)'
    <3>1. CASE p # built'
      <4>1. cache'[p] = cache[p] /\ Sound(p) /\ loads' = loads /\ file' = file
        BY <1>4, <1>a, <2>1, <3>1, BuildDoes
      <4> QED
        BY <2>3, <4>1, SoundKept
    <3>2. CASE p = built'
      <4>1. Sound(p) /\ p \notin Built
        BY <1>a, <2>3, <3>2
      <4>2. ~cache'[p].loaded /\ \A l \in loads' : l[1] # p
        BY <2>1, <2>2, <3>2, <4>1 DEF Sound
      <4> QED
        BY <4>2 DEF Sound
    <3> QED
      BY <3>1, <3>2
  <2>6. op'[c].stage = "holding" /\ \A d \in Ops : d # c => op'[d] = op[d]
    BY <1>4, BuildDoes
  <2>7. ASSUME NEW d \in Ops PROVE Knows(d)'
    <3>1. CASE d = c
      BY <1>a, <2>6, <3>1, KnowsKept
    <3>2. CASE op[d].stage \in Informed
      <4>1. d # c /\ cache'[op[d].of] = cache[op[d].of]
        BY <1>0, <1>4, <2>2, <3>2 DEF Build, At
      <4> QED
        BY <1>a, <2>1, <2>6, <4>1, KnowsKept
    <3>3. CASE op[d].stage \notin Informed /\ d # c
      BY <1>a, <2>6, <3>3, KnowsKept
    <3> QED
      BY <3>1, <3>2, <3>3
  <2> QED
    BY <2>4, <2>5, <2>7 DEF DiskRight

<1>5. ASSUME Quiet, NEW c \in Ops, Hold(c) PROVE DiskRight'
  <2> DEFINE p == op[c].of
  <2>1. /\ UNCHANGED <<key, keys, provider, built, loads, file, saves>> /\ p \in Built /\ p \in Providers
        /\ op'[c].stage = "next" /\ \A d \in Ops : d # c => op'[d] = op[d]
        /\ \A q \in Providers : q # p => cache'[q] = cache[q]
        /\ cache'[p].key = cache[p].key
    <3>1. UNCHANGED <<key, keys, provider, built, loads, file, saves>>
      BY <1>5 DEF Hold, host
    <3>2. /\ p \in Built /\ op'[c].stage = "next" /\ \A d \in Ops : d # c => op'[d] = op[d]
          /\ \A q \in Providers : q # p => cache'[q] = cache[q]
          /\ cache'[p].key = cache[p].key
      BY <1>5, HoldDoes
    <3> QED
      BY <1>0, <3>1, <3>2
  <2>2. \/ cache'[p] = cache[p]
        \/ ~cache'[p].loaded /\ cache[p].probing = {} /\ \A l \in loads : l[1] # p
    BY <1>5, HoldDoes DEF Crossed
  <2>3. OneEach' /\ Built' = Built
    BY <1>0, <1>a, <2>1, OneEachKept DEF Built
  <2>4. ASSUME NEW q \in Providers PROVE Sound(q)'
    <3>1. CASE cache'[q] = cache[q]
      BY <1>a, <2>1, <2>3, <3>1, SoundKept
    <3>2. CASE cache'[q] # cache[q]
      BY <2>1, <2>2, <3>2 DEF Sound
    <3> QED
      BY <3>1, <3>2
  <2>5. ASSUME NEW d \in Ops PROVE Knows(d)'
    <3>1. CASE op'[d].stage \notin Informed
      BY <1>a, <2>1, <3>1, KnowsKept
    <3>2. CASE op'[d].stage \in Informed
      <4>1. d # c /\ op'[d] = op[d] /\ op[d].of \in Built /\ op[d].of \in Providers /\ op[d].stage # "seen"
        BY <1>0, <1>5, <2>1, <3>2 DEF Quiet
      <4>2. op[d].of = p => cache[p].probing # {}
        BY <3>2, <4>1 DEF ProbeInv
      <4>3. cache'[op[d].of] = cache[op[d].of]
        BY <2>1, <2>2, <4>1, <4>2
      <4> QED
        BY <1>a, <2>1, <4>1, <4>3, KnowsKept
    <3> QED
      BY <3>1, <3>2
  <2> QED
    BY <2>3, <2>4, <2>5 DEF DiskRight
<1>6. ASSUME NEW p \in Built, ~cache[p].loaded, loads' = loads \cup {<<p, cache[p].generation>>},
             UNCHANGED <<key, keys, provider, cache, built, file, saves>>,
             \A d \in Ops : op'[d] = op[d] \/ op'[d].stage \notin Informed
      PROVE  DiskRight'
  <2>1. OneEach' /\ Built' = Built
    BY <1>a, <1>6, OneEachKept DEF Built
  <2>2. ASSUME NEW q \in Providers PROVE Sound(q)'
    BY <1>a, <1>6, <2>1 DEF Sound
  <2>3. \A d \in Ops : Knows(d)'
    BY <1>a, <1>6, KnowsKept
  <2> QED
    BY <2>1, <2>2, <2>3 DEF DiskRight
<1>7. CASE Glance
  <2>1. /\ provider \in Built /\ ~cache[provider].loaded /\ loads' = loads \cup {<<provider, cache[provider].generation>>}
        /\ UNCHANGED <<key, keys, provider, cache, built, file, saves, op>>
    BY <1>0, <1>7, BoundsAssumption DEF Glance, host, StartLoad, TypeOK, Built, Providers
  <2> QED
    BY <1>6, <2>1
<1>8. CASE Quiet /\ Load
  <2>0. PICK l \in loads : LET p == l[1]
                               read == FileFor(cache[p].key)
         IN  /\ loads' = loads \ {l} /\ p \in Providers /\ read \in [Models -> Reports]
             /\ op' \in [Ops -> OpStates]
             /\ \A d \in Ops : ~Awaits(d, l) => op'[d] = op[d]
             /\ \A d \in Ops : Awaits(d, l) => /\ op'[d].stage = "seen" /\ op'[d].of = p /\ op'[d].got = op[d].got
                                               /\ op'[d].model = op[d].model /\ op'[d].found = read[op[d].model]
             /\ cache' \in [Providers -> CacheStates] /\ \A q \in Providers : q # p => cache'[q] = cache[q]
             /\ cache'[p].key = cache[p].key /\ cache'[p].probing = cache[p].probing
             /\ cache'[p].generation = cache[p].generation
             /\ \/ l[2] = cache[p].generation /\ cache'[p].reports = read /\ cache'[p].loaded
                \/ l[2] # cache[p].generation /\ cache'[p] = cache[p]
    BY <1>8, LoadDoes
  <2> DEFINE p == l[1]
             read == FileFor(cache[p].key)
  <2>1. UNCHANGED <<key, keys, provider, built, file, saves>>
    BY <1>8 DEF Load, host
  <2>2. p \in Built /\ l[2] = cache[p].generation /\ ~cache[p].loaded
    BY <1>a, <2>0 DEF Sound
  <2>3. cache'[p].reports = read /\ cache'[p].loaded /\ cache'[p].key = cache[p].key
    BY <2>0, <2>2
  <2>4. OneEach' /\ Built' = Built
    BY <1>0, <1>a, <2>0, <2>1, OneEachKept DEF Built
  <2>5. \A k \in loads' : k[1] # p
    <3>1. ASSUME NEW k \in loads', k[1] = p PROVE FALSE
      <4>1. k \in loads /\ k # l /\ k[2] = cache[p].generation
        BY <1>a, <2>0, <3>1 DEF Sound
      <4>2. k = <<k[1], k[2]>> /\ l = <<l[1], l[2]>>
        BY <1>0, <4>1
      <4> QED
        BY <2>2, <3>1, <4>1, <4>2
    <3> QED
      BY <3>1
  <2>6. ASSUME NEW q \in Providers PROVE Sound(q)'
    <3>1. CASE q # p
      BY <1>a, <2>0, <2>1, <2>4, <3>1, SoundKept
    <3>2. CASE q = p
      BY <2>1, <2>2, <2>3, <2>4, <2>5, <3>2 DEF Sound, Extends, FileFor
    <3> QED
      BY <3>1, <3>2
  <2>7. ASSUME NEW d \in Ops PROVE Knows(d)'
    <3>1. CASE Awaits(d, l)
      <4>1. op'[d].stage = "seen" /\ op'[d].of = p /\ op'[d].model = op[d].model /\ op'[d].found = read[op[d].model]
        BY <2>0, <3>1
      <4> QED
        BY <2>3, <4>1 DEF Knows, At
    <3>2. CASE ~Awaits(d, l) /\ op[d].stage \notin Informed
      BY <1>a, <2>0, <3>2, KnowsKept
    <3>3. CASE ~Awaits(d, l) /\ op[d].stage \in Informed
      <4>1. op'[d] = op[d] /\ op[d].of \in Providers /\ op[d].of # p
        BY <1>0, <1>a, <2>0, <2>2, <3>3 DEF Knows
      <4>2. \A e \in Ops : op'[e].stage = "saving" => op[e].stage = "saving"
        BY <2>0
      <4> QED
        BY <1>a, <2>0, <2>1, <4>1, <4>2, KnowsKept
    <3> QED
      BY <3>1, <3>2, <3>3
  <2> QED
    BY <2>4, <2>6, <2>7 DEF DiskRight
<1>9. ASSUME NEW c \in Ops, Take(c) PROVE DiskRight'
  <2>1. /\ UNCHANGED <<key, keys, provider, cache, built, file, saves>> /\ op[c].of \in Built
        /\ \A d \in Ops : d # c => op'[d] = op[d]
    BY <1>9, TakeDoes DEF Take, host
  <2>2. CASE ~cache[op[c].of].loaded /\ op'[c].stage = "loading" /\ loads' = loads \cup {<<op[c].of, cache[op[c].of].generation>>}
    BY <1>6, <2>1, <2>2
  <2>3. CASE /\ cache[op[c].of].loaded /\ op'[c].stage = "seen" /\ loads' = loads /\ op'[c].of = op[c].of
             /\ op'[c].found = cache[op[c].of].reports[op'[c].model]
    <3>1. OneEach' /\ Built' = Built
      BY <1>a, <2>1, OneEachKept DEF Built
    <3>2. \A p \in Providers : Sound(p)'
      BY <1>a, <2>1, <2>3, <3>1, SoundKept
    <3>3. \A d \in Ops \ {c} : Knows(d)'
      BY <1>a, <2>1, <2>3, KnowsKept
    <3>4. Knows(c)'
      BY <2>1, <2>3 DEF Knows, At
    <3> QED
      BY <3>1, <3>2, <3>3, <3>4 DEF DiskRight
  <2> QED
    BY <1>9, <2>2, <2>3, TakeDoes

<1>10. ASSUME NEW c \in Ops, Look(c) PROVE DiskRight'
  <2> DEFINE p == op[c].of
  <2>1. UNCHANGED <<key, keys, provider, built, loads, file, saves>> /\ At(c, "seen")
    BY <1>10 DEF Look, host
  <2>2. /\ p \in Built /\ p \in Providers /\ \A d \in Ops : d # c => op'[d] = op[d]
        /\ op'[c].of = p /\ op'[c].stage \in {"next", "joined", "probing"}
        /\ \A q \in Providers : /\ cache'[q].key = cache[q].key /\ cache'[q].reports = cache[q].reports
                                /\ cache'[q].loaded = cache[q].loaded /\ cache'[q].generation = cache[q].generation
    BY <1>10, LookDoes
  <2>3. OneEach' /\ Built' = Built
    BY <1>0, <1>a, <2>1, <2>2, OneEachKept DEF Built
  <2>4. \A q \in Providers : Sound(q)'
    BY <1>a, <2>1, <2>2, <2>3 DEF Sound
  <2>5. cache[p].loaded
    BY <1>a, <2>1 DEF Knows, At
  <2>6. Knows(c)'
    BY <2>2, <2>5 DEF Knows, At
  <2>7. ASSUME NEW d \in Ops, d # c PROVE Knows(d)'
    <3>1. op'[d] = op[d] /\ saves'[d] = saves[d] /\ (op[d].stage \in Informed => op[d].of \in Providers)
      BY <1>0, <2>1, <2>2, <2>7
    <3> QED
      BY <1>a, <2>2, <2>7, <3>1 DEF Knows, At
  <2> QED
    BY <2>3, <2>4, <2>6, <2>7 DEF DiskRight
<1>11. ASSUME Quiet, NEW c \in Ops, Probed(c) PROVE DiskRight'
  <2> DEFINE p == op[c].of
             m == op[c].model
             reports == Merged(p, m, "told")
  <2>1. UNCHANGED <<key, keys, provider, built, loads, file>> /\ At(c, "probing") /\ Saving = {}
    BY <1>11 DEF Probed, host, Crossed
  <2>2. /\ p \in Built /\ p \in Providers /\ m \in Models /\ \A d \in Ops : d # c => op'[d] = op[d]
        /\ op'[c].of = p /\ op'[c].stage = "saving" /\ \A q \in Providers : q # p => cache'[q] = cache[q]
        /\ cache'[p].reports = reports /\ cache'[p].loaded /\ cache'[p].key = cache[p].key
        /\ cache'[p].generation = cache[p].generation
        /\ \A d \in Ops : d # c => saves'[d] = saves[d]
        /\ saves'[c] = [key |-> cache[p].key, reports |-> reports]
    BY <1>11, ProbedDoes
  <2>3. OneEach' /\ Built' = Built
    BY <1>0, <1>a, <2>1, <2>2, OneEachKept DEF Built
  <2>4. cache[p].loaded /\ ~At(c, "seen")
    BY <1>a, <2>1 DEF Knows, At
  <2>5. \A d \in Ops : ~At(d, "saving")
    BY <2>1 DEF Saving
  <2>6. Quiet => \A d \in Ops : ~At(d, "seen")
    BY DEF Quiet, At
  <2>7. Extends(cache[p].reports, file.reports) => Extends(reports, file.reports)
    <3>1. reports[m] = "told" /\ \A n \in Models : n # m => reports[n] = cache[p].reports[n]
      BY <1>0, <2>2, MergedState
    <3>2. file.reports \in [Models -> Reports]
      BY <1>0 DEF TypeOK, Contents
    <3> HIDE DEF reports, m, p
    <3> QED
      BY <2>2, <3>1, <3>2 DEF Extends, Reports
  <2> HIDE DEF reports
  <2>8. ASSUME NEW q \in Providers PROVE Sound(q)'
    <3>1. CASE q # p
      BY <1>a, <2>1, <2>2, <2>3, <3>1, SoundKept
    <3>2. CASE q = p
      BY <1>a, <2>1, <2>2, <2>3, <2>4, <2>7, <3>2 DEF Sound
    <3> QED
      BY <3>1, <3>2
  <2>9. Knows(c)'
    BY <2>2, <2>5 DEF Knows, At
  <2>10. ASSUME NEW d \in Ops, d # c PROVE Knows(d)'
    <3>1. op'[d] = op[d] /\ op[d].stage # "seen" /\ op[d].stage # "saving" /\ (op[d].stage \in Informed => op[d].of \in Providers)
      BY <1>0, <1>11, <2>2, <2>5, <2>6, <2>10 DEF At
    <3>2. op[d].stage \in Informed => cache'[op[d].of].loaded
      BY <1>a, <2>2, <3>1 DEF Knows
    <3> QED
      BY <3>1, <3>2 DEF Knows, At
  <2> QED
    BY <1>11, <2>3, <2>8, <2>9, <2>10 DEF DiskRight
<1>12. ASSUME Quiet, NEW c \in Ops, op[c].stage \in Owners, Over(c), UNCHANGED <<key, keys, provider, built, loads>>,
              \/ file' = file /\ saves' = saves
              \/ At(c, "saving") /\ file' \in {file, saves[c]} /\ \A d \in Ops : d # c => saves'[d] = saves[d]
       PROVE  DiskRight'
  <2> DEFINE p == op[c].of
  <2>1. /\ p \in Built /\ p \in Providers
        /\ \A d \in Ops : op'[d] = op[d] \/ op'[d].stage = "next"
        /\ op'[c].stage = "next"
        /\ \A q \in Providers : /\ cache'[q].key = cache[q].key /\ cache'[q].reports = cache[q].reports
                                /\ cache'[q].loaded = cache[q].loaded /\ cache'[q].generation = cache[q].generation
    <3>1. c \in Released(c)
      BY DEF Released
    <3> QED
      BY <1>12, <3>1, OverDoes
  <2>2. OneEach' /\ Built' = Built
    BY <1>0, <1>a, <1>12, <2>1, OneEachKept DEF Built
  <2>3. ASSUME NEW q \in Providers PROVE Sound(q)'
    <3>1. CASE file' = file
      BY <1>a, <1>12, <2>1, <2>2, <2>3, <3>1 DEF Sound
    <3>2. CASE At(c, "saving") /\ file' = saves[c]
      <4>1. file'.key = cache[p].key /\ file'.reports = cache[p].reports
        <5>1. Knows(c)
          BY <1>a
        <5>2. saves[c] = [key |-> cache[p].key, reports |-> cache[p].reports]
          BY <3>2, <5>1 DEF Knows
        <5> QED
          BY <3>2, <5>2
      <4>2. cache[q].loaded /\ cache[q].key = file'.key => q = p
        BY <1>a, <2>1, <4>1 DEF Sound, OneEach
      <4>3. cache[q].loaded /\ cache[q].key = file'.key => Extends(cache[q].reports, file'.reports)
        BY <4>1, <4>2 DEF Extends
      <4> QED
        BY <1>a, <1>12, <2>1, <2>2, <2>3, <4>3 DEF Sound
    <3> QED
      BY <1>12, <3>1, <3>2
  <2>4. ASSUME NEW d \in Ops PROVE Knows(d)'
    <3>1. CASE op'[d].stage = "next"
      BY <3>1 DEF Knows, At
    <3>2. CASE op'[d].stage # "next"
      <4>1. d # c /\ op'[d] = op[d] /\ saves'[d] = saves[d] /\ (op[d].stage \in Informed => op[d].of \in Providers)
        BY <1>0, <1>12, <2>1, <3>2
      <4>2. \A e \in Ops : op'[e].stage = "saving" => op[e].stage = "saving"
        BY <2>1
      <4> QED
        BY <1>a, <2>1, <4>1, <4>2 DEF Knows, At
    <3> QED
      BY <3>1, <3>2
  <2> QED
    BY <2>2, <2>3, <2>4 DEF DiskRight
<1>13. ASSUME Quiet, NEW c \in Ops, ProbeThrows(c) \/ Saved(c) PROVE DiskRight'
  <2>1. op[c].stage \in Owners /\ Over(c) /\ UNCHANGED <<key, keys, provider, built, loads>>
    BY <1>13 DEF ProbeThrows, Saved, Owners, At, host
  <2>2. \/ file' = file /\ saves' = saves
        \/ At(c, "saving") /\ file' \in {file, saves[c]} /\ \A d \in Ops : d # c => saves'[d] = saves[d]
    <3>1. saves \in [Ops -> Contents]
      BY <1>0 DEF TypeOK
    <3> QED
      BY <1>13, <3>1 DEF ProbeThrows, Saved
  <2> QED
    BY <1>12, <1>13, <2>1, <2>2
<1>14. CASE UNCHANGED vars
  <2>1. UNCHANGED <<key, keys, provider, cache, built, file, saves, loads, op>>
    BY <1>14 DEF vars, host, caches
  <2> QED
    BY <1>2, <2>1
<1> QED
  BY <1>1, <1>3, <1>4, <1>5, <1>7, <1>8, <1>9, <1>10, <1>11, <1>13, <1>14 DEF Next, Resumed, Ends

\* In the states a run reaches, with what is known of each.
LEMMA DiskIsSound == Spec => [](MeasureInv /\ ProbeInv /\ DiskInv)
<1>1. Init => ProbeInv
  BY StatesOfRest DEF Init, ProbeInv, Owners
<1>2. Init => DiskInv
  <2> SUFFICES ASSUME Init PROVE DiskRight
    BY DEF DiskInv
  <2>1. Built = {} /\ key = keys /\ key = 0 /\ loads = {}
    BY BoundsAssumption DEF Init, Built, Providers
  <2>2. \A p \in Providers : ~cache[p].loaded
    BY DEF Init
  <2>3. \A c \in Ops : op[c].stage = "idle"
    BY StatesOfRest DEF Init
  <2> QED
    BY <2>1, <2>2, <2>3 DEF DiskRight, OneEach, Sound, Knows, At
<1> QED
  BY <1>1, <1>2, InitMeasures, MeasureInvStep, ProbeStep, DiskStep, PTL DEF Spec

(* hasaCapabilityProbe.ts:41: a save never drops what the file told.       *)
THEOREM DiskKeeps == Spec => DiskKeepsUnlessCrossed
<1>1. MeasureInv /\ DiskInv /\ [Next]_vars
        => [crossed' = {} /\ file'.key = file.key =>
               \A m \in Models : file.reports[m] # "none" => file'.reports[m] = file.reports[m]]_vars
  <2> SUFFICES ASSUME MeasureInv, DiskInv, Next, crossed' = {}, file'.key = file.key,
                      NEW m \in Models, file.reports[m] # "none"
               PROVE  file'.reports[m] = file.reports[m]
    OBVIOUS
  <2>1. CASE file' = file
    BY <2>1
  <2>2. ASSUME NEW c \in Ops, Saved(c), file' = saves[c] PROVE file'.reports[m] = file.reports[m]
    <3>1. /\ At(c, "saving") /\ crossed = {} /\ DiskRight
      BY <2>2 DEF Saved, DiskInv
    <3>2. op[c].of \in Providers
      BY <3>1 DEF MeasureInv, Shape, Holders, At, Built
    <3>3. Knows(c) /\ Sound(op[c].of)
      BY <3>1, <3>2 DEF DiskRight
    <3>4. /\ saves[c] = [key |-> cache[op[c].of].key, reports |-> cache[op[c].of].reports]
          /\ cache[op[c].of].loaded
      BY <3>1, <3>3 DEF Knows, At
    <3>5. file'.key = cache[op[c].of].key /\ file'.reports = cache[op[c].of].reports
      BY <2>2, <3>4
    <3> QED
      BY <3>3, <3>4, <3>5 DEF Sound, Extends
  <2>3. file' # file => \E c \in Ops : Saved(c) /\ file' = saves[c]
    BY DEF Next, Resumed, Ends, Rekey, Begin, ReadKey, Build, Hold, Glance, Load, Take, Finish, Look, Probed,
           ProbeThrows, Saved
  <2> QED
    BY <2>1, <2>2, <2>3
<1> QED
  BY <1>1, DiskIsSound, PTL DEF Spec, DiskKeepsUnlessCrossed

(* hasaCapabilityProbe.ts:202: no second probe of a model, and none of a   *)
(* model the file tells of.                                                *)
THEOREM ProbesAreSingle == Spec => ProbedOnce
<1>1. MeasureInv /\ ProbeInv /\ DiskInv /\ [Next]_vars
        => [\A c \in Ops : Probes(c) =>
               /\ \A d \in Ops \ {c} : At(d, "probing") => op[d].of # op[c].of \/ op[d].model # op[c].model
               /\ crossed = {} => FileFor(cache[op[c].of].key)[op[c].model] = "none"]_vars
  <2> SUFFICES ASSUME MeasureInv, ProbeInv, DiskInv, Next, NEW c \in Ops, Probes(c)
               PROVE  /\ \A d \in Ops \ {c} : At(d, "probing") => op[d].of # op[c].of \/ op[d].model # op[c].model
                      /\ crossed = {} => FileFor(cache[op[c].of].key)[op[c].model] = "none"
    OBVIOUS
  <2>0. op[c].stage = "seen" /\ op'[c].stage = "probing"
    BY DEF Probes, At
  <2>1. Look(c)
    <3>1. op'[c] # op[c]
      BY <2>0
    <3>2. ~Quiet
      BY <2>0 DEF Quiet
    <3>3. PICK d \in Ops : Take(d) \/ Finish(d) \/ Look(d)
      BY <3>2 DEF Next, Resumed
    <3>4. d = c
      BY <3>1, <3>3, TakeDoes, FinishDoes, LookDoes
    <3> QED
      BY <2>0, <3>3, <3>4 DEF Take, Finish, At
  <2>2. /\ op[c].model \notin cache[op[c].of].probing /\ op[c].found = "none"
        /\ op[c].of \in Providers /\ op[c].model \in Models
    BY <2>0, <2>1, LookDoes
  <2>3. \A d \in Ops \ {c} : At(d, "probing") => op[d].of # op[c].of \/ op[d].model # op[c].model
    BY <2>2 DEF ProbeInv, At
  <2>4. ASSUME crossed = {} PROVE FileFor(cache[op[c].of].key)[op[c].model] = "none"
    <3>1. Knows(c) /\ Sound(op[c].of)
      BY <2>2, <2>4 DEF DiskInv, DiskRight
    <3>2. cache[op[c].of].loaded /\ cache[op[c].of].reports[op[c].model] = "none"
      BY <2>0, <2>2, <3>1 DEF Knows, At
    <3> QED
      BY <2>2, <3>1, <3>2 DEF Sound, Extends, FileFor, Nobody
  <2> QED
    BY <2>3, <2>4
<1> QED
  BY <1>1, DiskIsSound, PTL DEF Spec, ProbedOnce
=============================================================================
