----------------------------- MODULE AgentTurn ------------------------------
(***************************************************************************)
(* The agent's turn (agent/loop.ts over approval.ts and progress.ts, and   *)
(* repairChain of conversationGraph.ts): the model is asked, its tool      *)
(* calls are gated, approved and run one after the other, and the turn     *)
(* ends for one of a dozen reasons, leaving the messages the next turn     *)
(* will send.  Meanwhile the user cancels, changes the approval mode,      *)
(* takes back what was always allowed, and answers when they please; time  *)
(* passes.                                                                 *)
(*                                                                         *)
(* A message is its role and the ids of its calls; runs of plain text are  *)
(* one message.  What a reply says is reduced to what the loop asks of it. *)
(* The gate and the novelty of a result are choices; so is what a tool     *)
(* does, which ends by itself (tools have timeouts of their own).          *)
(***************************************************************************)
EXTENDS Naturals, SequencesExt

CONSTANTS
    Tools,           \* the tools of the mode
    Risk,            \* [Tools -> RISK_ORDER]: 0 read, 1 write, 2 execute, 3 dangerous
    Modes,           \* approval modes offered: "safe", "balanced", "auto"
    Remember,        \* rememberGrants: "never", "turn", "session"
    Named,           \* the gateway gives every call an id of its own
    Histories,       \* what an earlier turn may have left in the session
    MaxSteps,        \* budget: model calls of a turn (maxSteps, maxModelCalls)
    MaxToolCalls,    \* budget: tool calls of a turn
    MaxRepeatedCalls,
    MaxProtocolRepairs, MaxFinalClaimRepairs,
    WarnAt,          \* STALL_WARNING_AT
    TerminateAfter,  \* STALL_TERMINATE_AFTER
    MaxPerReply,     \* bound: calls of one reply
    MaxTurns         \* bound: turns of the session

ASSUME RiskAssumption == Risk \in [Tools -> 0..3]
ASSUME ModesAssumption == Modes \subseteq {"safe", "balanced", "auto"} /\ Modes # {}
ASSUME RememberAssumption == Remember \in {"never", "turn", "session"} /\ Named \in BOOLEAN
ASSUME BudgetAssumption ==
    /\ MaxSteps \in Nat /\ MaxToolCalls \in Nat /\ MaxRepeatedCalls \in Nat
    /\ MaxProtocolRepairs \in Nat /\ MaxFinalClaimRepairs \in Nat
ASSUME StallAssumption == WarnAt \in Nat \ {0} /\ TerminateAfter \in Nat \ {0}
ASSUME BoundsAssumption == MaxPerReply \in Nat \ {0} /\ MaxTurns \in Nat

\* A message: its role and the ids of its calls.
Text == [role |-> "text", calls |-> <<>>]
Calling(ids) == [role |-> "assistant", calls |-> ids]
ResultOf(id) == [role |-> "tool", calls |-> <<id>>]
Message == [role : {"text", "assistant", "tool"}, calls : Seq(Nat)]

ASSUME HistoryAssumption == \A h \in Histories : h \in Seq(Message)

VARIABLES
    stage,           \* where the turn stands
    queue,           \* calls of the reply not yet done with: [tool, id]
    reason,          \* why the last turn ended
    steps, toolCalls,
    callCounts,      \* how often each call was made (a tool stands for one call)
    nudged, reconciled, protocolRepairs, claimRepairs,
    executed,        \* calls that ran
    streak, challenged,
    aborted,         \* the controller's signal: "no", by the "user" or the "timer"
    expired,         \* the deadline has passed
    mode, granted,   \* the approval manager
    messages,        \* the session's messages
    deltaStart,      \* how many there were when the turn began
    proposed,        \* calls ever proposed: the next id
    turns,
    \* History.
    fruitless,       \* actions in a row that moved nothing
    always,          \* tools the user said "always" to since the policy last changed
    denied,          \* the user declined a call of this turn
    ranAfterAbort,   \* tools started after the turn was aborted
    replies          \* replies of this turn that called tools

control == <<stage, queue, reason>>
budget == <<steps, toolCalls, callCounts>>
chances == <<nudged, reconciled, protocolRepairs, claimRepairs>>
progress == <<streak, challenged, fruitless>>
signals == <<aborted, expired>>
approvals == <<mode, granted, always>>
marks == <<deltaStart, proposed>>
vars == <<control, budget, chances, executed, progress, signals, approvals,
          messages, marks, turns, denied, ranAfterAbort, replies>>

Stages == {"idle", "top", "model", "calls", "asking", "protecting", "running"}
Reasons == {"none", "finished", "denied", "blocked", "aborted", "timeout", "loop_detected", "no_progress",
            "protocol_error", "max_steps", "max_tool_calls", "error"}
TypeOK ==
    /\ stage \in Stages /\ reason \in Reasons
    /\ queue \in Seq([tool : Tools, id : Nat])
    /\ steps \in 0..MaxSteps /\ toolCalls \in 0..MaxToolCalls
    /\ callCounts \in [Tools -> 0..MaxRepeatedCalls]
    /\ nudged \in BOOLEAN /\ reconciled \in BOOLEAN
    /\ protocolRepairs \in 0..MaxProtocolRepairs /\ claimRepairs \in 0..MaxFinalClaimRepairs
    /\ executed \in 0..MaxToolCalls
    /\ streak \in Nat /\ fruitless \in Nat /\ challenged \in BOOLEAN
    /\ aborted \in {"no", "user", "timer"} /\ expired \in BOOLEAN
    /\ mode \in Modes /\ granted \subseteq Tools /\ always \subseteq Tools
    /\ messages \in Seq(Message) /\ deltaStart \in Nat
    /\ proposed \in Nat /\ turns \in 0..MaxTurns
    /\ denied \in BOOLEAN
    /\ ranAfterAbort \in Nat /\ replies \in 0..MaxSteps
    /\ stage \in {"calls", "asking", "protecting", "running"} <=> queue # <<>>

Init ==
    /\ stage = "idle" /\ queue = <<>> /\ reason = "none"
    /\ steps = 0 /\ toolCalls = 0 /\ callCounts = [t \in Tools |-> 0]
    /\ nudged = FALSE /\ reconciled = FALSE /\ protocolRepairs = 0 /\ claimRepairs = 0
    /\ executed = 0 /\ streak = 0 /\ challenged = FALSE
    /\ aborted = "no" /\ expired = FALSE
    /\ mode \in Modes /\ granted = {}
    /\ messages \in Histories /\ deltaStart = Len(messages)
    /\ proposed = Cardinality(UNION {Range(m.calls) : m \in Range(messages)}) /\ turns = 0
    /\ fruitless = 0 /\ always = {} /\ denied = FALSE /\ ranAfterAbort = 0 /\ replies = 0
-----------------------------------------------------------------------------
(* Messages. *)

\* A run of texts is one message: gateways care about calls and results.
Said(history) == IF history # <<>> /\ Last(history) = Text THEN history ELSE Append(history, Text)

Replies(history) == {k \in DOMAIN history : history[k].role = "assistant"}

\* Calls without a result anywhere.
Dangling(history) ==
    (UNION {Range(history[k].calls) : k \in Replies(history)})
        \ {m.calls[1] : m \in {n \in Range(history) : n.role = "tool"}}

\* repairChain: a result is supplied right after the reply that lacks it, once.
Repaired(history) ==
    LET lacks(k, i) == LET id == history[k].calls[i]
                       IN  /\ id \in Dangling(history)
                           /\ \A j \in Replies(history) : j < k => id \notin Range(history[j].calls)
                           /\ \A j \in 1..(i - 1) : history[k].calls[j] # id
        supplied(k) == FlattenSeq([i \in DOMAIN history[k].calls |->
                           IF lacks(k, i) THEN <<ResultOf(history[k].calls[i])>> ELSE <<>>])
    IN  FlattenSeq([k \in DOMAIN history |->
                       IF k \in Replies(history) THEN <<history[k]>> \o supplied(k) ELSE <<history[k]>>])
-----------------------------------------------------------------------------
(* The turn begins and ends. *)

\* run(): a new turn, its question already among the messages.
Begin ==
    /\ stage = "idle" /\ turns < MaxTurns
    /\ stage' = "top" /\ queue' = <<>> /\ reason' = "none"
    /\ messages' = Said(messages) /\ deltaStart' = Len(messages)
    /\ steps' = 0 /\ toolCalls' = 0 /\ callCounts' = [t \in Tools |-> 0]
    /\ nudged' = FALSE /\ reconciled' = FALSE /\ protocolRepairs' = 0 /\ claimRepairs' = 0
    /\ executed' = 0 /\ streak' = 0 /\ challenged' = FALSE /\ fruitless' = 0
    /\ aborted' = "no" /\ expired' = FALSE
    /\ denied' = FALSE /\ ranAfterAbort' = 0 /\ replies' = 0
    /\ turns' = turns + 1
    /\ UNCHANGED <<approvals, proposed>>

Left(grants) == IF Remember = "turn" THEN {} ELSE grants

\* The turn is over; endTurn() forgets the grants that do not outlive it.
End(why) ==
    /\ stage' = "idle" /\ queue' = <<>> /\ reason' = why
    /\ granted' = Left(granted) /\ always' = Left(always)
    /\ UNCHANGED <<mode, turns, signals>>

\* run()'s catch: an abort names who aborted, anything else is an error.
Thrown == IF aborted = "user" THEN "aborted" ELSE IF aborted = "timer" THEN "timeout" ELSE "error"

\* The session is put on a stored conversation, which is read repaired.
Restore ==
    /\ stage = "idle" /\ messages # <<>>
    /\ messages' = Repaired(messages)
    /\ UNCHANGED <<control, budget, chances, executed, progress, signals, approvals,
                   marks, turns, denied, ranAfterAbort, replies>>
-----------------------------------------------------------------------------
(* Around the loop: the user and the clock. *)

Around == UNCHANGED <<control, budget, chances, executed, progress, messages, marks, turns,
                      denied, ranAfterAbort, replies>>

\* The stop button, or the host's ceiling over the whole turn.
Cancel ==
    /\ stage # "idle" /\ aborted # "user"
    /\ aborted' = "user"
    /\ UNCHANGED <<expired, approvals>> /\ Around

Expire ==
    /\ stage # "idle" /\ ~expired
    /\ expired' = TRUE
    /\ UNCHANGED <<aborted, approvals>> /\ Around

\* Mutant of Timer: none is armed for the model call.
NoTimer == FALSE /\ UNCHANGED vars

\* The timer armed for the model call, and only for it.
Timer ==
    /\ stage = "model" /\ expired /\ aborted = "no"
    /\ aborted' = "timer"
    /\ UNCHANGED <<expired, approvals>> /\ Around

\* Mutant of SetMode: what was granted under the old policy stays.
SetModeOnly ==
    /\ \E m \in Modes : mode' = m
    /\ always' = {}
    /\ UNCHANGED <<granted, signals>> /\ Around

SetMode ==
    /\ \E m \in Modes : mode' = m
    /\ granted' = {} /\ always' = {}
    /\ UNCHANGED signals /\ Around

RevokeGrants ==
    /\ granted' = {} /\ always' = {}
    /\ UNCHANGED <<mode, signals>> /\ Around
-----------------------------------------------------------------------------
(* The head of the loop and the model's replies. *)

\* What a reply that only moves the flow leaves alone.
Spoken == UNCHANGED <<toolCalls, callCounts, executed, progress, marks, denied, ranAfterAbort>>

Ask ==
    /\ stage = "top"
    /\ \/ /\ aborted # "no" /\ End("aborted") /\ UNCHANGED steps
       \/ /\ aborted = "no" /\ expired /\ End("timeout") /\ UNCHANGED steps
       \/ /\ aborted = "no" /\ ~expired /\ steps = MaxSteps /\ End("max_steps") /\ UNCHANGED steps
       \/ /\ aborted = "no" /\ ~expired /\ steps < MaxSteps
          /\ stage' = "model" /\ steps' = steps + 1
          /\ UNCHANGED <<queue, reason, approvals, turns, signals>>
    /\ UNCHANGED <<chances, messages, replies>> /\ Spoken

\* The call fails: aborted under it, or by the provider's own account.
ModelThrows(aborts) ==
    /\ stage = "model" /\ (aborted # "no") = aborts
    /\ End(Thrown)
    /\ UNCHANGED <<steps, chances, messages, replies>> /\ Spoken

\* A reply that comes after the deadline is not looked at.
TooLate ==
    /\ stage = "model" /\ expired
    /\ End("timeout")
    /\ UNCHANGED <<steps, chances, messages, replies>> /\ Spoken

Replying == stage = "model" /\ ~expired

\* The reply is put back to the model with what is wrong with it.
AskAgain ==
    /\ stage' = "top" /\ messages' = Said(messages)
    /\ UNCHANGED <<queue, reason, approvals, turns, signals>>

\* A tool call nobody can read, and what happens when the attempts are used up.
Unreadable ==
    /\ Replying
    /\ \/ /\ protocolRepairs < MaxProtocolRepairs
          /\ protocolRepairs' = protocolRepairs + 1
          /\ AskAgain
       \/ /\ protocolRepairs = MaxProtocolRepairs /\ executed = 0
          /\ End("protocol_error")
          /\ UNCHANGED <<protocolRepairs, messages>>
    /\ UNCHANGED <<steps, nudged, reconciled, claimRepairs, replies>> /\ Spoken

\* An announcement is not an answer: once, and only where nothing ran.
Announces == ~nudged /\ toolCalls = 0

(* A reply in words: nudged to act, shown the record, sent back for what   *)
(* it claims, or accepted; after the repairs the runtime answers.          *)
Answer ==
    /\ Replying
    /\ \/ Announces /\ nudged' = TRUE /\ AskAgain /\ UNCHANGED <<reconciled, claimRepairs>>
       \/ /\ ~reconciled /\ toolCalls > 0
          /\ reconciled' = TRUE /\ AskAgain /\ UNCHANGED <<nudged, claimRepairs>>
       \/ /\ claimRepairs < MaxFinalClaimRepairs
          /\ claimRepairs' = claimRepairs + 1 /\ AskAgain /\ UNCHANGED <<nudged, reconciled>>
       \/ /\ End("finished") /\ messages' \in {messages, Said(messages)}  \* nothing said, nothing kept
          /\ UNCHANGED <<nudged, reconciled, claimRepairs>>
    /\ UNCHANGED <<steps, protocolRepairs, replies>> /\ Spoken

CallId(i) == IF Named THEN proposed + i ELSE i

\* A reply that calls tools.
CallTools ==
    /\ Replying
    /\ \E n \in 1..MaxPerReply : \E called \in [1..n -> Tools] :
           /\ queue' = [i \in 1..n |-> [tool |-> called[i], id |-> CallId(i)]]
           /\ messages' = Append(messages, Calling([i \in 1..n |-> CallId(i)]))
           /\ proposed' = proposed + n
    /\ stage' = "calls" /\ replies' = replies + 1
    /\ UNCHANGED <<reason, steps, toolCalls, callCounts, chances, executed, progress, signals, approvals,
                   turns, deltaStart, denied, ranAfterAbort>>
-----------------------------------------------------------------------------
(* The calls of a reply, one after the other. *)

tool == queue[1].tool
Resulted == Append(messages, ResultOf(queue[1].id))

\* Mutant of Watched: nothing looks at the signal between two calls.
WatchedNever == FALSE

\* The signal is looked at before every call.
Watched == aborted # "no"

\* What a call that does not come to a result leaves alone.
Untouched == UNCHANGED <<steps, chances, marks, replies>>

\* trackRepeat: the same call, counted over the whole turn.
TooOften == callCounts[tool] >= MaxRepeatedCalls

\* Before a call: the signal, the budget, and whether it was made too often.
CutShort ==
    /\ stage = "calls"
    /\ \/ /\ Watched /\ End("aborted")
          /\ UNCHANGED messages
       \/ /\ ~Watched /\ toolCalls = MaxToolCalls /\ End("max_tool_calls")
          /\ UNCHANGED messages
       \/ /\ ~Watched /\ toolCalls < MaxToolCalls /\ TooOften
          /\ End("loop_detected")
          /\ messages' = Resulted
    /\ UNCHANGED <<toolCalls, callCounts, executed, progress, denied, ranAfterAbort>> /\ Untouched

Counted ==
    /\ stage = "calls" /\ ~Watched /\ toolCalls < MaxToolCalls /\ ~TooOften
    /\ toolCalls' = toolCalls + 1
    /\ callCounts' = [callCounts EXCEPT ![tool] = @ + 1]

\* Mutant of Observed: a refusal before the tool is looked up is not counted.
ObservedWhenRun(moved) ==
    /\ streak' = IF moved THEN 0 ELSE IF stage = "running" THEN streak + 1 ELSE streak
    /\ fruitless' = IF moved THEN 0 ELSE fruitless + 1

\* observeAction: what moved nothing makes the streak longer.
Observed(moved) ==
    /\ streak' = IF moved THEN 0 ELSE streak + 1
    /\ fruitless' = IF moved THEN 0 ELSE fruitless + 1

\* Mutant of Concluded: the result of a call that was refused is not pushed.
ConcludedSilently(moved) ==
    /\ Observed(moved)
    /\ stage' = IF Len(queue) = 1 THEN "top" ELSE "calls"
    /\ queue' = Tail(queue)
    /\ challenged' = (challenged /\ ~moved)
    /\ messages' = IF stage = "running" THEN Resulted ELSE messages
    /\ UNCHANGED <<reason, approvals, turns, signals>>

(* A call has its result.  stallVerdict: the model is challenged once in a *)
(* streak, and the run ends when it goes on regardless.  The challenge is  *)
(* pushed at once, though results of the reply may be missing.             *)
Concluded(moved) ==
    /\ Observed(moved)
    /\ \/ /\ challenged /\ streak' >= WarnAt + TerminateAfter
          /\ End("no_progress")
          /\ messages' = Resulted
          /\ UNCHANGED challenged
       \/ /\ ~(challenged /\ streak' >= WarnAt + TerminateAfter)
          /\ stage' = IF Len(queue) = 1 THEN "top" ELSE "calls"
          /\ queue' = Tail(queue)
          /\ \/ /\ ~challenged /\ streak' >= WarnAt
                /\ challenged' = TRUE
                /\ messages' = Said(Resulted)
             \/ /\ challenged \/ streak' < WarnAt
                /\ challenged' = (challenged /\ ~moved)
                /\ messages' = Resulted
          /\ UNCHANGED <<reason, approvals, turns, signals>>

AutoUpTo == CASE mode = "safe" -> 0 [] mode = "balanced" -> 1 [] mode = "auto" -> 2
AskUpTo == 2
Automatic(t) == Risk[t] <= AutoUpTo

(* The gate holds the call, or no such tool, or arguments nobody can read, *)
(* or a risk above every policy's ceiling (AskUpTo), where nobody is       *)
(* asked: a refusal is a result.  One not seen before counts as news.      *)
Refused ==
    /\ Counted
    /\ \E moved \in BOOLEAN : Concluded(moved)
    /\ UNCHANGED <<steps, chances, executed, marks, denied, ranAfterAbort, replies>>

\* A grant is for one tool.
Standing(t) == Remember # "never" /\ t \in granted

\* What goes ahead: a write is protected first, a read is not.
Start(t) ==
    /\ stage' = IF Risk[t] = 0 THEN "running" ELSE "protecting"
    /\ ranAfterAbort' = IF Risk[t] = 0 /\ aborted # "no" THEN ranAfterAbort + 1 ELSE ranAfterAbort

\* decide(): by policy, by a standing grant, or by asking.
Decide ==
    /\ Counted /\ Risk[tool] <= AskUpTo
    /\ IF Automatic(tool) \/ Standing(tool) THEN Start(tool)
       ELSE stage' = "asking" /\ UNCHANGED ranAfterAbort
    /\ UNCHANGED <<queue, reason, steps, chances, executed, progress, signals, approvals,
                   messages, marks, turns, denied, replies>>

Grant ==
    /\ stage = "asking"
    /\ \E lasting \in BOOLEAN :
           /\ granted' = IF lasting /\ Remember # "never" THEN granted \cup {tool} ELSE granted
           /\ always' = IF lasting THEN always \cup {tool} ELSE always
    /\ Start(tool)
    /\ UNCHANGED <<queue, reason, budget, chances, executed, progress, signals, mode,
                   messages, marks, turns, denied, replies>>

\* The user's "no" ends the turn.
Decline ==
    /\ stage = "asking"
    /\ denied' = TRUE
    /\ End("denied")
    /\ messages' = Resulted
    /\ UNCHANGED <<toolCalls, callCounts, executed, progress, ranAfterAbort>> /\ Untouched

\* checkpoints.ensure(): not inside invoke's try, a failure ends the turn.
Protect ==
    /\ stage = "protecting"
    /\ \/ /\ stage' = "running"
          /\ ranAfterAbort' = IF aborted # "no" THEN ranAfterAbort + 1 ELSE ranAfterAbort
          /\ UNCHANGED <<queue, reason, approvals, turns, signals>>
       \/ End(Thrown) /\ UNCHANGED ranAfterAbort
    /\ UNCHANGED <<budget, chances, executed, progress, messages, marks, denied, replies>>

(* The tool ends: with a result that moved something or not, by reporting  *)
(* a blocker, or by throwing, which under an abort ends the turn.          *)
Execute ==
    /\ stage = "running"
    /\ \/ /\ executed' \in {executed, executed + 1}  \* a tool that throws did not run
          /\ \E moved \in BOOLEAN : Concluded(moved)
       \/ /\ executed' = executed + 1
          /\ \E moved \in BOOLEAN : Observed(moved) /\ challenged' = (challenged /\ ~moved)
          /\ End("blocked") /\ messages' = Resulted
       \/ /\ aborted # "no" /\ End(Thrown)
          /\ UNCHANGED <<executed, progress, messages>>
    /\ UNCHANGED <<budget, chances, marks, denied, ranAfterAbort, replies>>

Looping == \/ Ask \/ ModelThrows(TRUE) \/ CutShort \/ Refused \/ Decide
           \/ Protect \/ Execute

Next == \/ Begin \/ Restore \/ Cancel \/ Expire \/ Timer \/ SetMode \/ RevokeGrants
        \/ Looping \/ ModelThrows(FALSE) \/ TooLate \/ Unreadable \/ Answer \/ CallTools \/ Grant \/ Decline

(* Time passes, the timer fires and the provider honours its signal; the   *)
(* model need never reply and the user need never answer.                  *)
Fairness == WF_vars(Expire) /\ WF_vars(Timer) /\ WF_vars(Looping)

Spec == Init /\ [][Next]_vars /\ Fairness
-----------------------------------------------------------------------------
(* Properties. *)

(* A turn makes at most WarnAt + TerminateAfter actions in a row that move *)
(* nothing, whatever mix of refusals, repeats and failures they are        *)
(* (progress.ts STALL_TERMINATE_AFTER; loop.ts records every refusal).     *)
StallsEnd == fruitless <= WarnAt + TerminateAfter

\* The chances a turn has used up: a nudge, the record, the repairs.
Had(chance) == IF chance THEN 1 ELSE 0
Spent == Had(nudged) + Had(reconciled) + protocolRepairs + claimRepairs

(* A turn that talks without acting is short: every model call beyond the  *)
(* replies with calls is the last one, or paid for by a nudge, the record  *)
(* or a repair, and each of these is had only so often (loop.ts:134-146).  *)
TalkIsBounded == steps <= replies + Spent + 1

(* After the user's "no" nothing more runs in the turn (loop.ts:736-744).  *)
NothingAfterDenial == denied => stage = "idle"

(* A cancelled turn starts at most one more tool: the one whose question   *)
(* was open, or whose checkpoint was being taken, when it was cancelled.   *)
OneAfterAbort == ranAfterAbort <= 1

\* assessRestorable: every call of what the turn added has its result.
Restorable(delta) == Dangling(delta) = {}

(* A turn that ends in its own time can be continued from: none of its     *)
(* calls lacks a result.  Denied, blocked, cancelled, stalled and failed   *)
(* turns may leave some (conversationGraph.ts:325-355).                    *)
EndsAnswered ==
    [][stage # "idle" /\ stage' = "idle"
           /\ reason' \in {"finished", "timeout", "max_steps", "protocol_error"} =>
               Restorable(SubSeq(messages', deltaStart + 1, Len(messages')))]_vars

(* A call runs without a question only under the policy of the moment, or  *)
(* for a tool the user said "always" to under this very policy             *)
(* (approval.ts:86-125).                                                   *)
NothingUnasked ==
    [][stage = "calls" /\ stage' \in {"protecting", "running"} =>
           Automatic(tool) \/ tool \in always]_vars

(* A turn ends, with a model that never replies too, or waits for ever on  *)
(* a question the user does not answer.                                    *)
TurnEnds == stage # "idle" ~> (stage = "idle" \/ [](stage = "asking"))
=============================================================================
