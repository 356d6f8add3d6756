---------------------------- MODULE Conversation ----------------------------
(***************************************************************************)
(* A conversation in three places (extension/agentHost.ts over             *)
(* agent/session.ts and agent/conversationStore.ts): the screen draws the  *)
(* recorded events, the model reads the session's messages, and the file   *)
(* keeps both halves of every turn in a graph of turns.  The user opens,   *)
(* forks, deletes and starts conversations while a turn is being prepared, *)
(* run or saved: the panel's buttons do not ask whether one is.            *)
(*                                                                         *)
(* An exchange is a question and what came of it.  Its events and messages *)
(* are tokens: "ask", "contract" (the request was recorded), "answer" (by  *)
(* the model) and "status" (by the host, from the record).  A turn id is   *)
(* the conversation it was issued in and an ordinal.  Tool calls, the      *)
(* system message (never stored) and workspaces are left out.  The lookups *)
(* of the workspace that a save and the next turn await are taken to end   *)
(* in the order they began.                                                *)
(***************************************************************************)
EXTENDS Naturals, SequencesExt

CONSTANTS
    Conversations,  \* ids newConversationId may give
    Branches,       \* branch ids besides main
    Recorders,      \* who may record what a question asks for: "router", "worker", "nobody"
    MaxExchanges,   \* bound: questions ever asked
    Watched,        \* the question QuestionReachesTheFile follows
    MaxMoves,       \* bound: times the user goes to another conversation or branch
    None

Main == "main"
Tokens == (1..MaxExchanges) \X {"ask", "contract", "answer", "status"}
TurnIds == Conversations \X Nat

\* What the host holds: a session, a turn that runs, one that waits to be saved.
Sessions == [messages : Seq(Tokens), lastDelta : Seq(Tokens), contract : SUBSET (1..MaxExchanges)]
Turns == [e : 1..MaxExchanges, id : TurnIds, events : Seq(Tokens),
          stage : {"routing", "resolving", "opening", "talking"}, contract : BOOLEAN,
          start : Nat, attached : BOOLEAN, carried : Seq(Tokens)]
Saves == [e : 1..MaxExchanges, id : TurnIds, events : Seq(Tokens)]

Files == [turns : Seq([id : TurnIds, parent : TurnIds \cup {None},
                       events : Seq(Tokens), delta : Seq(Tokens)]),
          heads : [{Main} \cup Branches -> TurnIds \cup {None}],
          active : {Main} \cup Branches]

ASSUME NoneAssumption ==
    None \notin Conversations \cup TurnIds \cup Branches \cup Seq(Tokens) \cup Sessions \cup Turns \cup Saves \cup Files
ASSUME BranchesAssumption == Main \notin Branches
ASSUME RecordersAssumption == Recorders \subseteq {"router", "worker", "nobody"}
ASSUME BoundsAssumption == MaxExchanges \in Nat /\ Watched \in 1..MaxExchanges /\ MaxMoves \in Nat

VARIABLES
    disk,          \* the conversation files: [turns, heads, active] or None
    jobs,          \* the store's write queue: reads-modifies-writes not yet done
    conversationId, turnOrdinal,
    recorded,      \* the events the panel draws
    pendingEvents, \* events of turns that had nowhere to go
    pendingRestore,\* messages waiting for a session
    session,       \* [messages, lastDelta, contract] or None
    turn,          \* the turn that is running, or None
    saving,        \* the turn persistTurn has not yet taken: [id, events], or None
    load,          \* the conversation being read: [conv, file], or None
    asked,         \* questions asked so far
    moves,         \* moves of the user so far
    home,          \* history: the conversation each question was asked in
    issued,        \* history: the turn ids handed out
    moved,         \* history: exchanges the user walked away from before they were saved
    dropped,       \* history: exchanges no save will reach any more
    skipped,       \* history: conversations adopted with an issued id not in the file, or deleted before a write
    rebuildFailed  \* history: a session was dropped and its replacement failed

host == <<conversationId, turnOrdinal, recorded, pendingEvents, pendingRestore>>
history == <<home, issued, moved, dropped, skipped, rebuildFailed>>
vars == <<disk, jobs, host, session, turn, saving, load, asked, moves, history>>

\* What is queued: a turn, a fork, a change of branch.
Jobs == [what : {"turn"}, conv : Conversations, id : TurnIds, events : Seq(Tokens), delta : Seq(Tokens)]
        \cup [what : {"fork"}, conv : Conversations, branch : Branches, from : TurnIds]
        \cup [what : {"switch", "remove"}, conv : Conversations, branch : {Main} \cup Branches]

\* The tokens of a kind, in their order.
Kind(s, kind) ==
    LET kept[i \in 0..Len(s)] ==
            IF i = 0 THEN <<>>
            ELSE IF s[i][2] = kind THEN Append(kept[i - 1], s[i]) ELSE kept[i - 1]
    IN  kept[Len(s)]
Exchanges(s) == {token[1] : token \in Range(s)}
Stored(file) == IF file = None THEN {} ELSE Range(file.turns)
StoredEvents(file) == UNION {Range(t.events) : t \in Stored(file)}
Ids(file) == {t.id : t \in Stored(file)}

TypeOK ==
    /\ disk \in [Conversations -> Files \cup {None}] /\ jobs \in Seq(Jobs)
    /\ conversationId \in Conversations \cup {None} /\ turnOrdinal \in Nat
    /\ recorded \in Seq(Tokens) /\ pendingEvents \in Seq(Tokens)
    /\ pendingRestore \in Seq(Tokens) \cup {None}
    /\ session \in Sessions \cup {None}
    /\ turn \in Turns \cup {None} /\ saving \in Saves \cup {None}
    /\ load \in [conv : Conversations, file : Files \cup {None}] \cup {None}
    /\ asked \in 0..MaxExchanges /\ moves \in 0..MaxMoves
    /\ home \in [1..asked -> Conversations]
    /\ issued \subseteq TurnIds /\ skipped \subseteq Conversations
    /\ moved \subseteq 1..asked /\ dropped \subseteq 1..asked
    /\ rebuildFailed \in BOOLEAN

Init ==
    /\ disk = [c \in Conversations |-> None] /\ jobs = <<>>
    /\ conversationId = None /\ turnOrdinal = 0 /\ recorded = <<>>
    /\ pendingEvents = <<>> /\ pendingRestore = None
    /\ session = None /\ turn = None /\ saving = None /\ load = None
    /\ asked = 0 /\ moves = 0
    /\ home = <<>> /\ issued = {} /\ moved = {} /\ dropped = {} /\ skipped = {}
    /\ rebuildFailed = FALSE
-----------------------------------------------------------------------------
(* Reading the graph. *)

(* turnChain: from the root to a turn.  GraphSound says parents come first *)
(* in the file, so this ends.                                              *)
Chain(file, id) ==
    LET turnOf(i) == CHOOSE t \in Range(file.turns) : t.id = i
        chain[i \in Ids(file)] ==
            IF turnOf(i).parent = None THEN <<turnOf(i)>>
            ELSE Append(chain[turnOf(i).parent], turnOf(i))
    IN  IF id = None THEN <<>> ELSE chain[id]

\* project(): both halves from one traversal, that of the active branch.
EventsAt(file) == FlattenSeq([i \in DOMAIN Chain(file, file.heads[file.active]) |->
                                  Chain(file, file.heads[file.active])[i].events])
MessagesAt(file) == FlattenSeq([i \in DOMAIN Chain(file, file.heads[file.active]) |->
                                    Chain(file, file.heads[file.active])[i].delta])

\* reduceContract: which requests the contract folds.
ContractOf(events) == Exchanges(Kind(events, "contract"))
-----------------------------------------------------------------------------
(* The store: every change of a file is a read-modify-write in a queue per *)
(* conversation.                                                           *)

\* appendTurn on a file that is not there: createUnserialized.
Created(t) ==
    [turns |-> <<[id |-> t.id, parent |-> None, events |-> t.events, delta |-> t.delta]>>,
     heads |-> [b \in {Main} \cup Branches |-> IF b = Main THEN t.id ELSE None],
     active |-> Main]

(* appendOnto: the parent is the active branch's head; an id the file has  *)
(* is replaced where it stands, its parent kept.                           *)
Appended(file, t) ==
    LET turnAt(parent) == [id |-> t.id, parent |-> parent, events |-> t.events, delta |-> t.delta]
        placed == IF t.id \in Ids(file)
                  THEN [i \in DOMAIN file.turns |->
                            IF file.turns[i].id = t.id THEN turnAt(file.turns[i].parent) ELSE file.turns[i]]
                  ELSE Append(file.turns, turnAt(file.heads[file.active]))
    IN  [file EXCEPT !.turns = placed, !.heads[file.active] = t.id]

\* forkBranch, and the new branch is the active one.
Forked(file, branch, from) == [file EXCEPT !.heads[branch] = from, !.active = branch]

\* removeBranch: the turns stay, and nobody is left standing on it.
Removed(file, branch) ==
    [file EXCEPT !.heads[branch] = None,
                 !.active = IF @ = branch THEN Main ELSE @]

\* What the store refuses: a name in use, a turn or a branch that is not there.
Accepted(job) ==
    LET file == disk[job.conv]
    IN  \/ job.what = "turn"
        \/ /\ job.what = "fork"
           /\ file # None /\ file.heads[job.branch] = None /\ job.from \in Ids(file)
        \/ /\ job.what \in {"switch", "remove"}
           /\ file # None /\ file.heads[job.branch] # None

\* The file a job leaves; only a turn makes one where there is none.
Result(job) ==
    LET file == disk[job.conv]
    IN  CASE job.what = "turn"   -> IF file = None THEN Created(job) ELSE Appended(file, job)
          [] job.what = "fork"   -> Forked(file, job.branch, job.from)
          [] job.what = "switch" -> [file EXCEPT !.active = job.branch]
          [] job.what = "remove" -> Removed(file, job.branch)

\* The first job of its conversation.
NextJobs == {i \in DOMAIN jobs : \A k \in 1..(i - 1) : jobs[k].conv # jobs[i].conv}

(* A job ends; a write may fail, which for a turn the host only logs.  The *)
(* host reads the conversation it is in after a change of branch.          *)
Write ==
    \E i \in NextJobs :
        LET job == jobs[i]
        IN  /\ \/ /\ Accepted(job)
                  /\ disk' = [disk EXCEPT ![job.conv] = Result(job)]
                  /\ load' = IF job.what # "turn" /\ conversationId # None
                             THEN [conv |-> conversationId, file |-> None] ELSE load
                  /\ UNCHANGED dropped
               \/ /\ dropped' = IF job.what = "turn" THEN dropped \cup Exchanges(job.events) ELSE dropped
                  /\ UNCHANGED <<disk, load>>
            /\ jobs' = RemoveAt(jobs, i)
            /\ UNCHANGED <<host, session, turn, saving, asked, moves, home, issued, moved, skipped, rebuildFailed>>
-----------------------------------------------------------------------------
(* Where the user goes.  One navigation at a time is in flight.            *)

CanMove == moves < MaxMoves /\ load = None /\ \A j \in Range(jobs) : j.what = "turn"

\* What a move leaves behind: the exchange not yet saved, and the events held back.
Left == (IF turn = None THEN {} ELSE {turn.e}) \cup (IF saving = None THEN {} ELSE {saving.e})

Leaving ==
    /\ moved' = moved \cup Left
    /\ dropped' = dropped \cup Exchanges(pendingEvents)
    /\ pendingEvents' = <<>>

(* openConversation: the file as it is when it is read; the host goes on   *)
(* until it is adopted.                                                    *)
Open ==
    /\ CanMove
    /\ \E c \in Conversations :
           /\ disk[c] # None
           /\ load' = [conv |-> c, file |-> disk[c]]
    /\ moves' = moves + 1
    /\ UNCHANGED <<disk, jobs, host, session, turn, saving, asked, history>>

\* The same after a change of branch, some time after it was written.
Read ==
    /\ load # None /\ load.file = None
    /\ load' = IF disk[load.conv] = None THEN None ELSE [load EXCEPT !.file = disk[load.conv]]
    /\ UNCHANGED <<disk, jobs, host, session, turn, saving, asked, moves, history>>

\* session.restore and restoreContract: a running loop keeps the array it was given.
Restored(messages, contract) == [session EXCEPT !.messages = messages, !.contract = contract]
Detached(t) == IF t = None THEN None ELSE [t EXCEPT !.attached = FALSE]

\* Mutant of NextOrdinal: the length of the active branch.
NextOnBranch(file) == Len(Chain(file, file.heads[file.active]))

\* Every turn of the file counts, on whichever branch.
NextOrdinal(file) == Len(file.turns)

(* adopt(): the messages go to the session that is there, or wait for one; *)
(* the contract is folded from the events of the conversation being left,  *)
(* for `recorded` is assigned after.                                       *)
Adopt ==
    /\ load # None /\ load.file # None
    /\ session' = IF session = None THEN None
                  ELSE Restored(MessagesAt(load.file), ContractOf(recorded))
    /\ pendingRestore' = IF session = None THEN MessagesAt(load.file) ELSE None
    /\ conversationId' = load.conv
    /\ recorded' = EventsAt(load.file)
    /\ turnOrdinal' = NextOrdinal(load.file)
    /\ skipped' = IF {id \in issued : id[1] = load.conv} \subseteq Ids(load.file)
                  THEN skipped ELSE skipped \cup {load.conv}
    /\ turn' = IF session = None THEN turn ELSE Detached(turn)
    /\ Leaving
    /\ load' = None
    /\ UNCHANGED <<disk, jobs, saving, asked, moves, home, issued, rebuildFailed>>

\* The fields newConversation and deleteConversation clear.
Cleared ==
    /\ Leaving
    /\ conversationId' = None /\ turnOrdinal' = 0
    /\ recorded' = <<>> /\ pendingRestore' = None

NewConversation ==
    /\ CanMove
    /\ Cleared
    /\ session' = IF session = None THEN None ELSE [session EXCEPT !.messages = <<>>]
    /\ turn' = IF session = None THEN turn ELSE Detached(turn)
    /\ moves' = moves + 1
    /\ UNCHANGED <<disk, jobs, saving, load, asked, home, issued, skipped, rebuildFailed>>

\* A changed key: reset() drops the session as well.
Rekey ==
    /\ CanMove
    /\ Cleared
    /\ session' = None
    /\ turn' = Detached(turn)
    /\ moves' = moves + 1
    /\ UNCHANGED <<disk, jobs, saving, load, asked, home, issued, skipped, rebuildFailed>>

\* remove() does not wait for the queue: a turn on its way there makes the file anew.
DeleteConversation ==
    /\ CanMove
    /\ \E c \in Conversations :
           /\ disk[c] # None
           /\ disk' = [disk EXCEPT ![c] = None]
           /\ IF conversationId = c
              THEN /\ Cleared
                   /\ session' = IF session = None THEN None ELSE [session EXCEPT !.messages = <<>>]
                   /\ turn' = IF session = None THEN turn ELSE Detached(turn)
              ELSE UNCHANGED <<host, session, turn, moved, dropped>>
           /\ skipped' = IF \E j \in Range(jobs) : j.conv = c THEN skipped \cup {c} ELSE skipped
    /\ moves' = moves + 1
    /\ UNCHANGED <<jobs, saving, load, asked, home, issued, rebuildFailed>>

\* createBranch (a restored checkpoint is one), switchBranch, deleteBranch.
ChangeBranch ==
    /\ CanMove /\ conversationId # None /\ disk[conversationId] # None
    /\ \/ \E b \in Branches, id \in Ids(disk[conversationId]) :
              jobs' = Append(jobs, [what |-> "fork", conv |-> conversationId, branch |-> b, from |-> id])
       \/ \E b \in {Main} \cup Branches :
              jobs' = Append(jobs, [what |-> "switch", conv |-> conversationId, branch |-> b])
       \/ \E b \in Branches :
              jobs' = Append(jobs, [what |-> "remove", conv |-> conversationId, branch |-> b])
    /\ moves' = moves + 1
    /\ UNCHANGED <<disk, host, session, turn, saving, load, asked, history>>
-----------------------------------------------------------------------------
(* A turn. *)

Unused == {c \in Conversations : disk[c] = None /\ \A id \in issued : id[1] # c}
Fresh == CHOOSE c \in Unused : TRUE
Opened == IF conversationId = None THEN Fresh ELSE conversationId

\* The claim every send begins with: the id is issued and the question recorded.
Claim ==
    /\ turn = None /\ asked < MaxExchanges
    /\ conversationId # None \/ Unused # {}
    /\ asked' = asked + 1
    /\ conversationId' = Opened
    /\ turnOrdinal' = turnOrdinal + 1
    /\ home' = Append(home, Opened)
    /\ issued' = issued \cup {<<Opened, turnOrdinal>>}

Send ==
    /\ Claim
    /\ recorded' = Append(recorded, <<asked + 1, "ask">>)
    /\ turn' = [e |-> asked + 1, id |-> <<Opened, turnOrdinal>>, events |-> <<<<asked + 1, "ask">>>>,
                stage |-> "routing", contract |-> FALSE, start |-> 0, attached |-> TRUE, carried |-> <<>>]
    /\ UNCHANGED <<disk, jobs, pendingEvents, pendingRestore, session, saving, load, moves,
                   moved, dropped, skipped, rebuildFailed>>

(* A question about the state of the work is answered from the record, in  *)
(* one go, when there is a record.                                         *)
AnswerFromRecord ==
    /\ Claim /\ saving = None /\ recorded # <<>>
    /\ LET events == <<<<asked + 1, "ask">>, <<asked + 1, "status">>>>
       IN  /\ recorded' = recorded \o events
           /\ saving' = [e |-> asked + 1, id |-> <<Opened, turnOrdinal>>, events |-> events]
    /\ UNCHANGED <<disk, jobs, pendingEvents, pendingRestore, session, turn, load, moves,
                   moved, dropped, skipped, rebuildFailed>>

\* The end of a turn, before its save; events is what it kept.
Ended(events) ==
    /\ saving = None
    /\ saving' = [e |-> turn.e, id |-> turn.id, events |-> events]
    /\ turn' = None

\* routeTurn records what the request asks for, or cannot (a hand-picked model).
Route ==
    /\ turn # None /\ turn.stage = "routing"
    /\ \E who \in Recorders :
           LET said == IF who = "router" THEN <<<<turn.e, "contract">>>> ELSE <<>> IN
           /\ recorded' = recorded \o said
           /\ turn' = [turn EXCEPT !.stage = "resolving", !.events = @ \o said, !.contract = said # <<>>]
    /\ UNCHANGED <<disk, jobs, conversationId, turnOrdinal, pendingEvents, pendingRestore, session,
                   saving, load, asked, moves, history>>

\* applyPendingRestore: a conversation that waits for a session replaces what it holds.
Holding(s) ==
    IF pendingRestore = None THEN s
    ELSE [s EXCEPT !.messages = pendingRestore, !.contract = ContractOf(recorded)]

\* Mutant of StartOf: the system message is not counted.
StartEarly(s) == IF s.messages = <<>> THEN 0 ELSE Len(s.messages) - 1

\* deltaStart: where the turn's own messages begin (the system message aside).
StartOf(s) == Len(s.messages)

\* What the routing recorded is folded before the worker runs.
Contracted(s) == IF turn.contract THEN [s EXCEPT !.contract = ContractOf(recorded)] ELSE s

\* Mutant of Carried: the replacement starts without the messages of the old one.
CarriedNothing == <<>>

\* What moves to the session that replaces this one.
Carried == IF session = None THEN <<>> ELSE session.messages

(* The session is there: the contract the routing recorded is installed,   *)
(* and the question goes to the model, unless the ceiling of the turn has  *)
(* passed meanwhile (setup_timeout).                                       *)
Ready(s) ==
    LET ready == Contracted(s)
    IN  /\ \/ /\ session' = [ready EXCEPT !.messages = Append(@, <<turn.e, "ask">>)]
              /\ turn' = [turn EXCEPT !.stage = "talking", !.start = StartOf(ready),
                                      !.attached = TRUE, !.carried = <<>>]
              /\ UNCHANGED saving
           \/ session' = ready /\ Ended(turn.events)
        /\ pendingRestore' = None
        /\ UNCHANGED <<disk, jobs, conversationId, turnOrdinal, recorded, pendingEvents,
                       load, asked, moves, history>>

\* ensureSession with the session that is there.
Reuse ==
    /\ turn # None /\ turn.stage = "resolving" /\ saving = None /\ session # None
    /\ Ready(Holding(session))

\* No provider, no folder, no model: the turn ends, the session stays.
Refuse ==
    /\ turn # None /\ turn.stage = "resolving"
    /\ Ended(turn.events)
    /\ UNCHANGED <<disk, jobs, host, session, load, asked, moves, history>>

\* Another model is needed: the session is dropped before its replacement is there.
Rebuild ==
    /\ turn # None /\ turn.stage = "resolving" /\ saving = None
    /\ turn' = [turn EXCEPT !.stage = "opening", !.carried = Carried]
    /\ session' = None
    /\ UNCHANGED <<disk, jobs, host, saving, load, asked, moves, history>>

OpenDone ==
    /\ turn # None /\ turn.stage = "opening"
    /\ Ready(Holding([messages |-> turn.carried, lastDelta |-> <<>>, contract |-> {}]))

\* The limits, the commands or the session cannot be had: the turn throws.
OpenFails ==
    /\ turn # None /\ turn.stage = "opening"
    /\ Ended(turn.events)
    /\ rebuildFailed' = (rebuildFailed \/ turn.carried # <<>>)
    /\ UNCHANGED <<disk, jobs, host, session, load, asked, moves, home, issued, moved, dropped, skipped>>

(* The loop ends, with an answer or without, the request recorded by the   *)
(* worker if nobody had.  The delta is cut from the array the session has  *)
(* now, at the index of the one it had: one more, when the system message  *)
(* went with the array.                                                    *)
Talk ==
    /\ turn # None /\ turn.stage = "talking"
    /\ \E noted \in {<<>>} \cup IF "worker" \in Recorders /\ ~turn.contract
                              THEN {<<<<turn.e, "contract">>>>} ELSE {},
          said \in {<<>>, <<<<turn.e, "answer">>>>} :
           /\ recorded' = recorded \o noted \o said
           /\ Ended(turn.events \o noted \o said)
           /\ IF session = None THEN UNCHANGED session
              ELSE LET messages == IF turn.attached THEN session.messages \o said ELSE session.messages
                       cut == IF turn.attached THEN turn.start ELSE turn.start + 1
                   IN  session' = [messages |-> messages,
                                   lastDelta |-> SubSeq(messages, cut + 1, Len(messages)),
                                   contract |-> session.contract \cup Exchanges(noted)]
    /\ UNCHANGED <<disk, jobs, conversationId, turnOrdinal, pendingEvents, pendingRestore,
                   load, asked, moves, history>>

\* Mutant of HeldBack: what was held back is held on to after it is stored.
HeldOn(events) == IF session = None THEN pendingEvents \o events ELSE pendingEvents

\* Mutant of HeldBack: with no session the events are let go.
HeldNot(events) == IF session = None THEN pendingEvents ELSE <<>>

\* With no session the events wait for the next turn that is saved.
HeldBack(events) == IF session = None THEN pendingEvents \o events ELSE <<>>

(* persistTurn, after it has looked up the workspace: the two halves are   *)
(* taken together and queued under the conversation the host is in by now. *)
Persist ==
    /\ saving # None
    /\ conversationId # None \/ Unused # {}
    /\ IF session = None
       THEN UNCHANGED <<jobs, session, conversationId>>
       ELSE /\ conversationId' = Opened
            /\ jobs' = Append(jobs, [what |-> "turn", conv |-> Opened, id |-> saving.id,
                                     events |-> pendingEvents \o saving.events, delta |-> session.lastDelta])
            /\ session' = [session EXCEPT !.lastDelta = <<>>]
    /\ pendingEvents' = HeldBack(saving.events)
    /\ saving' = None
    /\ UNCHANGED <<disk, turnOrdinal, recorded, pendingRestore, turn, load, asked, moves, history>>

Moving == Open \/ NewConversation \/ Rekey \/ DeleteConversation \/ ChangeBranch
Working == \/ Route \/ Reuse \/ Refuse \/ Rebuild \/ OpenDone \/ OpenFails \/ Talk \/ Persist
           \/ Write \/ Read \/ Adopt

\* What ends on its own account: everything but the loop.
Unattended == \/ Route \/ Reuse \/ Refuse \/ Rebuild \/ OpenDone \/ OpenFails \/ Persist
              \/ Write \/ Read \/ Adopt

Next == Send \/ AnswerFromRecord \/ Moving \/ Working

(* What a turn does before its loop is under the turn's ceiling, and a read *)
(* or a write ends, well or badly.  The loop need not end: the question an  *)
(* approval asks (agentHost.ts:1858-1873) has no signal and no timer, so a  *)
(* user who never answers it holds the turn for ever.                       *)
Fairness == WF_vars(Unattended)

Spec == Init /\ [][Next]_vars /\ Fairness
-----------------------------------------------------------------------------
(* Properties. *)

(* What happened is stored once: no two turns, of any conversation, hold   *)
(* the same event, though events of turns that could not be saved travel   *)
(* with a later one (agentHost.ts:1789-1798).                              *)
EventsStoredOnce ==
    LET turns == UNION {{<<c, t>> : t \in Stored(disk[c])} : c \in Conversations}
    IN  \A x, y \in turns : x # y => Range(x[2].events) \cap Range(y[2].events) = {}

(* The halves of a stored turn stopped at the same moment: the answers the *)
(* screen shows are those the model remembers (agentHost.ts:1763-1768),    *)
(* unless the user left before it was saved.                               *)
HalvesAgree ==
    \A c \in Conversations : \A t \in Stored(disk[c]) :
        LET seen == Kind(t.events, "answer")
            read == Kind(t.delta, "answer")
        IN  seen = read \/ Exchanges(t.events) \cap moved # {}

(* Between turns the model's history holds the answers on the screen, in   *)
(* their order, after any opening, forking, switching, replacing of the    *)
(* session: agentHost.ts:1566-1576.                                        *)
ModelReadsTheScreen ==
    turn = None /\ session # None =>
        Kind(session.messages, "answer") = Kind(recorded, "answer")

\* ... as long as nobody left in the middle of a turn and no replacement failed.
ModelReadsUnlessMoved == moved = {} /\ ~rebuildFailed => ModelReadsTheScreen

(* That takes a conversation adopted while one of its turns was not in the *)
(* file (never saved, saved late or failed to), or deleted with a turn on  *)
(* its way to the file (conversationStore.ts:694), or a turn the user left *)
(* in the middle of.  Without that every turn stays, whatever is forked,   *)
(* switched and removed.                                                   *)
TurnsKeptUnlessSkipped ==
    [][\A c \in Conversations : disk[c] # None /\ disk'[c] # None /\ c \notin skipped =>
           \A token \in StoredEvents(disk[c]) \ StoredEvents(disk'[c]) : token[1] \in moved]_vars

InFlight(e) == (turn # None /\ turn.e = e) \/ (saving # None /\ saving.e = e)
Reached(e) == \/ \E c \in Conversations : <<e, "ask">> \in StoredEvents(disk[c])
              \/ e \in Exchanges(pendingEvents) \cup dropped

\* The loop of exchange e is running, or waits for an approval.
Talking(e) == turn # None /\ turn.e = e /\ turn.stage = "talking"

(* What the user typed is kept (agentHost.ts:1177-1181): a question        *)
(* reaches a file, or waits for the next turn that does, unless the write  *)
(* fails or the user leaves while it waits.  The save is in send's finally *)
(* (:1173-1182), so a loop that is held by an unanswered approval has not  *)
(* saved it: from the moment the loop ends it is as certain as ever.       *)
QuestionReachesTheFile == InFlight(Watched) ~> (Reached(Watched) \/ Talking(Watched))
=============================================================================
