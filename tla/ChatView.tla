------------------------------ MODULE ChatView ------------------------------
(***************************************************************************)
(* The chat view: its window (extension/agent/chatPanel.ts), what runs in  *)
(* it (media/chat.js) and the controller that answers its clicks           *)
(* (controller.ts).  A click is a message; each message has a handler of   *)
(* its own, which runs between its awaits while others do; and a handler   *)
(* ends with a push, which composes the state of the panel over several    *)
(* awaits and posts it.  The user closes the window and opens it again     *)
(* under all of them.                                                      *)
(*                                                                         *)
(* Of a state the view keeps whether it is busy and the staged files, of   *)
(* the host what it has recorded: the events of the turns, numbers in the  *)
(* order they happened, and the messages of the user, numbered as they are *)
(* sent.  A message is drawn by the click that sends it, and recorded *)
(* when its turn begins, which posts it to nobody.  Where a message stands *)
(* among the events is left out, like notices, what the routing of a turn  *)
(* records, progress, requirements and pictures.  A click that leads to    *)
(* nothing but a push is a "push".  What the host posts arrives at once: a *)
(* click made before it arrives is a click that was long in the mail.      *)
(***************************************************************************)
EXTENDS Naturals, FiniteSets, Sequences

CONSTANTS
    Attachments,
    Handlers,     \* messages and commands that may be under way at once
    MaxClicks,    \* bound: clicks and commands of the user
    MaxWindows,   \* bound: times the view is opened
    MaxEvents,    \* bound: events of all turns
    NoOne

ASSUME ChatAssumption ==
    /\ MaxClicks \in Nat /\ MaxWindows \in Nat /\ MaxEvents \in Nat /\ NoOne \notin Handlers

\* The events of the conversation that may be opened from the history.
FromHistory == <<0>>
Clicks == {"push", "send", "attach", "remove", "newChat", "openConversation", "delete", "rekey"}

VARIABLES
    running,    \* host: the handler whose turn runs, or NoOne
    transcript, \* host: the events of the conversation it is in
    said,       \* host: the messages of that conversation
    happened,   \* events so far
    staged,     \* files staged for the next message
    panel,      \* the open window, or 0
    windows,    \* windows opened so far
    view,       \* [busy, files, drawn, said]: what the open window shows
    mail,       \* clicks on their way: [kind, file, message]
    handler,    \* [kind, stage, files, message, panel, seen]
    clicks,     \* clicks so far
    sent,       \* messages sent so far
    \* History.
    fate,       \* what became of each file: turns it went with, and whether it was taken off
    overlapped, \* a message was accepted while another waited for its turn
    strayed,    \* the host left its conversation without a word to the view, or while "newChat" was in the mail
    threw,      \* a turn ended with an error the host did not catch
    redrawn,    \* messages on their way when the view was last drawn anew
    refused     \* messages turned away since

chatHost == <<running, transcript, said, happened>>
user == <<clicks, sent>>
window == <<panel, windows, view, mail>>
redraw == <<redrawn, refused>>
chatHistory == <<fate, overlapped, strayed, threw, redraw>>
chatVars == <<chatHost, staged, window, handler, user, chatHistory>>

Blank == [busy |-> FALSE, files |-> {}, drawn |-> <<>>, said |-> {}]
Idle == [kind |-> "push", stage |-> "idle", files |-> {}, message |-> 0, panel |-> 0, seen |-> {}]
At(h, stage) == handler[h].stage = stage
Waits(h) == handler[h].kind = "send" /\ handler[h].stage \in {"drawing", "drawn", "starting"}
Clearing == \E i \in DOMAIN mail : mail[i].kind = "newChat"

\* Messages sent and not yet recorded: in the mail, or with a handler that waits.
Posted == {mail[i].message : i \in {j \in DOMAIN mail : mail[j].kind = "send"}}
Waiting == {handler[h].message : h \in {g \in Handlers : Waits(g)}}
OnTheWay == Posted \cup Waiting

\* No message is 0.
Messages == 0..MaxClicks
Screens == [busy : BOOLEAN, files : SUBSET Attachments, drawn : Seq(0..MaxEvents),
            said : SUBSET Messages]
Letters == [kind : Clicks, file : Attachments \cup {NoOne}, message : Messages]
HandlerStates == [kind : Clicks \cup {"open"},
                  stage : {"idle", "asking", "drawing", "drawn", "starting", "running", "saving"},
                  files : SUBSET Attachments, message : Messages, panel : 0..MaxWindows,
                  seen : SUBSET Attachments]
Fates == [turns : Nat, off : BOOLEAN, attached : BOOLEAN]

ChatTypeOK ==
    /\ running \in Handlers \cup {NoOne}
    /\ transcript \in Seq(0..MaxEvents) /\ happened \in 0..MaxEvents
    /\ said \subseteq Messages
    /\ staged \subseteq Attachments
    /\ panel \in 0..MaxWindows /\ windows \in 0..MaxWindows
    /\ view \in Screens /\ mail \in Seq(Letters)
    /\ handler \in [Handlers -> HandlerStates]
    /\ clicks \in 0..MaxClicks /\ sent \in 0..clicks
    /\ fate \in [Attachments -> Fates]
    /\ overlapped \in BOOLEAN /\ strayed \in BOOLEAN /\ threw \in BOOLEAN
    /\ refused \subseteq Messages /\ redrawn \subseteq Messages

ChatInit ==
    /\ running = NoOne /\ transcript = <<>> /\ said = {} /\ happened = 0
    /\ staged = {}
    /\ panel = 0 /\ windows = 0 /\ view = Blank /\ mail = <<>>
    /\ handler = [h \in Handlers |-> Idle]
    /\ clicks = 0 /\ sent = 0
    /\ fate = [f \in Attachments |-> [turns |-> 0, off |-> FALSE, attached |-> FALSE]]
    /\ overlapped = FALSE /\ strayed = FALSE /\ threw = FALSE
    /\ refused = {} /\ redrawn = {}

-----------------------------------------------------------------------------
(* The window. *)

\* The view is drawn anew.
Redraws == redrawn' = OnTheWay /\ refused' = {}

\* A click: what is disabled while the view is busy cannot be clicked.  A message
\* is drawn, and "newChat" clears the view, before the host hears of it.
Click(kind, file) ==
    /\ panel # 0 /\ clicks < MaxClicks
    /\ kind \in {"send", "attach"} => ~view.busy
    /\ IF kind = "remove" THEN file \in view.files ELSE file = NoOne
    /\ clicks' = clicks + 1
    /\ sent' = IF kind = "send" THEN sent + 1 ELSE sent
    /\ mail' = Append(mail, [kind |-> kind, file |-> file, message |-> IF kind = "send" THEN sent + 1 ELSE 0])
    /\ view' = CASE kind = "newChat" -> [view EXCEPT !.drawn = <<>>, !.said = {}]
                 [] kind = "send" -> [view EXCEPT !.said = @ \cup {sent + 1}]
                 [] OTHER -> view
    /\ strayed' = IF kind = "newChat" THEN FALSE ELSE strayed
    /\ IF kind = "newChat" THEN Redraws ELSE UNCHANGED redraw
    /\ UNCHANGED <<chatHost, staged, panel, windows, handler, fate, overlapped, threw>>

\* The window is closed: it is the controller's no longer, nor are its clicks.
Close ==
    /\ panel # 0
    /\ panel' = 0 /\ view' = Blank /\ mail' = <<>>
    /\ UNCHANGED <<chatHost, staged, windows, handler, user, chatHistory>>

-----------------------------------------------------------------------------
(* A push: this.panel is looked at first, and the state composed after.    *)

\* Where a handler goes after a push: open() validates the key, if there is one.
After(o) ==
    CASE o.kind = "send" -> {[o EXCEPT !.stage = "starting", !.seen = {}]}
      [] o.kind = "open" -> {Idle, [Idle EXCEPT !.stage = "asking"]}
      [] OTHER -> {Idle}

Pushes(h, o) ==
    \E next \in IF panel # 0 THEN {[o EXCEPT !.stage = "drawing", !.panel = panel]} ELSE After(o) :
        handler' = [handler EXCEPT ![h] = next]

\* The first half of a state, up to the list of conversations.
Draw(h) ==
    /\ At(h, "drawing")
    /\ handler' = [handler EXCEPT ![h].stage = "drawn", ![h].seen = staged]
    /\ UNCHANGED <<chatHost, staged, window, user, chatHistory>>

\* The second half is read, and the state posted to the window of the push.
Post(h) ==
    /\ At(h, "drawn")
    /\ view' = IF handler[h].panel # panel THEN view
               ELSE [view EXCEPT !.busy = running # NoOne, !.files = handler[h].seen]
    /\ \E next \in After(handler[h]) : handler' = [handler EXCEPT ![h] = next]
    /\ UNCHANGED <<chatHost, staged, panel, windows, mail, user, chatHistory>>

-----------------------------------------------------------------------------
(* Messages. *)

\* The next click has come: its handler h starts, and does what it does at once.
Takes(h, kind) == At(h, "idle") /\ mail # <<>> /\ Head(mail).kind = kind /\ mail' = Tail(mail)

\* Mutant of Accept: the files stay for the next message too.
AcceptKeeps(h) ==
    /\ Takes(h, "send") /\ running = NoOne
    /\ Pushes(h, [Idle EXCEPT !.kind = "send", !.files = staged, !.message = Head(mail).message])
    /\ overlapped' = (overlapped \/ \E g \in Handlers : Waits(g))
    /\ UNCHANGED <<chatHost, staged, panel, windows, view, user, fate, strayed, threw, redraw>>

\* send(): no turn runs yet, and a push comes before the turn.
Accept(h) ==
    /\ Takes(h, "send") /\ running = NoOne
    /\ Pushes(h, [Idle EXCEPT !.kind = "send", !.files = staged, !.message = Head(mail).message])
    /\ staged' = {}
    /\ overlapped' = (overlapped \/ \E g \in Handlers : Waits(g))
    /\ UNCHANGED <<chatHost, panel, windows, view, user, fate, strayed, threw, redraw>>

\* send() while a turn runs: the user is told so.
TurnAway(h) ==
    /\ Takes(h, "send") /\ running # NoOne
    /\ refused' = refused \cup {Head(mail).message}
    /\ Pushes(h, Idle)
    /\ UNCHANGED <<chatHost, staged, panel, windows, view, user, fate, overlapped, strayed, threw, redrawn>>

TakeOff(h) ==
    /\ Takes(h, "remove")
    /\ staged' = staged \ {Head(mail).file}
    /\ fate' = [fate EXCEPT ![Head(mail).file].off = TRUE]
    /\ Pushes(h, Idle)
    /\ UNCHANGED <<chatHost, panel, windows, view, user, overlapped, strayed, threw, redraw>>

\* The view has cleared itself, and is not cleared again.
NewChat(h) ==
    /\ Takes(h, "newChat")
    /\ transcript' = <<>> /\ said' = {}
    /\ Pushes(h, Idle)
    /\ UNCHANGED <<running, happened, staged, panel, windows, view, user, chatHistory>>

\* What begins with an await: a dialog, a file, a request.
Asks(h) ==
    /\ \E kind \in {"push", "attach", "openConversation", "delete", "rekey"} :
           /\ Takes(h, kind)
           /\ handler' = [handler EXCEPT ![h] = [Idle EXCEPT !.kind = kind, !.stage = "asking"]]
    /\ UNCHANGED <<chatHost, staged, panel, windows, view, user, chatHistory>>

\* open(): a new window, or the one there is, with what has been recorded.
OpenView(h) ==
    /\ At(h, "idle") /\ clicks < MaxClicks /\ (panel = 0 => windows < MaxWindows)
    /\ clicks' = clicks + 1 /\ UNCHANGED sent
    /\ handler' = [handler EXCEPT ![h] = [Idle EXCEPT !.kind = "open", !.stage = "asking"]]
    /\ IF panel = 0
       THEN /\ windows' = windows + 1 /\ panel' = windows + 1
            /\ view' = [Blank EXCEPT !.drawn = transcript, !.said = said]
            /\ mail' = <<[kind |-> "push", file |-> NoOne, message |-> 0]>>
            /\ strayed' = FALSE /\ Redraws
       ELSE /\ IF transcript = <<>> /\ said = {} THEN UNCHANGED <<view, strayed, redraw>>
               ELSE /\ view' = [view EXCEPT !.drawn = transcript, !.said = said]
                    /\ strayed' = Clearing /\ Redraws
            /\ UNCHANGED <<panel, windows, mail>>
    /\ UNCHANGED <<chatHost, staged, fate, overlapped, threw>>

-----------------------------------------------------------------------------
(* After an await. *)

\* The catalogue was refreshed, the models verified, the key checked, ...
Asked(h) ==
    /\ At(h, "asking") /\ handler[h].kind \in {"push", "open"}
    /\ Pushes(h, handler[h])
    /\ UNCHANGED <<chatHost, staged, window, user, chatHistory>>

\* One of the files the user picked has been read.
Attach(h) ==
    /\ At(h, "asking") /\ handler[h].kind = "attach"
    /\ \E f \in Attachments :
           /\ ~fate[f].attached
           /\ staged' = staged \cup {f}
           /\ fate' = [fate EXCEPT ![f].attached = TRUE]
    /\ UNCHANGED <<chatHost, window, handler, user, overlapped, strayed, threw, redraw>>

Attached(h) ==
    /\ At(h, "asking") /\ handler[h].kind = "attach"
    /\ Pushes(h, Idle)
    /\ UNCHANGED <<chatHost, staged, window, user, chatHistory>>

\* The dialog was closed, the conversation is gone, no key was entered.
Nothing(h) ==
    /\ At(h, "asking") /\ handler[h].kind \in {"attach", "openConversation", "rekey"}
    /\ handler' = [handler EXCEPT ![h] = Idle]
    /\ UNCHANGED <<chatHost, staged, window, user, chatHistory>>

\* The host moves to a stored conversation, and the transcript is posted.
ShowStored(h) ==
    /\ At(h, "asking") /\ handler[h].kind = "openConversation"
    /\ transcript' = FromHistory /\ said' = {}
    /\ view' = IF panel = 0 THEN view ELSE [view EXCEPT !.drawn = FromHistory, !.said = {}]
    /\ strayed' = Clearing /\ Redraws
    /\ Pushes(h, Idle)
    /\ UNCHANGED <<running, happened, staged, panel, windows, mail, user, fate, overlapped, threw>>

\* The open conversation is deleted, or belongs to a key that is no longer there.
Abandoned(h) ==
    /\ At(h, "asking") /\ handler[h].kind \in {"delete", "rekey"}
    /\ transcript' = <<>> /\ said' = {}
    /\ strayed' = TRUE
    /\ Pushes(h, Idle)
    /\ UNCHANGED <<running, happened, staged, window, user, fate, overlapped, threw, redraw>>

-----------------------------------------------------------------------------
(* A turn. *)

\* host.send(): the turn begins, and its message is recorded and posted to no
\* window; or another turn has begun meanwhile.
Start(h) ==
    /\ At(h, "starting")
    /\ \/ /\ running = NoOne
          /\ running' = h
          /\ said' = said \cup {handler[h].message}
          /\ handler' = [handler EXCEPT ![h] = [Idle EXCEPT !.kind = "send", !.stage = "running"]]
          /\ fate' = [f \in Attachments |-> IF f \in handler[h].files THEN [fate[f] EXCEPT !.turns = @ + 1] ELSE fate[f]]
          /\ UNCHANGED refused
       \/ /\ running # NoOne
          /\ refused' = refused \cup {handler[h].message}
          /\ Pushes(h, Idle)
          /\ UNCHANGED <<running, said, fate>>
    /\ UNCHANGED <<transcript, happened, staged, window, user, overlapped, strayed, threw, redrawn>>

\* Mutant of Event: it goes to the first window, open or not.
EventToFirst(h) ==
    /\ At(h, "running") /\ happened < MaxEvents
    /\ happened' = happened + 1
    /\ transcript' = Append(transcript, happened')
    /\ view' = IF panel # 1 THEN view ELSE [view EXCEPT !.drawn = Append(@, happened')]
    /\ strayed' = (strayed \/ Clearing)
    /\ UNCHANGED <<running, said, staged, panel, windows, mail, handler, user, fate, overlapped, threw,
                   redraw>>

\* An event is recorded, and drawn in whichever window is open.
Event(h) ==
    /\ At(h, "running") /\ happened < MaxEvents
    /\ happened' = happened + 1
    /\ transcript' = Append(transcript, happened')
    /\ view' = IF panel = 0 THEN view ELSE [view EXCEPT !.drawn = Append(@, happened')]
    /\ strayed' = (strayed \/ Clearing)
    /\ UNCHANGED <<running, said, staged, panel, windows, mail, handler, user, fate, overlapped, threw,
                   redraw>>

\* The host is free again before the turn is saved.
End(h) ==
    /\ At(h, "running")
    /\ running' = NoOne
    /\ handler' = [handler EXCEPT ![h].stage = "saving"]
    /\ UNCHANGED <<transcript, said, happened, staged, window, user, chatHistory>>

\* Mutant of Saved: a turn that came to nothing is told of and no more.
SavedOrNot(h) ==
    /\ At(h, "saving")
    /\ Pushes(h, Idle) \/ handler' = [handler EXCEPT ![h] = Idle]
    /\ UNCHANGED <<chatHost, staged, window, user, chatHistory>>

\* host.send() returns to the controller, or throws: then nothing is pushed.
Saved(h) ==
    /\ At(h, "saving")
    /\ \/ Pushes(h, Idle) /\ UNCHANGED threw
       \/ handler' = [handler EXCEPT ![h] = Idle] /\ threw' = TRUE
    /\ UNCHANGED <<chatHost, staged, window, user, fate, overlapped, strayed, redraw>>

-----------------------------------------------------------------------------
Handles(h) ==
    \/ Accept(h) \/ TurnAway(h) \/ TakeOff(h) \/ NewChat(h) \/ Asks(h)
    \/ Draw(h) \/ Post(h)
    \/ Asked(h) \/ Attach(h) \/ Attached(h) \/ Nothing(h) \/ ShowStored(h) \/ Abandoned(h)
    \/ Start(h) \/ Event(h) \/ End(h) \/ Saved(h)

ChatNext ==
    \/ \E kind \in Clicks, file \in Attachments \cup {NoOne} : Click(kind, file)
    \/ Close
    \/ \E h \in Handlers : OpenView(h) \/ Handles(h)

ChatSpec == ChatInit /\ [][ChatNext]_chatVars
-----------------------------------------------------------------------------
(* Properties. *)

(* A file goes with one message: until it does it is staged or with a      *)
(* message that waits for its turn, it never goes with two, and it is lost *)
(* only when two messages overtook each other: controller.ts:464, "a       *)
(* failed send should not silently re-attach the same files to whatever    *)
(* the user types next".                                                   *)
FilesGoOnceUnlessOverlapped ==
    \A f \in Attachments :
        LET waiting == {h \in Handlers : Waits(h) /\ f \in handler[h].files}
            places == Cardinality(waiting) + fate[f].turns + IF f \in staged THEN 1 ELSE 0
        IN  /\ places <= 1
            /\ fate[f].attached /\ ~fate[f].off /\ ~overlapped => places = 1

(* The view's composer comes back: a window that shows a turn as running   *)
(* has one, or a push is on its way to it that will say otherwise.  A turn *)
(* whose error is not caught is told of by a notice and by no push.        *)
BusyIsNotStuck ==
    view.busy /\ ~threw =>
        \/ running # NoOne
        \/ \E h \in Handlers : \/ At(h, "saving")
                               \/ handler[h].stage \in {"drawing", "drawn"} /\ handler[h].panel = panel

(* The window shows the events the host has recorded, each once and in     *)
(* their order, also when it was closed and opened in the middle of a turn *)
(* (controller.ts:84, "Reopening shows what was already said"), and the    *)
(* messages too, with two exceptions.  A message that was on its way when  *)
(* the view was drawn anew is recorded without being drawn                 *)
(* (agentHost.ts:1090), and one that was turned away is drawn and not      *)
(* recorded, with a notice beside it.                                      *)
ScreenIsTheRecordUnlessStrayed ==
    panel # 0 /\ ~strayed /\ ~Clearing =>
        /\ view.drawn = transcript
        /\ said \ view.said \subseteq redrawn
        /\ view.said \ said \subseteq OnTheWay \cup refused
=============================================================================
