----------------------------- MODULE EventStream -----------------------------
(***************************************************************************)
(* How a run's events reach a client that may lose its connection:          *)
(* RunEventLog (src/core/events.ts) keeps every event and replays it, the   *)
(* handler of GET /runs/:id/events (src/server/app.ts) writes the log to a   *)
(* connection and ends it at the first final status, and an EventSource      *)
(* client reconnects with the id of the last event it received.              *)
(*                                                                          *)
(* An event is "end" (a run.status event with a final status) or "progress" *)
(* (any other); its id is its place in the log.  What is written to a        *)
(* connection travels on its `wire`.                                         *)
(***************************************************************************)
EXTENDS Integers, Sequences, FiniteSets

CONSTANTS
  MaxEvents,      \* bound on the events of the run
  MaxConnections  \* bound on the connections of a behaviour

ASSUME StreamAssumption == MaxEvents \in Nat /\ MaxConnections \in Nat

VARIABLES
  events,     \* RunEventLog.events
  closed,     \* RunEventLog.closed
  listeners,  \* connections whose listener is registered with the log
  wire,       \* connection -> ids written and not yet read by the client
  ended,      \* connections the handler has called raw.end() on
  opened,     \* connections opened so far; the last one is the client's
  live,       \* the client holds its last connection to be open
  inbox       \* ids the client received, in order

logVars == <<events, closed>>
streamVars == <<logVars, listeners, wire, ended, opened, live, inbox>>

Connections == 1..MaxConnections
Kinds == {"progress", "end"}

-----------------------------------------------------------------------------
StreamInit ==
  /\ events = <<>> /\ closed = FALSE /\ listeners = {} /\ ended = {}
  /\ wire = [c \in Connections |-> <<>>]
  /\ opened = 0 /\ live = FALSE /\ inbox = <<>>

\* publish(): append, then call every listener in the same step.  A listener
\* whose stream was ended is still registered until "close"; what it writes
\* then is lost.
Publish(kind) ==
  LET id == Len(events) + 1
  IN /\ ~closed
     /\ Len(events) < MaxEvents
     /\ events' = Append(events, kind)
     /\ wire' = [c \in Connections |-> IF c \in listeners \ ended
                                         THEN Append(wire[c], id) ELSE wire[c]]
     /\ ended' = IF kind = "end" THEN ended \cup listeners ELSE ended
     /\ UNCHANGED <<closed, listeners, opened, live, inbox>>

\* Mutant of LastEventId: the header is not read.
NoLastEventId == 0
\* Where the client is: the id it sends when it reconnects.
LastEventId == Len(inbox)

\* Mutant of ReplayedUpTo: only new events are delivered.
NothingReplayed(from, to) == to = from
\* The last event a replay from `from` writes before it ends the stream.
ReplayedUpTo(from, to) ==
  /\ to \in from..Len(events)
  /\ \A i \in (from + 1)..(to - 1) : events[i] # "end"
  /\ to < Len(events) => to > from /\ events[to] = "end"

Register(c) == listeners' = IF closed THEN listeners ELSE listeners \cup {c}

\* The client (re)connects with Last-Event-ID; subscribe() replays the rest
\* of the log through the listener and registers it unless the log is closed.
Connect ==
  LET from == LastEventId
      c == opened + 1
  IN /\ ~live
     /\ opened < MaxConnections
     /\ opened' = c
     /\ live' = TRUE
     /\ \E to \in from..Len(events) :
          /\ ReplayedUpTo(from, to)
          /\ wire' = [wire EXCEPT ![c] = [k \in 1..(to - from) |-> from + k]]
          /\ ended' = IF to > from /\ events[to] = "end" THEN ended \cup {c} ELSE ended
     /\ Register(c)
     /\ UNCHANGED <<logVars, inbox>>

\* The client reads one event.
Receive ==
  /\ live
  /\ wire[opened] # <<>>
  /\ inbox' = Append(inbox, Head(wire[opened]))
  /\ wire' = [wire EXCEPT ![opened] = Tail(@)]
  /\ UNCHANGED <<logVars, listeners, ended, opened, live>>

\* The client reads the end of an ended stream.
ReadEnd ==
  /\ live
  /\ opened \in ended
  /\ wire[opened] = <<>>
  /\ live' = FALSE
  /\ UNCHANGED <<logVars, listeners, wire, ended, opened, inbox>>

\* The connection breaks, and what was on its way is gone.
Drop ==
  /\ live
  /\ live' = FALSE
  /\ wire' = [wire EXCEPT ![opened] = <<>>]
  /\ UNCHANGED <<logVars, listeners, ended, opened, inbox>>

\* Mutant of Close: the listener is left behind.
CloseLeaks(c) == c \in listeners /\ (c < opened \/ ~live) /\ UNCHANGED streamVars

\* The server notices that a connection is gone: unsubscribe().
Close(c) ==
  /\ c \in listeners
  /\ c < opened \/ ~live
  /\ listeners' = listeners \ {c}
  /\ UNCHANGED <<logVars, wire, ended, opened, live, inbox>>

\* EventHub.closeAll() at shutdown, after the server closed its connections.
Shutdown ==
  /\ ~closed
  /\ ~live
  /\ closed' = TRUE
  /\ listeners' = {}
  /\ UNCHANGED <<events, wire, ended, opened, live, inbox>>

StreamNext ==
  \/ \E kind \in Kinds : Publish(kind)
  \/ Connect \/ Receive \/ ReadEnd \/ Drop \/ Shutdown
  \/ \E c \in Connections : Close(c)

StreamSpec == StreamInit /\ [][StreamNext]_streamVars

\* The client reads what arrives and reconnects; the server's sockets close.
\* Connections break only finitely often, MaxConnections being finite.
StreamFairSpec ==
  /\ StreamSpec
  /\ WF_streamVars(Connect) /\ WF_streamVars(Receive) /\ WF_streamVars(ReadEnd)
  /\ \A c \in Connections : WF_streamVars(Close(c))

-----------------------------------------------------------------------------
StreamTypeOK ==
  /\ events \in Seq(Kinds)
  /\ closed \in BOOLEAN
  /\ listeners \subseteq 1..opened
  /\ closed => listeners = {}
  /\ wire \in [Connections -> Seq(Nat)]
  /\ ended \subseteq 1..opened
  /\ opened \in 0..MaxConnections
  /\ live \in BOOLEAN
  /\ inbox \in Seq(Nat)

\* However often the connection broke, and although a replay overlaps what the
\* old connection was still carrying, the client received the log's events
\* from the first, each once, in order.
NoGapNoDuplicate ==
  /\ Len(inbox) <= Len(events)
  /\ \A i \in DOMAIN inbox : inbox[i] = i

\* An open stream is complete: what the client has, followed by what is on
\* its way, is the whole log, up to a final status when the stream was ended.
NothingSkipped ==
  live =>
    LET have == Len(inbox) + Len(wire[opened])
    IN \/ opened \in ended /\ have > 0 /\ events[have] = "end"
       \/ opened \notin ended /\ (have = Len(events) \/ closed)

\* A client that keeps a connection, or may still open one, learns that the
\* run ended: it does not hang on "running" for ever.
EndReachesClient ==
  (\E i \in DOMAIN events : events[i] = "end")
    ~> \/ \E i \in DOMAIN inbox : events[inbox[i]] = "end"
       \/ ~live /\ opened = MaxConnections

\* Listeners of connections that are gone are unregistered.
ListenersReleased ==
  \A c \in Connections : c \in listeners /\ c < opened ~> c \notin listeners

=============================================================================
