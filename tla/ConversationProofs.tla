-------------------------- MODULE ConversationProofs --------------------------
(***************************************************************************)
(* Proofs about Conversation, for any conversations, branches and          *)
(* recorders: where events are, that no exchange is in two places, the     *)
(* types, that the answers on the screen are those the model reads, and    *)
(* that no turn of a file is written over another.                         *)
(***************************************************************************)
EXTENDS Conversation, WellFoundedInduction, FiniteSetTheorems, SequenceTheorems, TLAPS

-----------------------------------------------------------------------------
(* Conversations.  Where events are, and that no exchange is in two places. *)

\* A sequence of whatever it holds.
IsList(s) == s \in Seq(Range(s))

\* The exchanges a place holds events of.
InTurn == IF turn = None THEN {} ELSE {turn.e}
InSaving == IF saving = None THEN {} ELSE {saving.e}
Waiting == Exchanges(pendingEvents)
Queued(i) == IF jobs[i].what = "turn" THEN Exchanges(jobs[i].events) ELSE {}

\* A file keeps its turns in a list, under different ids.
IsFile(file) ==
    /\ {"turns", "heads", "active"} \subseteq DOMAIN file
    /\ IsList(file.turns)
    /\ \A t \in Range(file.turns) : t.events \in Seq(Tokens)
    /\ \A i, k \in DOMAIN file.turns : file.turns[i].id = file.turns[k].id => i = k

IsJob(job) ==
    /\ job.conv \in Conversations /\ job.what \in {"turn", "fork", "switch", "remove"}
    /\ job.what = "turn" => job.events \in Seq(Tokens)

\* Where events are, and of which exchanges: in the host's hands, in the queue, in the files.
InHand(e, events) == e \in 1..asked /\ events \in Seq(Tokens) /\ Exchanges(events) \subseteq {e}

HandsInv ==
    /\ pendingEvents \in Seq(Tokens) /\ Waiting \subseteq 1..asked
    /\ conversationId \in Conversations \cup {None}
    /\ load # None => load.conv \in Conversations
    /\ turn # None => {"e", "events"} \subseteq DOMAIN turn /\ InHand(turn.e, turn.events)
    /\ saving # None => InHand(saving.e, saving.events)

QueueInv == IsList(jobs) /\ \A i \in DOMAIN jobs : IsJob(jobs[i]) /\ Queued(i) \subseteq 1..asked

DiskInv ==
    /\ disk = [c \in Conversations |-> disk[c]]
    /\ \A c \in Conversations : disk[c] # None => IsFile(disk[c])
    /\ \A c \in Conversations : \A t \in Stored(disk[c]) : Exchanges(t.events) \subseteq 1..asked

PlacesInv == asked \in 0..MaxExchanges /\ HandsInv /\ QueueInv /\ DiskInv

\* No exchange has events in two places.
ApartInv ==
    /\ InTurn \cap InSaving = {} /\ (InTurn \cup InSaving) \cap Waiting = {}
    /\ \A i \in DOMAIN jobs : Queued(i) \cap (InTurn \cup InSaving \cup Waiting) = {}
    /\ \A i, k \in DOMAIN jobs : i # k => Queued(i) \cap Queued(k) = {}
    /\ \A c \in Conversations : \A t \in Stored(disk[c]) :
           /\ Exchanges(t.events) \cap (InTurn \cup InSaving \cup Waiting) = {}
           /\ \A i \in DOMAIN jobs : Queued(i) \cap Exchanges(t.events) = {}
    /\ \A c, d \in Conversations : \A t \in Stored(disk[c]), u \in Stored(disk[d]) :
           c # d \/ t # u => Exchanges(t.events) \cap Exchanges(u.events) = {}

-----------------------------------------------------------------------------
\* A list has its elements at 1 to its length.
LEMMA ListFacts ==
  ASSUME NEW s, IsList(s)
  PROVE  Len(s) \in Nat /\ DOMAIN s = 1..Len(s) /\ \A i \in DOMAIN s : s[i] \in Range(s)
<1>1. Len(s) \in Nat /\ DOMAIN s = 1..Len(s)
  BY LenProperties DEF IsList
<1> QED
  BY <1>1 DEF Range

\* A function on the numbers up to n is a list.
LEMMA FunctionIsList ==
  ASSUME NEW n \in Nat, NEW r, r = [i \in 1..n |-> r[i]]
  PROVE  IsList(r) /\ Len(r) = n /\ DOMAIN r = 1..n
<1>1. r \in [1..n -> Range(r)]
  BY DEF Range
<1>2. r \in Seq(Range(r))
  BY <1>1, SeqDef
<1>3. DOMAIN r = 1..n /\ DOMAIN r = 1..Len(r) /\ Len(r) \in Nat
  BY <1>1, <1>2, LenProperties
<1> QED
  BY <1>2, <1>3 DEF IsList

\* A list with one more at its end.
LEMMA AppendList ==
  ASSUME NEW s, IsList(s), NEW x
  PROVE  LET r == Append(s, x)
         IN  /\ IsList(r) /\ DOMAIN r = 1..(Len(s) + 1) /\ r[Len(s) + 1] = x
             /\ \A i \in DOMAIN s : r[i] = s[i]
<1> DEFINE S == Range(s) \cup {x}
           r == Append(s, x)
<1>1. s \in Seq(S)
  BY SeqMonotonic DEF IsList
<1>2. r \in Seq(S) /\ Len(r) = Len(s) + 1 /\ r[Len(s) + 1] = x /\ \A i \in 1..Len(s) : r[i] = s[i]
  BY <1>1, AppendProperties
<1>3. r \in Seq(Range(r)) /\ DOMAIN r = 1..Len(r) /\ DOMAIN s = 1..Len(s)
  BY <1>1, <1>2, SeqOfRange, LenProperties
<1> QED
  BY <1>2, <1>3 DEF IsList

\* A list with one taken out.
LEMMA RemoveList ==
  ASSUME NEW s, IsList(s), NEW i \in DOMAIN s
  PROVE  LET r == RemoveAt(s, i)
         IN  /\ IsList(r) /\ DOMAIN r = 1..(Len(s) - 1)
             /\ \A k \in DOMAIN r : r[k] = (IF k < i THEN s[k] ELSE s[k + 1])
<1> DEFINE S == Range(s)
           n == Len(s)
           a == SubSeq(s, 1, i - 1)
           b == SubSeq(s, i + 1, n)
           r == RemoveAt(s, i)
<1>1. n \in Nat /\ DOMAIN s = 1..n /\ i \in 1..n /\ \A k \in 1..n : s[k] \in S
  BY ListFacts
<1>2. /\ a \in Seq(S) /\ Len(a) = i - 1 /\ \A k \in 1..(i - 1) : a[k] = s[k]
  <2>1. (\A k \in 1..(i - 1) : s[k] \in S) /\ 1 \in Int /\ i - 1 \in Int
    BY <1>1
  <2>2. /\ a \in Seq(S) /\ Len(a) = (IF 1 <= i - 1 THEN (i - 1) - 1 + 1 ELSE 0)
        /\ \A k \in 1 .. (i - 1) - 1 + 1 : a[k] = s[1 + k - 1]
    BY <2>1, SubSeqProperties
  <2> HIDE DEF a
  <2> QED
    BY <1>1, <2>2
<1>3. /\ b \in Seq(S) /\ Len(b) = n - i /\ \A k \in 1..(n - i) : b[k] = s[k + i]
  <2>1. (\A k \in (i + 1)..n : s[k] \in S) /\ i + 1 \in Int /\ n \in Int
    BY <1>1
  <2>2. /\ b \in Seq(S) /\ Len(b) = (IF i + 1 <= n THEN n - (i + 1) + 1 ELSE 0)
        /\ \A k \in 1 .. n - (i + 1) + 1 : b[k] = s[(i + 1) + k - 1]
    BY <2>1, SubSeqProperties
  <2> HIDE DEF b
  <2>3. Len(b) = n - i
    BY <1>1, <2>2
  <2>4. ASSUME NEW k \in 1..(n - i) PROVE b[k] = s[k + i]
    <3>1. k \in 1 .. n - (i + 1) + 1 /\ (i + 1) + k - 1 = k + i
      BY <1>1, <2>4
    <3> QED
      BY <2>2, <3>1
  <2> QED
    BY <2>2, <2>3, <2>4
<1>4. r = a \o b
  BY DEF RemoveAt
<1> HIDE DEF a, b
<1>5. /\ r \in Seq(S) /\ Len(r) = Len(a) + Len(b)
      /\ \A k \in 1..Len(a) : r[k] = a[k]
      /\ \A k \in 1..Len(b) : r[Len(a) + k] = b[k]
  <2> HIDE DEF r
  <2>1. r \in Seq(S) /\ Len(r) = Len(a) + Len(b)
        /\ \A k \in 1..(Len(a) + Len(b)) : r[k] = IF k <= Len(a) THEN a[k] ELSE b[k - Len(a)]
    BY <1>2, <1>3, <1>4, ConcatProperties
  <2>2. Len(a) \in Nat /\ Len(b) \in Nat
    BY <1>2, <1>3, LenProperties
  <2>3. ASSUME NEW k \in 1..Len(b) PROVE r[Len(a) + k] = b[k]
    <3>1. Len(a) + k \in 1..(Len(a) + Len(b)) /\ ~(Len(a) + k <= Len(a)) /\ (Len(a) + k) - Len(a) = k
      BY <2>2, <2>3
    <3> QED
      BY <2>1, <3>1
  <2> QED
    BY <2>1, <2>2, <2>3
<1> HIDE DEF r
<1>6. IsList(r) /\ DOMAIN r = 1..(n - 1)
  <2>1. r \in Seq(Range(r)) /\ DOMAIN r = 1..Len(r)
    BY <1>5, SeqOfRange, LenProperties
  <2> QED
    BY <1>1, <1>2, <1>3, <1>5, <2>1 DEF IsList
<1>7. ASSUME NEW k \in 1..(n - 1) PROVE r[k] = (IF k < i THEN s[k] ELSE s[k + 1])
  <2>1. CASE k < i
    BY <1>1, <1>2, <1>5, <2>1
  <2>2. CASE ~(k < i)
    <3>1. PICK j \in 1..(n - i) : (i - 1) + j = k /\ j + i = k + 1
      <4>1. k - (i - 1) \in 1..(n - i) /\ (i - 1) + (k - (i - 1)) = k /\ (k - (i - 1)) + i = k + 1
        BY <1>1, <1>7, <2>2
      <4> QED
        BY <4>1
    <3>2. r[k] = b[j] /\ b[j] = s[k + 1]
      BY <1>2, <1>3, <1>5, <3>1
    <3> QED
      BY <2>2, <3>2
  <2> QED
    BY <2>1, <2>2
<1> QED
  BY <1>6, <1>7 DEF r

\* The exchanges of two sequences of tokens are those of either.
LEMMA ExchangesOfBoth ==
  ASSUME NEW s \in Seq(Tokens), NEW t \in Seq(Tokens)
  PROVE  s \o t \in Seq(Tokens) /\ Exchanges(s \o t) = Exchanges(s) \cup Exchanges(t)
<1>1. s \o t \in Seq(Tokens)
  BY ConcatProperties
<1>2. Range(s \o t) = Range(s) \cup Range(t)
  BY RangeConcatenation
<1> QED
  BY <1>1, <1>2 DEF Exchanges

\* An empty sequence holds nothing.
LEMMA ExchangesOfNone == <<>> \in Seq(Tokens) /\ Exchanges(<<>>) = {}
<1>1. Range(<<>>) = {}
  BY DEF Range
<1> QED
  BY <1>1, EmptySeq DEF Exchanges

\* One token is of its exchange.
LEMMA ExchangesOfOne ==
  ASSUME NEW e \in 1..MaxExchanges, NEW kind \in {"ask", "contract", "answer", "status"}
  PROVE  <<<<e, kind>>>> \in Seq(Tokens) /\ Exchanges(<<<<e, kind>>>>) = {e}
<1> DEFINE token == <<e, kind>>
<1>1. token \in Tokens /\ token[1] = e
  BY DEF Tokens
<1> HIDE DEF token
<1>2. <<token>> \in Seq(Tokens) /\ Len(<<token>>) = 1 /\ <<token>>[1] = token
  BY <1>1
<1>3. DOMAIN <<token>> = 1..1
  BY <1>2, LenProperties
<1>4. Range(<<token>>) = {token}
  BY <1>2, <1>3 DEF Range
<1> QED
  BY <1>1, <1>2, <1>4 DEF Exchanges, token

-----------------------------------------------------------------------------
\* What a write leaves of a file.
LEMMA NewFile ==
  ASSUME NEW job, job.events \in Seq(Tokens)
  PROVE  LET r == Created(job)
         IN  /\ IsFile(r) /\ DOMAIN r.turns = 1..1 /\ r.turns[1].parent = None
             /\ \E n : n.events = job.events /\ n.delta = job.delta /\ n.id = job.id /\ Range(r.turns) = {n}
<1> DEFINE n == [id |-> job.id, parent |-> None, events |-> job.events, delta |-> job.delta]
           file == Created(job)
<1>1. file.turns = <<n>> /\ {"turns", "heads", "active"} \subseteq DOMAIN file
  BY DEF Created
<1>2. n.events = job.events /\ n.delta = job.delta /\ n.id = job.id /\ n.parent = None
  OBVIOUS
<1> HIDE DEF n, file
<1>3. <<n>> \in Seq({n}) /\ Len(<<n>>) = 1 /\ <<n>>[1] = n
  OBVIOUS
<1>4. DOMAIN <<n>> = 1..1 /\ IsList(<<n>>)
  BY <1>3, LenProperties, SeqOfRange DEF IsList
<1>5. Range(<<n>>) = {n}
  BY <1>3, <1>4 DEF Range
<1>6. IsFile(file)
  BY <1>1, <1>2, <1>4, <1>5 DEF IsFile
<1> QED
  BY <1>1, <1>2, <1>3, <1>4, <1>5, <1>6 DEF file

\* A turn with an id the file has takes the place of that one, another goes to the end.
LEMMA FileWithTurn ==
  ASSUME NEW file, file # None, IsFile(file), NEW job, job.events \in Seq(Tokens)
  PROVE  LET r == Appended(file, job)
         IN  /\ IsFile(r)
             /\ \E n : /\ n.events = job.events /\ n.delta = job.delta
                      /\ Range(r.turns) \subseteq Range(file.turns) \cup {n}
             /\ \A k \in DOMAIN file.turns : /\ k \in DOMAIN r.turns /\ r.turns[k].id = file.turns[k].id
                                             /\ r.turns[k].parent = file.turns[k].parent
             /\ \A k \in DOMAIN r.turns \ DOMAIN file.turns :
                    k = Len(file.turns) + 1 /\ r.turns[k].parent = file.heads[file.active]
             /\ \E k \in DOMAIN r.turns : r.turns[k].id = job.id
<1> DEFINE turnAt(parent) == [id |-> job.id, parent |-> parent, events |-> job.events, delta |-> job.delta]
           s == file.turns
           placed == IF job.id \in Ids(file)
                     THEN [i \in DOMAIN s |-> IF s[i].id = job.id THEN turnAt(s[i].parent) ELSE s[i]]
                     ELSE Append(s, turnAt(file.heads[file.active]))
           r == Appended(file, job)
<1>1. r.turns = placed /\ {"turns", "heads", "active"} \subseteq DOMAIN r
  <2>1. r = [[file EXCEPT !.turns = placed] EXCEPT !.heads[file.active] = job.id]
    BY DEF Appended
  <2> HIDE DEF placed, r
  <2> QED
    BY <2>1 DEF IsFile
<1>2. /\ IsList(s) /\ DOMAIN s = 1..Len(s) /\ Len(s) \in Nat
      /\ \A i \in DOMAIN s : s[i] \in Range(s) /\ s[i].events \in Seq(Tokens)
      /\ \A i, k \in DOMAIN s : s[i].id = s[k].id => i = k
  BY ListFacts DEF IsFile
<1>3. \A parent : /\ turnAt(parent).id = job.id /\ turnAt(parent).events = job.events
                 /\ turnAt(parent).delta = job.delta /\ turnAt(parent).parent = parent
  OBVIOUS
<1> HIDE DEF turnAt, r
<1>4. job.id \in Ids(file) <=> \E i \in DOMAIN s : s[i].id = job.id
  BY DEF Ids, Stored, Range
<1>5. CASE job.id \in Ids(file)
  <2>1. PICK i \in DOMAIN s : s[i].id = job.id
    BY <1>4, <1>5
  <2> DEFINE n == turnAt(s[i].parent)
  <2>2. placed = [k \in DOMAIN s |-> IF k = i THEN n ELSE s[k]]
    BY <1>2, <1>5, <2>1
  <2> HIDE DEF placed, n
  <2>3. placed = [k \in 1..Len(s) |-> placed[k]] /\ placed[i] = n /\ \A k \in DOMAIN s : k # i => placed[k] = s[k]
    BY <1>2, <2>1, <2>2
  <2>4. IsList(placed) /\ DOMAIN placed = DOMAIN s
    BY <1>2, <2>3, FunctionIsList
  <2>5. n.id = job.id /\ n.events = job.events /\ n.delta = job.delta /\ n.parent = s[i].parent
    BY <1>3 DEF n
  <2>6. \A t \in Range(placed) : t \in Range(s) \cup {n}
    <3>1. \A k \in DOMAIN s : placed[k] \in Range(s) \cup {n}
      BY <1>2, <2>3
    <3> QED
      BY <2>4, <3>1 DEF Range
  <2>7. \A t \in Range(placed) : t.events \in Seq(Tokens)
    BY <2>5, <2>6 DEF IsFile
  <2>8. \A k \in DOMAIN s : placed[k].id = s[k].id /\ placed[k].parent = s[k].parent
    BY <2>1, <2>3, <2>5
  <2>9. \A k, m \in DOMAIN placed : placed[k].id = placed[m].id => k = m
    BY <1>2, <2>4, <2>8
  <2> QED
    BY <1>1, <2>1, <2>4, <2>5, <2>6, <2>7, <2>8, <2>9 DEF IsFile, r
<1>6. CASE job.id \notin Ids(file)
  <2> DEFINE n == turnAt(file.heads[file.active])
  <2>1. placed = Append(s, n)
    BY <1>6
  <2> HIDE DEF placed, n
  <2>2. /\ IsList(placed) /\ DOMAIN placed = 1..(Len(s) + 1) /\ placed[Len(s) + 1] = n
        /\ \A k \in DOMAIN s : placed[k] = s[k]
    BY <1>2, <2>1, AppendList
  <2>3. n.id = job.id /\ n.events = job.events /\ n.delta = job.delta /\ n.parent = file.heads[file.active]
    BY <1>3 DEF n
  <2>4. \A k \in DOMAIN placed : k \in DOMAIN s \/ k = Len(s) + 1
    BY <1>2, <2>2
  <2>5. \A t \in Range(placed) : t \in Range(s) \cup {n}
    <3>1. \A k \in DOMAIN placed : placed[k] \in Range(s) \cup {n}
      BY <1>2, <2>2, <2>4
    <3> QED
      BY <3>1 DEF Range
  <2>6. \A t \in Range(placed) : t.events \in Seq(Tokens)
    BY <2>3, <2>5 DEF IsFile
  <2>7. ASSUME NEW k \in DOMAIN placed, NEW m \in DOMAIN placed, placed[k].id = placed[m].id PROVE k = m
    <3>1. \A j \in DOMAIN s : placed[j].id # n.id
      BY <1>4, <1>6, <2>2, <2>3
    <3> QED
      BY <1>2, <2>2, <2>4, <2>7, <3>1
  <2>8. IsFile(r)
    BY <1>1, <2>2, <2>6, <2>7 DEF IsFile
  <2>9. \A k \in DOMAIN s : k \in DOMAIN placed /\ placed[k].id = s[k].id /\ placed[k].parent = s[k].parent
    BY <1>2, <2>2
  <2>10. \A k \in DOMAIN placed \ DOMAIN s : k = Len(s) + 1 /\ placed[k].parent = file.heads[file.active]
    BY <2>2, <2>3, <2>4
  <2>11. \E k \in DOMAIN placed : placed[k].id = job.id
    BY <1>2, <2>2, <2>3
  <2> QED
    BY <1>1, <2>3, <2>5, <2>8, <2>9, <2>10, <2>11 DEF r
<1> QED
  BY <1>5, <1>6

-----------------------------------------------------------------------------
(* A turn keeps its exchange and its events, whatever else changes of it.  *)

\* A turn that goes to another stage.
LEMMA TurnStays ==
  ASSUME NEW t, {"e", "events"} \subseteq DOMAIN t, NEW stage, NEW start, NEW carried
  PROVE  /\ \A u \in {[t EXCEPT !.stage = stage, !.start = start, !.attached = TRUE, !.carried = carried],
                      [t EXCEPT !.stage = stage, !.carried = carried], [t EXCEPT !.attached = FALSE]} :
                {"e", "events"} \subseteq DOMAIN u /\ u.e = t.e /\ u.events = t.events
<1>1. LET u == [t EXCEPT !.stage = stage, !.start = start, !.attached = TRUE, !.carried = carried]
      IN  {"e", "events"} \subseteq DOMAIN u /\ u.e = t.e /\ u.events = t.events
  OBVIOUS
<1>2. LET u == [t EXCEPT !.stage = stage, !.carried = carried]
      IN  {"e", "events"} \subseteq DOMAIN u /\ u.e = t.e /\ u.events = t.events
  OBVIOUS
<1>3. LET u == [t EXCEPT !.attached = FALSE]
      IN  {"e", "events"} \subseteq DOMAIN u /\ u.e = t.e /\ u.events = t.events
  OBVIOUS
<1> QED
  BY <1>1, <1>2, <1>3

\* A turn that records what was said.
LEMMA TurnSays ==
  ASSUME NEW t, {"e", "events"} \subseteq DOMAIN t, NEW stage, NEW said, NEW contract \in BOOLEAN
  PROVE  LET u == [t EXCEPT !.stage = stage, !.events = @ \o said, !.contract = contract]
         IN  {"e", "events"} \subseteq DOMAIN u /\ u.e = t.e /\ u.events = t.events \o said
OBVIOUS

-----------------------------------------------------------------------------
(* What the host has in hand goes from hand to hand: nothing but what has  *)
(* just been asked comes in.                                               *)

Passing ==
    /\ HandsInv' /\ asked' \in asked..MaxExchanges
    /\ InTurn' \cup InSaving' \subseteq InTurn \cup InSaving \cup (asked + 1)..asked'
    /\ Waiting' \subseteq Waiting /\ InTurn' \cap InSaving' = {}

\* More questions may have been asked meanwhile.
LEMMA KeptHand ==
  ASSUME NEW e, NEW events, NEW n \in Nat, InHand(e, events), asked \in Nat, asked' = n, asked <= n
  PROVE  InHand(e, events)'
BY DEF InHand

\* The steps that touch neither the turn nor what is saved.
LEMMA HandsRest ==
  ASSUME PlacesInv, InTurn \cap InSaving = {}, UNCHANGED <<asked, turn, saving>>,
         pendingEvents' \in {pendingEvents, <<>>}, conversationId' \in Conversations \cup {None},
         load' # None => load'.conv \in Conversations
  PROVE  Passing
<1>1. asked' \in asked..MaxExchanges /\ InTurn' = InTurn /\ InSaving' = InSaving
  BY BoundsAssumption DEF PlacesInv, InTurn, InSaving
<1>2. Waiting' \subseteq Waiting /\ pendingEvents' \in Seq(Tokens)
  BY ExchangesOfNone DEF PlacesInv, HandsInv, Waiting
<1> QED
  BY <1>1, <1>2 DEF PlacesInv, HandsInv, Passing, InHand

\* The steps of a turn that go on with it.
LEMMA HandsOn ==
  ASSUME PlacesInv, InTurn \cap InSaving = {}, UNCHANGED <<asked, saving>>,
         pendingEvents' \in {pendingEvents, <<>>}, conversationId' \in Conversations \cup {None},
         load' # None => load'.conv \in Conversations,
         turn # None, {"e", "events"} \subseteq DOMAIN turn', turn'.e = turn.e, InHand(turn.e, turn'.events)
  PROVE  Passing
<1>1. asked' \in asked..MaxExchanges /\ InTurn' \subseteq InTurn /\ InSaving' = InSaving
  BY BoundsAssumption DEF PlacesInv, InTurn, InSaving
<1>2. Waiting' \subseteq Waiting /\ pendingEvents' \in Seq(Tokens)
  BY ExchangesOfNone DEF PlacesInv, HandsInv, Waiting
<1> QED
  BY <1>1, <1>2 DEF PlacesInv, HandsInv, Passing, InHand

\* The end of a turn.
LEMMA HandsOver ==
  ASSUME PlacesInv, UNCHANGED <<asked, pendingEvents, conversationId, load>>, turn # None,
         NEW events, InHand(turn.e, events), Ended(events)
  PROVE  Passing
<1>1. asked' \in asked..MaxExchanges /\ InTurn' = {} /\ InSaving' \subseteq InTurn /\ saving'.e = turn.e /\ saving'.events = events
  BY BoundsAssumption DEF PlacesInv, InTurn, InSaving, Ended
<1>2. Waiting' = Waiting
  BY DEF Waiting
<1>3. turn' = None
  BY DEF Ended
<1> QED
  BY <1>1, <1>2, <1>3 DEF PlacesInv, HandsInv, Passing, InHand

\* The claim every send begins with.
LEMMA ClaimDoes ==
  ASSUME PlacesInv, Claim
  PROVE  /\ asked' = asked + 1 /\ asked' \in 1..MaxExchanges /\ asked \in Nat
         /\ conversationId' \in Conversations
<1>1. asked' = asked + 1 /\ asked' \in 1..MaxExchanges /\ asked \in Nat
  BY BoundsAssumption DEF Claim, PlacesInv
<1>2. conversationId' = Opened
  BY DEF Claim
<1>3. conversationId = None => Fresh \in Conversations
  BY DEF Claim, Fresh, Unused
<1> QED
  BY <1>1, <1>2, <1>3 DEF Opened, PlacesInv, HandsInv

\* A question comes into the hands of the turn.
LEMMA SendPasses ==
  ASSUME PlacesInv, InTurn \cap InSaving = {}, Send PROVE Passing
<1>1. /\ asked' = asked + 1 /\ asked' \in 1..MaxExchanges /\ asked \in Nat /\ conversationId' \in Conversations
      /\ UNCHANGED <<pendingEvents, saving, load>>
  BY ClaimDoes DEF Send
<1>2. <<<<asked + 1, "ask">>>> \in Seq(Tokens) /\ Exchanges(<<<<asked + 1, "ask">>>>) = {asked + 1}
  BY <1>1, ExchangesOfOne
<1>3. turn'.e = asked + 1 /\ turn'.events = <<<<asked + 1, "ask">>>> /\ {"e", "events"} \subseteq DOMAIN turn'
  BY DEF Send
<1>4. InHand(turn.e, turn.events)'
  BY <1>1, <1>2, <1>3 DEF InHand
<1>5. InTurn' \subseteq {asked + 1} /\ InSaving' = InSaving /\ Waiting' = Waiting
  BY <1>1, <1>3 DEF InTurn, InSaving, Waiting
<1>6. InSaving \subseteq 1..asked /\ Waiting \subseteq 1..asked
  BY DEF PlacesInv, HandsInv, InHand, InSaving
<1>7. asked' \in asked..MaxExchanges /\ asked + 1 \in (asked + 1)..asked' /\ asked + 1 \notin 1..asked /\ 1..asked \subseteq 1..asked'
  BY <1>1, BoundsAssumption
<1>8. HandsInv'
  BY <1>1, <1>3, <1>4, <1>5, <1>6, <1>7, KeptHand DEF HandsInv, PlacesInv, InHand
<1> QED
  BY <1>5, <1>6, <1>7, <1>8 DEF Passing

\* A question answered from the record goes to the save at once.
LEMMA AnswerPasses ==
  ASSUME PlacesInv, InTurn \cap InSaving = {}, AnswerFromRecord PROVE Passing
<1> DEFINE events == <<<<asked + 1, "ask">>, <<asked + 1, "status">>>>
<1>1. /\ asked' = asked + 1 /\ asked' \in 1..MaxExchanges /\ asked \in Nat /\ conversationId' \in Conversations
      /\ UNCHANGED <<pendingEvents, turn, load>> /\ turn = None
  BY ClaimDoes DEF AnswerFromRecord, Claim
<1>2. events \in Seq(Tokens) /\ Exchanges(events) = {asked + 1}
  <2>1. events = <<<<asked + 1, "ask">>>> \o <<<<asked + 1, "status">>>>
    OBVIOUS
  <2>2. /\ <<<<asked + 1, "ask">>>> \in Seq(Tokens) /\ Exchanges(<<<<asked + 1, "ask">>>>) = {asked + 1}
        /\ <<<<asked + 1, "status">>>> \in Seq(Tokens) /\ Exchanges(<<<<asked + 1, "status">>>>) = {asked + 1}
    BY <1>1, ExchangesOfOne
  <2> HIDE DEF events
  <2> QED
    BY <2>1, <2>2, ExchangesOfBoth
<1>3. saving'.e = asked + 1 /\ saving'.events = events
  BY DEF AnswerFromRecord
<1> HIDE DEF events
<1>4. InHand(saving.e, saving.events)'
  BY <1>1, <1>2, <1>3 DEF InHand
<1>5. InSaving' \subseteq {asked + 1} /\ InTurn' = {} /\ Waiting' = Waiting
  BY <1>1, <1>3 DEF InTurn, InSaving, Waiting
<1>6. Waiting \subseteq 1..asked
  BY DEF PlacesInv, HandsInv
<1>7. asked' \in asked..MaxExchanges /\ asked + 1 \in (asked + 1)..asked' /\ 1..asked \subseteq 1..asked'
  BY <1>1, BoundsAssumption
<1>8. HandsInv'
  BY <1>1, <1>4, <1>5, <1>6, <1>7 DEF HandsInv, PlacesInv, InHand
<1> QED
  BY <1>5, <1>6, <1>7, <1>8 DEF Passing

\* A turn whose session may have been taken away under it.
LEMMA HandsDetach ==
  ASSUME PlacesInv, InTurn \cap InSaving = {}, UNCHANGED <<asked, saving>>,
         pendingEvents' \in {pendingEvents, <<>>}, conversationId' \in Conversations \cup {None},
         load' # None => load'.conv \in Conversations, turn' = turn \/ turn' = Detached(turn)
  PROVE  Passing
<1>1. CASE turn' = turn
  BY <1>1, HandsRest
<1>2. CASE turn # None /\ turn' = [turn EXCEPT !.attached = FALSE]
  <2>1. {"e", "events"} \subseteq DOMAIN turn /\ InHand(turn.e, turn.events)
    BY <1>2 DEF PlacesInv, HandsInv
  <2>2. {"e", "events"} \subseteq DOMAIN turn' /\ turn'.e = turn.e /\ turn'.events = turn.events
    BY <1>2, <2>1, TurnStays
  <2> QED
    BY <1>2, <2>1, <2>2, HandsOn
<1> QED
  BY <1>1, <1>2 DEF Detached

\* What a turn says is of its own exchange.
LEMMA SaidIsOwn ==
  ASSUME PlacesInv, turn # None, NEW said, NEW kind \in {"ask", "contract", "answer", "status"},
         said \in {<<>>, <<<<turn.e, kind>>>>}, NEW events, InHand(turn.e, events)
  PROVE  InHand(turn.e, events \o said)
<1>1. turn.e \in 1..MaxExchanges
  <2>1. asked \in Nat /\ asked <= MaxExchanges /\ MaxExchanges \in Nat /\ turn.e \in 1..asked
    BY BoundsAssumption DEF PlacesInv, HandsInv, InHand
  <2> QED
    BY <2>1
<1>2. said \in Seq(Tokens) /\ Exchanges(said) \subseteq {turn.e}
  BY <1>1, ExchangesOfNone, ExchangesOfOne
<1> QED
  BY <1>2, ExchangesOfBoth DEF InHand

\* The session is there: the turn goes on or ends.
LEMMA ReadyPasses ==
  ASSUME PlacesInv, InTurn \cap InSaving = {}, turn # None, NEW s, Ready(s) PROVE Passing
<1>0. {"e", "events"} \subseteq DOMAIN turn /\ InHand(turn.e, turn.events)
  BY DEF PlacesInv, HandsInv
<1>1. UNCHANGED <<asked, pendingEvents, conversationId, load>>
  BY DEF Ready
<1>2. CASE Ended(turn.events)
  BY <1>0, <1>1, <1>2, HandsOver
<1>3. CASE UNCHANGED saving /\ \E start : turn' = [turn EXCEPT !.stage = "talking", !.start = start, !.attached = TRUE, !.carried = <<>>]
  <2>1. {"e", "events"} \subseteq DOMAIN turn' /\ turn'.e = turn.e /\ turn'.events = turn.events
    BY <1>0, <1>3, TurnStays
  <2> QED
    BY <1>0, <1>1, <1>3, <2>1, HandsOn DEF PlacesInv, HandsInv
<1> QED
  BY <1>2, <1>3 DEF Ready

\* Every step but the save passes events on.
LEMMA PassingStep ==
  ASSUME PlacesInv, InTurn \cap InSaving = {}, [Next]_vars PROVE Passing \/ Persist
<1>0. /\ conversationId \in Conversations \cup {None} /\ (load # None => load.conv \in Conversations)
      /\ turn # None => {"e", "events"} \subseteq DOMAIN turn /\ InHand(turn.e, turn.events)
  BY DEF PlacesInv, HandsInv
<1>1. CASE Open
  <2>1. load'.conv \in Conversations /\ UNCHANGED <<asked, turn, saving, pendingEvents, conversationId>>
    BY <1>1 DEF Open, host
  <2> QED
    BY <1>0, <2>1, HandsRest
<1>2. CASE NewConversation \/ Rekey \/ DeleteConversation
  <2>1. /\ UNCHANGED <<asked, saving, load>> /\ pendingEvents' \in {pendingEvents, <<>>}
        /\ conversationId' \in {None, conversationId} /\ (turn' = turn \/ turn' = Detached(turn))
    BY <1>2 DEF NewConversation, Rekey, DeleteConversation, Cleared, Leaving, host
  <2> QED
    BY <1>0, <2>1, HandsDetach
<1>3. CASE ChangeBranch
  BY <1>0, <1>3, HandsRest DEF ChangeBranch, host
<1>4. CASE Read
  <2>1. load' # None => load'.conv \in Conversations
    <3>1. CASE load' = None
      BY <3>1
    <3>2. CASE load' = [load EXCEPT !.file = disk[load.conv]]
      <4>1. load'.conv = load.conv
        BY <3>2
      <4> QED
        BY <1>0, <1>4, <4>1 DEF Read
    <3> QED
      BY <1>4, <3>1, <3>2 DEF Read
  <2> QED
    BY <1>0, <1>4, <2>1, HandsRest DEF Read, host
<1>5. CASE Adopt
  <2>1. /\ UNCHANGED <<asked, saving>> /\ pendingEvents' = <<>> /\ load' = None
        /\ conversationId' \in Conversations /\ (turn' = turn \/ turn' = Detached(turn))
    BY <1>0, <1>5 DEF Adopt, Leaving
  <2> QED
    BY <2>1, HandsDetach
<1>6. CASE Write
  <2>1. UNCHANGED <<asked, saving, turn, pendingEvents, conversationId>>
    BY <1>6 DEF Write, host
  <2>2. load' = load \/ (conversationId # None /\ load' = [conv |-> conversationId, file |-> None])
    BY <1>6 DEF Write
  <2> QED
    BY <1>0, <2>1, <2>2, HandsRest
<1>7. CASE Route
  <2>1. PICK said \in {<<>>, <<<<turn.e, "contract">>>>} :
          /\ turn # None /\ UNCHANGED <<asked, saving, pendingEvents, conversationId, load>>
          /\ turn' = [turn EXCEPT !.stage = "resolving", !.events = @ \o said, !.contract = said # <<>>]
    BY <1>7 DEF Route
  <2>2. {"e", "events"} \subseteq DOMAIN turn' /\ turn'.e = turn.e /\ turn'.events = turn.events \o said
    <3> DEFINE b == said # <<>>
    <3>1. b \in BOOLEAN /\ turn' = [turn EXCEPT !.stage = "resolving", !.events = @ \o said, !.contract = b]
      BY <2>1
    <3> HIDE DEF b
    <3> QED
      BY <1>0, <2>1, <3>1, TurnSays
  <2>3. InHand(turn.e, turn'.events)
    BY <1>0, <2>1, <2>2, SaidIsOwn
  <2> QED
    BY <1>0, <2>1, <2>2, <2>3, HandsOn
<1>8. CASE Reuse \/ OpenDone
  BY <1>8, ReadyPasses DEF Reuse, OpenDone
<1>9. CASE Refuse \/ OpenFails
  BY <1>0, <1>9, HandsOver DEF Refuse, OpenFails, host
<1>10. CASE Rebuild
  <2>1. /\ turn # None /\ UNCHANGED <<asked, saving, pendingEvents, conversationId, load>>
        /\ turn' = [turn EXCEPT !.stage = "opening", !.carried = Carried]
    BY <1>10 DEF Rebuild, host
  <2>2. {"e", "events"} \subseteq DOMAIN turn' /\ turn'.e = turn.e /\ turn'.events = turn.events
    BY <1>0, <2>1, TurnStays
  <2> QED
    BY <1>0, <2>1, <2>2, HandsOn
<1>11. CASE Talk
  <2>1. PICK noted \in {<<>>, <<<<turn.e, "contract">>>>}, said \in {<<>>, <<<<turn.e, "answer">>>>} :
          /\ turn # None /\ UNCHANGED <<asked, pendingEvents, conversationId, load>>
          /\ Ended(turn.events \o noted \o said)
    BY <1>11 DEF Talk
  <2>2. InHand(turn.e, (turn.events \o noted) \o said)
    <3>1. InHand(turn.e, turn.events \o noted)
      BY <1>0, <2>1, SaidIsOwn
    <3> QED
      BY <2>1, <3>1, SaidIsOwn
  <2> QED
    BY <2>1, <2>2, HandsOver
<1>12. CASE UNCHANGED vars
  BY <1>0, <1>12, HandsRest DEF vars, host
<1> QED
  BY <1>1, <1>2, <1>3, <1>4, <1>5, <1>6, <1>7, <1>8, <1>9, <1>10, <1>11, <1>12, SendPasses, AnswerPasses
  DEF Next, Moving, Working

-----------------------------------------------------------------------------
(* The queue and the files. *)

\* A queue of which every job was there or holds nothing, f saying where it was.
Follows(f) ==
    /\ \A i \in DOMAIN jobs' : \/ Queued(i)' = {}
                               \/ f[i] \in DOMAIN jobs /\ Queued(i)' = Queued(f[i])
    /\ \A i, k \in DOMAIN jobs' : i # k => f[i] # f[k]

\* A queue nobody touches.
LEMMA QueueStays ==
  ASSUME QueueInv, jobs' = jobs, asked \in Nat, asked' \in Nat, asked <= asked'
  PROVE  QueueInv' /\ \E f : Follows(f)
<1>1. 1..asked \subseteq 1..asked'
  OBVIOUS
<1>2. \A i : Queued(i)' = Queued(i)
  BY DEF Queued
<1>3. QueueInv'
  BY <1>1, <1>2 DEF QueueInv, IsJob, IsList
<1> DEFINE f == [i \in DOMAIN jobs |-> i]
<1>4. Follows(f)
  BY <1>2 DEF Follows
<1> QED
  BY <1>3, <1>4

\* A job comes last.
LEMMA QueueGrows ==
  ASSUME QueueInv, UNCHANGED asked, NEW job, IsJob(job), jobs' = Append(jobs, job),
         job.what = "turn" => Exchanges(job.events) \subseteq 1..asked
  PROVE  /\ QueueInv'
         /\ \E n : /\ n \notin DOMAIN jobs /\ DOMAIN jobs' = DOMAIN jobs \cup {n}
                  /\ Queued(n)' = (IF job.what = "turn" THEN Exchanges(job.events) ELSE {})
                  /\ \A i \in DOMAIN jobs : Queued(i)' = Queued(i)
<1>1. Len(jobs) \in Nat /\ DOMAIN jobs = 1..Len(jobs)
  BY ListFacts DEF QueueInv
<1>2. PICK n : n = Len(jobs) + 1
  OBVIOUS
<1>3. IsList(jobs') /\ DOMAIN jobs' = 1..n /\ jobs'[n] = job /\ \A i \in DOMAIN jobs : jobs'[i] = jobs[i]
  BY <1>2, AppendList DEF QueueInv
<1>4. n \notin DOMAIN jobs /\ DOMAIN jobs' = DOMAIN jobs \cup {n}
  BY <1>1, <1>2, <1>3
<1>5. \A i \in DOMAIN jobs : Queued(i)' = Queued(i)
  BY <1>3 DEF Queued
<1>6. Queued(n)' = (IF job.what = "turn" THEN Exchanges(job.events) ELSE {})
  BY <1>3 DEF Queued
<1>7. \A i \in DOMAIN jobs' : IsJob(jobs'[i]) /\ Queued(i)' \subseteq 1..asked
  BY <1>3, <1>4, <1>5, <1>6 DEF QueueInv
<1>8. QueueInv'
  BY <1>3, <1>7 DEF QueueInv, IsJob, IsList
<1> QED
  BY <1>4, <1>5, <1>6, <1>8

\* A job is done.
LEMMA QueueShrinks ==
  ASSUME QueueInv, UNCHANGED asked, NEW i \in DOMAIN jobs, jobs' = RemoveAt(jobs, i)
  PROVE  QueueInv' /\ \E f : Follows(f) /\ \A k \in DOMAIN jobs' : f[k] \in DOMAIN jobs \ {i}
<1> DEFINE f == [k \in DOMAIN jobs' |-> IF k < i THEN k ELSE k + 1]
<1>1. Len(jobs) \in Nat /\ DOMAIN jobs = 1..Len(jobs) /\ i \in 1..Len(jobs)
  BY ListFacts DEF QueueInv
<1>2. /\ IsList(jobs') /\ DOMAIN jobs' = 1..(Len(jobs) - 1)
      /\ \A k \in DOMAIN jobs' : jobs'[k] = (IF k < i THEN jobs[k] ELSE jobs[k + 1])
  BY RemoveList DEF QueueInv
<1>3. \A k \in DOMAIN jobs' : f[k] \in DOMAIN jobs \ {i} /\ jobs'[k] = jobs[f[k]]
  BY <1>1, <1>2
<1>4. \A k, m \in DOMAIN jobs' : k # m => f[k] # f[m]
  BY <1>1, <1>2
<1> HIDE DEF f
<1>5. \A k \in DOMAIN jobs' : Queued(k)' = Queued(f[k])
  BY <1>3 DEF Queued
<1>6. \A k \in DOMAIN jobs' : IsJob(jobs'[k]) /\ Queued(k)' \subseteq 1..asked
  BY <1>3, <1>5 DEF QueueInv
<1>7. QueueInv'
  BY <1>2, <1>6 DEF QueueInv, IsJob, IsList
<1> QED
  BY <1>3, <1>4, <1>5, <1>7 DEF Follows

\* Files that lose turns, or stay, or are not there any more.
LEMMA FilesStay ==
  ASSUME DiskInv, asked \in Nat, asked' \in Nat, asked <= asked',
         disk' = disk \/ \E c \in Conversations : disk' = [disk EXCEPT ![c] = None]
  PROVE  DiskInv' /\ \A c \in Conversations : Stored(disk'[c]) \subseteq Stored(disk[c])
<1>1. \A c \in Conversations : disk'[c] = disk[c] \/ disk'[c] = None
  BY DEF DiskInv
<1>2. \A c \in Conversations : Stored(disk'[c]) \subseteq Stored(disk[c])
  BY <1>1 DEF Stored
<1>3. disk' = [c \in Conversations |-> disk'[c]]
  BY DEF DiskInv
<1>4. 1..asked \subseteq 1..asked'
  OBVIOUS
<1>5. \A c \in Conversations : disk'[c] # None => IsFile(disk'[c])
  BY <1>1 DEF DiskInv
<1>6. \A c \in Conversations : \A t \in Stored(disk'[c]) : Exchanges(t.events) \subseteq 1..asked'
  BY <1>2, <1>4 DEF DiskInv
<1> QED
  BY <1>2, <1>3, <1>5, <1>6 DEF DiskInv

\* What a change of branch leaves of a file.
LEMMA TurnsStay ==
  ASSUME NEW file, IsFile(file), NEW branch, NEW from
  PROVE  /\ IsFile(Forked(file, branch, from)) /\ Forked(file, branch, from).turns = file.turns
         /\ IsFile(Removed(file, branch)) /\ Removed(file, branch).turns = file.turns
         /\ IsFile([file EXCEPT !.active = branch]) /\ [file EXCEPT !.active = branch].turns = file.turns
<1>1. IsFile(Forked(file, branch, from)) /\ Forked(file, branch, from).turns = file.turns
  BY DEF IsFile, Forked
<1>2. IsFile(Removed(file, branch)) /\ Removed(file, branch).turns = file.turns
  BY DEF IsFile, Removed
<1>3. IsFile([file EXCEPT !.active = branch]) /\ [file EXCEPT !.active = branch].turns = file.turns
  BY DEF IsFile
<1> QED
  BY <1>1, <1>2, <1>3

\* What a job leaves of its file: the turns it had, and the one the job brings.
LEMMA ResultDoes ==
  ASSUME NEW job, IsJob(job), Accepted(job), disk[job.conv] # None => IsFile(disk[job.conv])
  PROVE  /\ Result(job) # None => IsFile(Result(job))
         /\ \/ Stored(Result(job)) \subseteq Stored(disk[job.conv])
            \/ /\ job.what = "turn"
               /\ \E n : n.events = job.events /\ Stored(Result(job)) \subseteq Stored(disk[job.conv]) \cup {n}
<1> DEFINE file == disk[job.conv]
<1>1. CASE job.what = "turn" /\ file = None
  <2>1. Result(job) = Created(job) /\ job.events \in Seq(Tokens)
    BY <1>1 DEF Result, IsJob
  <2> QED
    BY <1>1, <2>1, NewFile DEF Stored
<1>2. CASE job.what = "turn" /\ file # None
  <2>1. Result(job) = Appended(file, job) /\ job.events \in Seq(Tokens)
    BY <1>2 DEF Result, IsJob
  <2>2. /\ IsFile(Appended(file, job))
        /\ \E n : n.events = job.events /\ Range(Appended(file, job).turns) \subseteq Range(file.turns) \cup {n}
    BY <1>2, <2>1, FileWithTurn
  <2> QED
    BY <1>2, <2>1, <2>2 DEF Stored
<1>3. CASE job.what # "turn"
  <2>1. file # None /\ IsFile(file)
    BY <1>3 DEF Accepted
  <2>2. PICK old, branch, from : old = file /\ branch = job.branch /\ (job.what = "fork" => from = job.from)
    OBVIOUS
  <2>3. /\ IsFile(Forked(old, branch, from)) /\ Forked(old, branch, from).turns = old.turns
        /\ IsFile(Removed(old, branch)) /\ Removed(old, branch).turns = old.turns
        /\ IsFile([old EXCEPT !.active = branch]) /\ [old EXCEPT !.active = branch].turns = old.turns
    BY <2>1, <2>2, TurnsStay
  <2>4. Result(job) \in {Forked(old, branch, from), Removed(old, branch), [old EXCEPT !.active = branch]}
    BY <1>3, <2>2 DEF Result, IsJob
  <2>5. IsFile(Result(job)) /\ Result(job).turns = file.turns
    BY <2>2, <2>3, <2>4
  <2> QED
    BY <2>1, <2>5 DEF Stored
<1> QED
  BY <1>1, <1>2, <1>3

-----------------------------------------------------------------------------
(* No exchange comes to be in two places. *)

\* Whatever is not a turn that is written or queued.
LEMMA ApartPass ==
  ASSUME PlacesInv, ApartInv, Passing, NEW f, Follows(f),
         \A c \in Conversations : Stored(disk'[c]) \subseteq Stored(disk[c])
  PROVE  ApartInv'
<1> DEFINE held == InTurn \cup InSaving \cup Waiting
           new == (asked + 1)..asked'
<1>1. /\ InTurn' \cup InSaving' \subseteq InTurn \cup InSaving \cup new
      /\ Waiting' \subseteq Waiting /\ InTurn' \cap InSaving' = {}
  BY DEF Passing
<1>2. new \cap 1..asked = {}
  BY DEF PlacesInv, Passing
<1>3. /\ Waiting \subseteq 1..asked /\ \A i \in DOMAIN jobs : Queued(i) \subseteq 1..asked
      /\ \A c \in Conversations : \A t \in Stored(disk[c]) : Exchanges(t.events) \subseteq 1..asked
  BY DEF PlacesInv, HandsInv, QueueInv, DiskInv
<1> HIDE DEF new
<1>4. (InTurn' \cup InSaving') \cap Waiting' = {}
  BY <1>1, <1>2, <1>3 DEF ApartInv
<1>5. \A i \in DOMAIN jobs' : Queued(i)' = {} \/ (f[i] \in DOMAIN jobs /\ Queued(i)' = Queued(f[i]))
  BY DEF Follows
<1>6. \A i \in DOMAIN jobs' : Queued(i)' \cap (InTurn' \cup InSaving' \cup Waiting') = {}
  <2>1. \A i \in DOMAIN jobs : Queued(i) \cap (InTurn' \cup InSaving' \cup Waiting') = {}
    BY <1>1, <1>2, <1>3 DEF ApartInv
  <2> QED
    BY <1>5, <2>1
<1>7. \A i, k \in DOMAIN jobs' : i # k => Queued(i)' \cap Queued(k)' = {}
  BY <1>5 DEF Follows, ApartInv
<1>8. \A c \in Conversations : \A t \in Stored(disk'[c]) :
          /\ Exchanges(t.events) \cap (InTurn' \cup InSaving' \cup Waiting') = {}
          /\ \A i \in DOMAIN jobs' : Queued(i)' \cap Exchanges(t.events) = {}
  <2> SUFFICES ASSUME NEW c \in Conversations, NEW t \in Stored(disk'[c])
               PROVE  /\ Exchanges(t.events) \cap (InTurn' \cup InSaving' \cup Waiting') = {}
                      /\ \A i \in DOMAIN jobs' : Queued(i)' \cap Exchanges(t.events) = {}
    OBVIOUS
  <2>1. t \in Stored(disk[c]) /\ Exchanges(t.events) \subseteq 1..asked
    BY <1>3
  <2>2. /\ Exchanges(t.events) \cap (InTurn \cup InSaving \cup Waiting) = {}
        /\ \A i \in DOMAIN jobs : Queued(i) \cap Exchanges(t.events) = {}
    BY <2>1 DEF ApartInv
  <2> QED
    BY <1>1, <1>2, <1>5, <2>1, <2>2
<1>9. \A c, d \in Conversations : \A t \in Stored(disk'[c]), u \in Stored(disk'[d]) :
          c # d \/ t # u => Exchanges(t.events) \cap Exchanges(u.events) = {}
  BY DEF ApartInv
<1> QED
  BY <1>1, <1>4, <1>6, <1>7, <1>8, <1>9 DEF ApartInv

\* A turn that is written leaves the queue for one file.
LEMMA ApartWrite ==
  ASSUME PlacesInv, ApartInv, UNCHANGED <<asked, turn, saving, pendingEvents>>,
         NEW i \in DOMAIN jobs, NEW f, Follows(f), \A k \in DOMAIN jobs' : f[k] \in DOMAIN jobs \ {i},
         NEW at \in Conversations, NEW n, Exchanges(n.events) = Queued(i),
         Stored(disk'[at]) \subseteq Stored(disk[at]) \cup {n},
         \A c \in Conversations \ {at} : disk'[c] = disk[c]
  PROVE  ApartInv'
<1>1. InTurn' = InTurn /\ InSaving' = InSaving /\ Waiting' = Waiting
  BY DEF InTurn, InSaving, Waiting
<1>2. \A k \in DOMAIN jobs' : Queued(k)' = {} \/ (f[k] \in DOMAIN jobs \ {i} /\ Queued(k)' = Queued(f[k]))
  BY DEF Follows
<1>3. \A c \in Conversations : \A t \in Stored(disk'[c]) : t \in Stored(disk[c]) \/ (c = at /\ t = n)
  OBVIOUS
<1>4. \A k \in DOMAIN jobs' : Queued(k)' \cap (InTurn \cup InSaving \cup Waiting) = {}
  BY <1>2 DEF ApartInv
<1>5. \A k, m \in DOMAIN jobs' : k # m => Queued(k)' \cap Queued(m)' = {}
  BY <1>2 DEF Follows, ApartInv
<1>6. /\ Exchanges(n.events) \cap (InTurn \cup InSaving \cup Waiting) = {}
      /\ \A k \in DOMAIN jobs' : Queued(k)' \cap Exchanges(n.events) = {}
  BY <1>2 DEF ApartInv
<1>7. \A c \in Conversations : \A t \in Stored(disk[c]) :
          /\ Exchanges(t.events) \cap (InTurn \cup InSaving \cup Waiting) = {}
          /\ \A k \in DOMAIN jobs' : Queued(k)' \cap Exchanges(t.events) = {}
          /\ Exchanges(n.events) \cap Exchanges(t.events) = {}
  BY <1>2 DEF ApartInv
<1>8. \A c, d \in Conversations : \A t \in Stored(disk'[c]), u \in Stored(disk'[d]) :
          c # d \/ t # u => Exchanges(t.events) \cap Exchanges(u.events) = {}
  <2> SUFFICES ASSUME NEW c \in Conversations, NEW d \in Conversations,
                      NEW t \in Stored(disk'[c]), NEW u \in Stored(disk'[d]), c # d \/ t # u
               PROVE  Exchanges(t.events) \cap Exchanges(u.events) = {}
    OBVIOUS
  <2>1. CASE t \in Stored(disk[c]) /\ u \in Stored(disk[d])
    BY <2>1 DEF ApartInv
  <2>2. CASE t \in Stored(disk[c]) /\ d = at /\ u = n
    BY <1>7, <2>2
  <2>3. CASE c = at /\ t = n /\ u \in Stored(disk[d])
    BY <1>7, <2>3
  <2> QED
    BY <1>3, <2>1, <2>2, <2>3
<1>9. \A c \in Conversations : \A t \in Stored(disk'[c]) :
          /\ Exchanges(t.events) \cap (InTurn \cup InSaving \cup Waiting) = {}
          /\ \A k \in DOMAIN jobs' : Queued(k)' \cap Exchanges(t.events) = {}
  BY <1>3, <1>6, <1>7
<1>10. InTurn \cap InSaving = {} /\ (InTurn \cup InSaving) \cap Waiting = {}
  BY DEF ApartInv
<1> QED
  BY <1>1, <1>4, <1>5, <1>8, <1>9, <1>10 DEF ApartInv

\* What is saved waits, or is queued with what waited.
LEMMA ApartSave ==
  ASSUME PlacesInv, ApartInv, UNCHANGED <<asked, turn, disk>>, saving' = None,
         \/ jobs' = jobs /\ Waiting' \subseteq Waiting \cup InSaving
         \/ /\ Waiting' = {}
            /\ \E n : /\ n \notin DOMAIN jobs /\ DOMAIN jobs' = DOMAIN jobs \cup {n}
                      /\ Queued(n)' \subseteq Waiting \cup InSaving
                      /\ \A i \in DOMAIN jobs : Queued(i)' = Queued(i)
  PROVE  ApartInv'
<1>1. InTurn' = InTurn /\ InSaving' = {}
  BY DEF InTurn, InSaving
<1>2. InTurn \cap Waiting' = {}
  BY DEF ApartInv
<1>3. CASE jobs' = jobs /\ Waiting' \subseteq Waiting \cup InSaving
  <2>1. \A i : Queued(i)' = Queued(i)
    BY <1>3 DEF Queued
  <2> QED
    BY <1>1, <1>2, <1>3, <2>1 DEF ApartInv
<1>4. ASSUME Waiting' = {}, NEW n, n \notin DOMAIN jobs, DOMAIN jobs' = DOMAIN jobs \cup {n},
             Queued(n)' \subseteq Waiting \cup InSaving, \A i \in DOMAIN jobs : Queued(i)' = Queued(i)
      PROVE  ApartInv'
  <2>1. \A i \in DOMAIN jobs' : Queued(i)' \cap InTurn = {}
    BY <1>4 DEF ApartInv
  <2>2. \A i, k \in DOMAIN jobs' : i # k => Queued(i)' \cap Queued(k)' = {}
    BY <1>4 DEF ApartInv
  <2>3. \A c \in Conversations : \A t \in Stored(disk[c]) :
            /\ Exchanges(t.events) \cap InTurn = {}
            /\ \A i \in DOMAIN jobs' : Queued(i)' \cap Exchanges(t.events) = {}
    BY <1>4 DEF ApartInv
  <2>4. \A c, d \in Conversations : \A t \in Stored(disk[c]), u \in Stored(disk[d]) :
            c # d \/ t # u => Exchanges(t.events) \cap Exchanges(u.events) = {}
    BY DEF ApartInv
  <2> QED
    BY <1>1, <1>4, <2>1, <2>2, <2>3, <2>4 DEF ApartInv
<1> QED
  BY <1>3, <1>4

\* persistTurn() keeps the events in one place.
LEMMA PersistDoes ==
  ASSUME PlacesInv, ApartInv, Persist
  PROVE  PlacesInv' /\ ApartInv'
<1> DEFINE events == pendingEvents \o saving.events
<1>1. /\ saving # None /\ UNCHANGED <<asked, turn, disk, load>> /\ saving' = None
      /\ InSaving = {saving.e} /\ InHand(saving.e, saving.events)
  BY DEF Persist, PlacesInv, HandsInv, InSaving
<1>2. events \in Seq(Tokens) /\ Exchanges(events) \subseteq Waiting \cup InSaving
  BY <1>1, ExchangesOfBoth DEF PlacesInv, HandsInv, InHand, Waiting
<1>3. /\ Waiting \cup InSaving \subseteq 1..asked /\ asked \in Nat
      /\ turn # None => {"e", "events"} \subseteq DOMAIN turn /\ InHand(turn.e, turn.events)
  BY <1>1 DEF PlacesInv, HandsInv, InHand
<1>4. DiskInv' /\ asked' \in 0..MaxExchanges
  BY <1>1, FilesStay DEF PlacesInv
<1>5. CASE session = None
  <2>1. jobs' = jobs /\ conversationId' = conversationId /\ pendingEvents' = events
    BY <1>1, <1>5 DEF Persist, HeldBack
  <2> HIDE DEF events
  <2>2. Waiting' = Exchanges(events)
    BY <2>1 DEF Waiting
  <2>3. QueueInv'
    BY <1>1, <1>3, <2>1, QueueStays DEF PlacesInv
  <2>4. HandsInv'
    BY <1>1, <1>2, <1>3, <2>1, <2>2 DEF PlacesInv, HandsInv, InHand
  <2>5. ApartInv'
    BY <1>1, <1>2, <2>1, <2>2, ApartSave
  <2> QED
    BY <1>4, <2>3, <2>4, <2>5 DEF PlacesInv
<1>6. CASE session # None
  <2>1. PICK job : /\ job.what = "turn" /\ job.conv = Opened /\ job.events = events
                   /\ jobs' = Append(jobs, job)
    <3> DEFINE j == [what |-> "turn", conv |-> Opened, id |-> saving.id, events |-> events, delta |-> session.lastDelta]
    <3>1. j.what = "turn" /\ j.conv = Opened /\ j.events = events
      OBVIOUS
    <3>2. jobs' = Append(jobs, j)
      BY <1>6 DEF Persist
    <3> QED
      BY <3>1, <3>2
  <2>2. /\ conversationId' = Opened /\ pendingEvents' = <<>>
        /\ conversationId # None \/ Unused # {}
    BY <1>6 DEF Persist, HeldBack
  <2>3. Opened \in Conversations
    <3>1. conversationId = None => Fresh \in Conversations
      BY <2>2 DEF Fresh, Unused
    <3> QED
      BY <3>1 DEF Opened, PlacesInv, HandsInv
  <2> HIDE DEF events
  <2>4. IsJob(job) /\ Exchanges(job.events) \subseteq 1..asked
    BY <1>2, <1>3, <2>1, <2>3 DEF IsJob
  <2>5. /\ QueueInv'
        /\ \E n : /\ n \notin DOMAIN jobs /\ DOMAIN jobs' = DOMAIN jobs \cup {n}
                  /\ Queued(n)' = (IF job.what = "turn" THEN Exchanges(job.events) ELSE {})
                  /\ \A i \in DOMAIN jobs : Queued(i)' = Queued(i)
    BY <1>1, <2>1, <2>4, QueueGrows DEF PlacesInv
  <2>6. Waiting' = {} /\ pendingEvents' \in Seq(Tokens)
    BY <2>2, ExchangesOfNone DEF Waiting
  <2>7. HandsInv'
    BY <1>1, <1>3, <2>2, <2>3, <2>6 DEF PlacesInv, HandsInv, InHand
  <2>8. PICK n : /\ n \notin DOMAIN jobs /\ DOMAIN jobs' = DOMAIN jobs \cup {n}
                 /\ Queued(n)' \subseteq Waiting \cup InSaving
                 /\ \A i \in DOMAIN jobs : Queued(i)' = Queued(i)
    BY <1>2, <2>1, <2>5
  <2>9. ApartInv'
    BY <1>1, <2>6, <2>8, ApartSave
  <2> QED
    BY <1>4, <2>5, <2>7, <2>9 DEF PlacesInv
<1> QED
  BY <1>5, <1>6

\* A write that ends, well or badly, keeps the events in one place.
LEMMA WriteDoes ==
  ASSUME PlacesInv, ApartInv, Write, Passing
  PROVE  PlacesInv' /\ ApartInv'
<1>1. PICK i \in DOMAIN jobs :
        /\ jobs' = RemoveAt(jobs, i)
        /\ \/ Accepted(jobs[i]) /\ disk' = [disk EXCEPT ![jobs[i].conv] = Result(jobs[i])]
           \/ disk' = disk
  BY DEF Write, NextJobs
<1>2. UNCHANGED <<asked, turn, saving, pendingEvents>> /\ asked \in Nat /\ asked' \in 0..MaxExchanges /\ HandsInv'
  BY DEF Write, host, PlacesInv, Passing
<1>3. PICK job : job = jobs[i]
  OBVIOUS
<1>4. IsJob(job) /\ Queued(i) \subseteq 1..asked /\ (job.what = "turn" => Queued(i) = Exchanges(job.events))
  BY <1>3 DEF PlacesInv, QueueInv, Queued
<1>5. QueueInv' /\ \E f : Follows(f) /\ \A k \in DOMAIN jobs' : f[k] \in DOMAIN jobs \ {i}
  BY <1>1, <1>2, QueueShrinks DEF PlacesInv
<1>6. PICK f : Follows(f) /\ \A k \in DOMAIN jobs' : f[k] \in DOMAIN jobs \ {i}
  BY <1>5
<1>7. CASE disk' = disk
  <2>1. DiskInv' /\ \A c \in Conversations : Stored(disk'[c]) \subseteq Stored(disk[c])
    BY <1>2, <1>7, FilesStay DEF PlacesInv
  <2>2. ApartInv'
    BY <1>6, <2>1, ApartPass
  <2> QED
    BY <1>2, <1>5, <2>1, <2>2 DEF PlacesInv
<1>8. CASE Accepted(job) /\ disk' = [disk EXCEPT ![job.conv] = Result(job)]
  <2>1. PICK at, file : at \in Conversations /\ at = job.conv /\ file = Result(job)
    BY <1>4 DEF IsJob
  <2>2. /\ file # None => IsFile(file)
        /\ \/ Stored(file) \subseteq Stored(disk[at])
           \/ /\ job.what = "turn"
              /\ \E n : n.events = job.events /\ Stored(file) \subseteq Stored(disk[at]) \cup {n}
    BY <1>4, <1>8, <2>1, ResultDoes DEF PlacesInv, DiskInv
  <2>3. /\ disk' = [c \in Conversations |-> disk'[c]] /\ disk'[at] = file
        /\ \A c \in Conversations \ {at} : disk'[c] = disk[c]
    BY <1>8, <2>1 DEF PlacesInv, DiskInv
  <2>4. \A c \in Conversations : disk'[c] # None => IsFile(disk'[c])
    BY <2>2, <2>3 DEF PlacesInv, DiskInv
  <2>5. \A c \in Conversations : \A t \in Stored(disk[c]) : Exchanges(t.events) \subseteq 1..asked
    BY DEF PlacesInv, DiskInv
  <2>6. CASE Stored(file) \subseteq Stored(disk[at])
    <3>1. \A c \in Conversations : Stored(disk'[c]) \subseteq Stored(disk[c])
      BY <2>3, <2>6
    <3>2. ApartInv'
      BY <1>6, <3>1, ApartPass
    <3>3. DiskInv'
      BY <1>2, <2>3, <2>4, <2>5, <3>1 DEF DiskInv
    <3> QED
      BY <1>2, <1>5, <3>2, <3>3 DEF PlacesInv
  <2>7. ASSUME job.what = "turn", NEW n, n.events = job.events, Stored(file) \subseteq Stored(disk[at]) \cup {n}
        PROVE  PlacesInv' /\ ApartInv'
    <3>1. Exchanges(n.events) = Queued(i) /\ Stored(disk'[at]) \subseteq Stored(disk[at]) \cup {n}
      BY <1>4, <2>3, <2>7
    <3>2. ApartInv'
      BY <1>2, <1>6, <2>1, <2>3, <3>1, ApartWrite
    <3>3. \A c \in Conversations : \A t \in Stored(disk'[c]) : Exchanges(t.events) \subseteq 1..asked
      BY <1>4, <2>3, <2>5, <3>1
    <3>4. DiskInv'
      BY <1>2, <2>3, <2>4, <3>3 DEF DiskInv
    <3> QED
      BY <1>2, <1>5, <3>2, <3>4 DEF PlacesInv
  <2> QED
    BY <2>2, <2>6, <2>7
<1> QED
  BY <1>1, <1>3, <1>7, <1>8

\* A change of branch brings no events to the queue.
LEMMA QueueWaits ==
  ASSUME PlacesInv, ChangeBranch
  PROVE  QueueInv' /\ \E f : Follows(f)
<1>1. conversationId \in Conversations /\ UNCHANGED asked
  BY DEF ChangeBranch, PlacesInv, HandsInv
<1>2. PICK job : job.what \in {"fork", "switch", "remove"} /\ job.conv = conversationId /\ jobs' = Append(jobs, job)
  <2>1. CASE \E b \in Branches, id \in Ids(disk[conversationId]) :
                 jobs' = Append(jobs, [what |-> "fork", conv |-> conversationId, branch |-> b, from |-> id])
    BY <2>1
  <2>2. CASE \E b \in {Main} \cup Branches :
                 jobs' = Append(jobs, [what |-> "switch", conv |-> conversationId, branch |-> b])
    BY <2>2
  <2>3. CASE \E b \in Branches : jobs' = Append(jobs, [what |-> "remove", conv |-> conversationId, branch |-> b])
    BY <2>3
  <2> QED
    BY <2>1, <2>2, <2>3 DEF ChangeBranch
<1>3. IsJob(job) /\ job.what # "turn"
  BY <1>1, <1>2 DEF IsJob
<1>4. /\ QueueInv'
      /\ \E n : /\ n \notin DOMAIN jobs /\ DOMAIN jobs' = DOMAIN jobs \cup {n}
                /\ Queued(n)' = (IF job.what = "turn" THEN Exchanges(job.events) ELSE {})
                /\ \A i \in DOMAIN jobs : Queued(i)' = Queued(i)
  BY <1>1, <1>2, <1>3, QueueGrows DEF PlacesInv
<1>5. PICK n : /\ n \notin DOMAIN jobs /\ DOMAIN jobs' = DOMAIN jobs \cup {n} /\ Queued(n)' = {}
               /\ \A i \in DOMAIN jobs : Queued(i)' = Queued(i)
  BY <1>3, <1>4
<1> DEFINE f == [i \in DOMAIN jobs' |-> i]
<1>6. Follows(f)
  BY <1>5 DEF Follows
<1> QED
  BY <1>4, <1>6

\* The invariant is inductive: the save, the write, and the rest.
LEMMA PlacesStep ==
  ASSUME PlacesInv, ApartInv, [Next]_vars
  PROVE  PlacesInv' /\ ApartInv'
<1>1. CASE Persist
  BY <1>1, PersistDoes
<1>2. CASE Passing /\ Write
  BY <1>2, WriteDoes
<1>3. CASE Passing /\ ~Write /\ ~Persist
  <2>1. /\ asked \in Nat /\ asked' \in Nat /\ asked <= asked' /\ asked' \in 0..MaxExchanges /\ HandsInv'
    BY <1>3, BoundsAssumption DEF PlacesInv, Passing
  <2>2. /\ disk' = disk \/ \E c \in Conversations : disk' = [disk EXCEPT ![c] = None]
        /\ jobs' = jobs \/ ChangeBranch
    <3>1. CASE Send \/ AnswerFromRecord \/ Open \/ NewConversation \/ Rekey \/ Route \/ Refuse \/ Rebuild
      BY <3>1 DEF Send, AnswerFromRecord, Open, NewConversation, Rekey, Route, Refuse, Rebuild
    <3>2. CASE Reuse \/ OpenDone
      BY <3>2 DEF Reuse, OpenDone, Ready
    <3>3. CASE OpenFails \/ Talk \/ Read \/ Adopt \/ UNCHANGED vars
      BY <3>3 DEF OpenFails, Talk, Read, Adopt, vars
    <3>4. CASE DeleteConversation \/ ChangeBranch
      BY <3>4 DEF DeleteConversation, ChangeBranch
    <3> QED
      BY <1>3, <3>1, <3>2, <3>3, <3>4 DEF Next, Moving, Working
  <2>3. DiskInv' /\ \A c \in Conversations : Stored(disk'[c]) \subseteq Stored(disk[c])
    BY <2>1, <2>2, FilesStay DEF PlacesInv
  <2>4. QueueInv' /\ \E f : Follows(f)
    BY <2>1, <2>2, QueueStays, QueueWaits DEF PlacesInv
  <2>5. ApartInv'
    BY <1>3, <2>3, <2>4, ApartPass
  <2> QED
    BY <2>1, <2>3, <2>4, <2>5 DEF PlacesInv
<1> QED
  BY <1>1, <1>2, <1>3, PassingStep DEF ApartInv

\* The invariant holds at first.
LEMMA PlacesInit == Init => PlacesInv /\ ApartInv
<1> SUFFICES ASSUME Init PROVE PlacesInv /\ ApartInv
  OBVIOUS
<1>1. /\ jobs = <<>> /\ pendingEvents = <<>> /\ turn = None /\ saving = None /\ load = None /\ conversationId = None
      /\ asked = 0 /\ disk = [c \in Conversations |-> None]
  BY DEF Init
<1>2. IsList(<<>>) /\ DOMAIN <<>> = {}
  BY EmptySeq DEF IsList
<1>3. Waiting = {} /\ InTurn = {} /\ InSaving = {} /\ \A c \in Conversations : Stored(disk[c]) = {}
  BY <1>1, ExchangesOfNone DEF Waiting, InTurn, InSaving, Stored
<1>4. HandsInv
  BY <1>1, <1>3, ExchangesOfNone DEF HandsInv
<1>5. QueueInv /\ DiskInv
  BY <1>1, <1>2, <1>3 DEF QueueInv, DiskInv
<1>6. PlacesInv
  BY <1>1, <1>4, <1>5, BoundsAssumption DEF PlacesInv
<1>7. ApartInv
  BY <1>1, <1>2, <1>3 DEF ApartInv
<1> QED
  BY <1>6, <1>7

\* Exchanges kept apart are events kept apart.
LEMMA ApartIsOnce ==
  ASSUME PlacesInv, ApartInv PROVE EventsStoredOnce
<1> DEFINE turns == UNION {{<<c, t>> : t \in Stored(disk[c])} : c \in Conversations}
<1> SUFFICES ASSUME NEW x \in turns, NEW y \in turns, x # y
             PROVE  Range(x[2].events) \cap Range(y[2].events) = {}
  BY DEF EventsStoredOnce
<1>1. PICK c \in Conversations : \E t \in Stored(disk[c]) : x = <<c, t>>
  OBVIOUS
<1>2. PICK d \in Conversations : \E u \in Stored(disk[d]) : y = <<d, u>>
  OBVIOUS
<1>3. PICK t \in Stored(disk[c]), u \in Stored(disk[d]) : x = <<c, t>> /\ y = <<d, u>>
  BY <1>1, <1>2
<1>6. Exchanges(t.events) \cap Exchanges(u.events) = {}
  BY <1>3 DEF ApartInv
<1>4. \A token \in Range(t.events) \cap Range(u.events) : token[1] \in Exchanges(t.events) \cap Exchanges(u.events)
  BY DEF Exchanges
<1>5. x[2] = t /\ y[2] = u
  BY <1>3
<1> QED
  BY <1>6, <1>4, <1>5

\* agentHost.ts:1789: no two turns of any files hold the same event, though events travel with
\* later turns.
THEOREM EventsAreStoredOnce == Spec => []EventsStoredOnce
<1>1. Init => PlacesInv /\ ApartInv
  BY PlacesInit
<1>2. PlacesInv /\ ApartInv /\ [Next]_vars => PlacesInv' /\ ApartInv'
  BY PlacesStep
<1>3. PlacesInv /\ ApartInv => EventsStoredOnce
  BY ApartIsOnce
<1> QED
  BY <1>1, <1>2, <1>3, PTL DEF Spec

-----------------------------------------------------------------------------
(* Induction over data: in terms of sets, for operators cannot be passed. *)

\* Of the numbers of a set one is the least: intervals are well-ordered.
LEMMA Least ==
  ASSUME NEW T, T \subseteq Nat, T # {}
  PROVE  \E n \in T : \A m \in T : n <= m
<1> DEFINE U == {1..n : n \in T}
<1>1. ASSUME NEW n \in T PROVE 1..n \in FiniteSubsetsOf(Nat)
  <2>1. IsFiniteSet(1..n)
    BY FS_Interval
  <2> QED
    BY <2>1 DEF FiniteSubsetsOf
<1>2. U \subseteq FiniteSubsetsOf(Nat) /\ U # {}
  BY <1>1
<1>3. PICK x \in U : \A y \in U : ~(<<y, x>> \in StrictSubsetOrdering(Nat))
  BY <1>2, FS_StrictSubsetOrderingWellFounded, WFMin
<1>4. PICK n \in T : x = 1..n
  BY <1>3
<1>5. ASSUME NEW m \in T, m < n PROVE FALSE
  <2>1. 1..m \in U /\ 1..m \in SUBSET Nat /\ 1..n \in SUBSET Nat
    OBVIOUS
  <2>2. 1..m \subseteq 1..n /\ n \in 1..n /\ n \notin 1..m
    BY <1>5
  <2> QED
    BY <1>3, <1>4, <2>1, <2>2 DEF StrictSubsetOrdering
<1> QED
  BY <1>5

\* A set that holds 0, and with each number up to n but the last the next one, holds all of them.
LEMMA Induction ==
  ASSUME NEW n \in Nat, NEW P, 0 \in P, \A m \in 0..(n - 1) : m \in P => m + 1 \in P
  PROVE  \A m \in 0..n : m \in P
<1> DEFINE T == (0..n) \ P
<1> SUFFICES ASSUME T # {} PROVE FALSE
  OBVIOUS
<1>0. T \subseteq Nat
  OBVIOUS
<1>1. PICK m \in T : \A k \in T : m <= k
  <2> HIDE DEF T
  <2> QED
    BY <1>0, Least
<1>2. m - 1 \in 0..(n - 1) /\ m - 1 \notin T
  BY <1>1
<1> QED
  BY <1>2

\* A function of what it is one step before.
Steps(f, n, v, G) == DOMAIN f = 0..n /\ f[0] = v /\ \A i \in 1..n : f[i] = G[<<i, f[i - 1]>>]

\* There is one.
LEMMA Recursion ==
  ASSUME NEW n \in Nat, NEW v, NEW G
  PROVE  \E f : f = [i \in 0..n |-> f[i]] /\ Steps(f, n, v, G)
<1> DEFINE P == {m \in 0..n : \E f : f = [i \in 0..m |-> f[i]] /\ Steps(f, m, v, G)}
<1>1. 0 \in P
  <2> DEFINE f == [i \in 0..0 |-> v]
  <2>1. f = [i \in 0..0 |-> f[i]] /\ Steps(f, 0, v, G)
    BY DEF Steps
  <2> HIDE DEF f
  <2> QED
    BY <2>1
<1>2. ASSUME NEW m \in 0..(n - 1), m \in P PROVE m + 1 \in P
  <2>1. PICK f : f = [i \in 0..m |-> f[i]] /\ Steps(f, m, v, G)
    BY <1>2
  <2> DEFINE g == [i \in 0..(m + 1) |-> IF i = m + 1 THEN G[<<m + 1, f[m]>>] ELSE f[i]]
  <2>2. g[0] = v /\ g[m + 1] = G[<<m + 1, g[m]>>] /\ \A i \in 0..m : g[i] = f[i]
    BY <2>1 DEF Steps
  <2>3. DOMAIN g = 0..(m + 1) /\ g = [i \in 0..(m + 1) |-> g[i]]
    OBVIOUS
  <2> HIDE DEF g
  <2>4. ASSUME NEW i \in 1..m PROVE g[i] = G[<<i, g[i - 1]>>]
    <3>1. i \in 0..m /\ i - 1 \in 0..m
      OBVIOUS
    <3>2. g[i] = f[i] /\ g[i - 1] = f[i - 1]
      BY <2>2, <3>1
    <3> QED
      BY <2>1, <3>2 DEF Steps
  <2>5. \A i \in 1..(m + 1) : i \in 1..m \/ (i = m + 1 /\ i - 1 = m)
    OBVIOUS
  <2>6. \A i \in 1..(m + 1) : g[i] = G[<<i, g[i - 1]>>]
    BY <2>2, <2>4, <2>5
  <2>7. Steps(g, m + 1, v, G)
    BY <2>2, <2>3, <2>6 DEF Steps
  <2> QED
    BY <2>3, <2>7
<1> HIDE DEF P
<1>3. n \in P
  BY <1>1, <1>2, Induction
<1> QED
  BY <1>3 DEF P

\* It stays in a set that its steps do not leave.
LEMMA RecursionStays ==
  ASSUME NEW n \in Nat, NEW v, NEW G, NEW f, Steps(f, n, v, G),
         NEW V, v \in V, \A i \in 1..n, w \in V : G[<<i, w>>] \in V
  PROVE  \A i \in 0..n : f[i] \in V
<1> DEFINE P == {i \in 0..n : f[i] \in V}
<1>1. 0 \in P
  BY DEF Steps
<1>2. ASSUME NEW m \in 0..(n - 1), m \in P PROVE m + 1 \in P
  <2>1. m + 1 \in 1..n /\ (m + 1) - 1 = m /\ m + 1 \in 0..n
    BY <1>2
  <2>2. f[m + 1] = G[<<m + 1, f[m]>>]
    BY <2>1 DEF Steps
  <2> QED
    BY <1>2, <2>1, <2>2
<1> HIDE DEF P
<1>3. \A m \in 0..n : m \in P
  BY <1>1, <1>2, Induction
<1> QED
  BY <1>3 DEF P

-----------------------------------------------------------------------------
(* The tokens of a kind. *)

\* kept is what Kind(s, kind) has kept of the first i tokens.
Keeps(kept, s, kind) ==
    /\ kept \in [0..Len(s) -> Seq(Tokens)] /\ kept[0] = <<>> /\ Kind(s, kind) = kept[Len(s)]
    /\ \A i \in 1..Len(s) : kept[i] = IF s[i][2] = kind THEN Append(kept[i - 1], s[i]) ELSE kept[i - 1]

\* What Kind defines by recursion is there, and is a sequence of tokens at every length.
LEMMA KindKeeps ==
  ASSUME NEW s \in Seq(Tokens), NEW kind
  PROVE  \E kept : Keeps(kept, s, kind)
<1> DEFINE n == Len(s)
           Of(f) == [i \in 0..n |-> IF i = 0 THEN <<>>
                                    ELSE IF s[i][2] = kind THEN Append(f[i - 1], s[i]) ELSE f[i - 1]]
           kept == CHOOSE f : f = Of(f)
           G == [p \in (1..n) \X Seq(Tokens) |-> IF s[p[1]][2] = kind THEN Append(p[2], s[p[1]]) ELSE p[2]]
<1>1. n \in Nat /\ \A i \in 1..n : s[i] \in Tokens
  BY LenProperties, ElementOfSeq
<1>2. Kind(s, kind) = kept[n]
  BY DEF Kind
<1>3. \A i \in 1..n, w \in Seq(Tokens) : /\ G[<<i, w>>] = IF s[i][2] = kind THEN Append(w, s[i]) ELSE w
                                         /\ G[<<i, w>>] \in Seq(Tokens)
  BY <1>1, AppendProperties
<1>4. <<>> \in Seq(Tokens)
  BY EmptySeq
<1> HIDE DEF G, n
<1>5. PICK g : g = [i \in 0..n |-> g[i]] /\ Steps(g, n, <<>>, G)
  BY <1>1, Recursion
<1>6. \A i \in 0..n : g[i] \in Seq(Tokens)
  BY <1>1, <1>3, <1>4, <1>5, RecursionStays
<1>7. g = Of(g)
  <2>1. ASSUME NEW i \in 0..n PROVE Of(g)[i] = g[i]
    <3>1. CASE i = 0
      BY <1>5, <3>1 DEF Steps
    <3>2. CASE i # 0
      <4>1. i \in 1..n /\ i - 1 \in 0..n
        BY <1>1, <3>2
      <4>2. g[i] = G[<<i, g[i - 1]>>]
        BY <1>5, <4>1 DEF Steps
      <4> QED
        BY <1>3, <1>6, <3>2, <4>1, <4>2
    <3> QED
      BY <3>1, <3>2
  <2> QED
    BY <1>5, <2>1
<1>8. kept = Of(kept)
  <2> HIDE DEF Of
  <2> QED
    BY <1>7
<1> HIDE DEF kept
<1>9. kept[0] = <<>> /\ \A i \in 1..n : kept[i] = IF s[i][2] = kind THEN Append(kept[i - 1], s[i]) ELSE kept[i - 1]
  <2>1. 0 \in 0..n /\ \A i \in 1..n : i \in 0..n /\ i # 0
    BY <1>1
  <2> QED
    BY <1>8, <2>1
<1>10. kept \in [0..n -> Seq(Tokens)]
  <2> DEFINE P == {i \in 0..n : kept[i] \in Seq(Tokens)}
  <2>1. 0 \in P
    <3>1. kept[0] \in Seq(Tokens)
      BY <1>4, <1>9
    <3>2. 0 \in 0..n
      BY <1>1
    <3> QED
      BY <3>1, <3>2
  <2>2. ASSUME NEW m \in 0..(n - 1), m \in P PROVE m + 1 \in P
    <3>1. m + 1 \in 1..n /\ (m + 1) - 1 = m /\ m + 1 \in 0..n
      BY <1>1, <2>2
    <3>2. kept[m] \in Seq(Tokens) /\ s[m + 1] \in Tokens
      BY <1>1, <2>2, <3>1
    <3>3. kept[m + 1] \in {Append(kept[m], s[m + 1]), kept[m]}
      BY <1>9, <3>1
    <3>4. Append(kept[m], s[m + 1]) \in Seq(Tokens)
      BY <3>2, AppendProperties
    <3>5. kept[m + 1] \in Seq(Tokens)
      BY <3>2, <3>3, <3>4
    <3> QED
      BY <3>1, <3>5
  <2> HIDE DEF P
  <2>3. \A m \in 0..n : m \in P
    BY <1>1, <2>1, <2>2, Induction
  <2> QED
    BY <1>8, <2>3 DEF P
<1> QED
  BY <1>2, <1>9, <1>10 DEF Keeps, n

\* Nothing has none, and one token is kept or not.
LEMMA KindOfFew ==
  ASSUME NEW kind, NEW token \in Tokens
  PROVE  /\ Kind(<<>>, kind) = <<>>
         /\ <<token>> \in Seq(Tokens)
         /\ Kind(<<token>>, kind) = IF token[2] = kind THEN <<token>> ELSE <<>>
<1>1. <<>> \in Seq(Tokens) /\ Len(<<>>) = 0
  BY EmptySeq
<1>2. PICK none : Keeps(none, <<>>, kind)
  BY <1>1, KindKeeps
<1>3. Kind(<<>>, kind) = <<>>
  BY <1>1, <1>2 DEF Keeps
<1> DEFINE s == <<token>>
<1>4. s \in Seq(Tokens) /\ Len(s) = 1 /\ s[1] = token
  OBVIOUS
<1> HIDE DEF s
<1>5. PICK kept : Keeps(kept, s, kind)
  BY <1>4, KindKeeps
<1>6. kept[1] = (IF token[2] = kind THEN Append(<<>>, token) ELSE <<>>) /\ Kind(s, kind) = kept[1]
  <2>1. 1 \in 1..Len(s) /\ 1 - 1 = 0 /\ kept[0] = <<>>
    BY <1>4, <1>5 DEF Keeps
  <2>2. kept[1] = IF s[1][2] = kind THEN Append(kept[1 - 1], s[1]) ELSE kept[1 - 1]
    BY <1>5, <2>1 DEF Keeps
  <2> QED
    BY <1>4, <1>5, <2>1, <2>2 DEF Keeps
<1>7. Append(<<>>, token) = <<token>>
  OBVIOUS
<1> QED
  BY <1>3, <1>4, <1>6, <1>7 DEF s

\* The tokens of a kind of two sequences.
LEMMA KindOfBoth ==
  ASSUME NEW s \in Seq(Tokens), NEW t \in Seq(Tokens), NEW kind
  PROVE  /\ s \o t \in Seq(Tokens) /\ Kind(s, kind) \in Seq(Tokens)
         /\ Kind(s \o t, kind) = Kind(s, kind) \o Kind(t, kind)
<1> DEFINE r == s \o t
           n == Len(s)
<1>1. /\ r \in Seq(Tokens) /\ Len(r) = n + Len(t) /\ n \in Nat /\ Len(t) \in Nat
      /\ \A i \in 1..n + Len(t) : r[i] = IF i <= n THEN s[i] ELSE t[i - n]
  BY ConcatProperties, LenProperties
<1> HIDE DEF r, n
<1>2. PICK a : Keeps(a, s, kind)
  BY KindKeeps
<1>3. PICK b : Keeps(b, t, kind)
  BY KindKeeps
<1>4. PICK c : Keeps(c, r, kind)
  BY <1>1, KindKeeps
<1>5. c[n] = a[n]
  <2> DEFINE P == {i \in 0..n : c[i] = a[i]}
  <2>1. 0 \in P
    BY <1>1, <1>2, <1>4 DEF Keeps
  <2>2. ASSUME NEW m \in 0..(n - 1), m \in P PROVE m + 1 \in P
    <3>1. m + 1 \in 1..n /\ m + 1 \in 1..Len(r) /\ m + 1 \in 1..(n + Len(t)) /\ (m + 1) - 1 = m /\ m + 1 \in 0..n
      BY <1>1, <2>2
    <3>2. a[m + 1] = IF s[m + 1][2] = kind THEN Append(a[m], s[m + 1]) ELSE a[m]
      BY <1>2, <3>1 DEF Keeps, n
    <3>3. c[m + 1] = IF r[m + 1][2] = kind THEN Append(c[m], r[m + 1]) ELSE c[m]
      BY <1>4, <3>1 DEF Keeps
    <3>4. r[m + 1] = s[m + 1]
      BY <1>1, <3>1
    <3> QED
      BY <2>2, <3>1, <3>2, <3>3, <3>4
  <2> HIDE DEF P
  <2>3. \A m \in 0..n : m \in P
    BY <1>1, <2>1, <2>2, Induction
  <2> QED
    BY <1>1, <2>3 DEF P
<1>6. a[n] = Kind(s, kind) /\ a[n] \in Seq(Tokens)
  <2>1. n \in 0..n
    BY <1>1
  <2>2. a \in [0..n -> Seq(Tokens)] /\ a[n] = Kind(s, kind)
    BY <1>2 DEF Keeps, n
  <2> QED
    BY <2>1, <2>2
<1>7. c[n + Len(t)] = a[n] \o b[Len(t)]
  <2> DEFINE P == {i \in 0..Len(t) : c[n + i] = a[n] \o b[i]}
  <2>1. 0 \in P
    <3>1. a[n] \o <<>> = a[n] /\ b[0] = <<>> /\ n + 0 = n
      BY <1>1, <1>3, <1>6, ConcatEmptySeq DEF Keeps
    <3>2. 0 \in 0..Len(t) /\ c[n + 0] = a[n] \o b[0]
      BY <1>1, <1>5, <3>1
    <3> QED
      BY <3>2
  <2>2. ASSUME NEW m \in 0..(Len(t) - 1), m \in P PROVE m + 1 \in P
    <3>1. /\ m + 1 \in 1..Len(t) /\ n + (m + 1) \in 1..Len(r) /\ n + (m + 1) \in 1..(n + Len(t))
          /\ (m + 1) - 1 = m /\ (n + (m + 1)) - 1 = n + m /\ m + 1 \in 0..Len(t)
          /\ ~(n + (m + 1) <= n) /\ (n + (m + 1)) - n = m + 1 /\ m \in 0..Len(t)
      BY <1>1, <2>2
    <3>2. b[m + 1] = IF t[m + 1][2] = kind THEN Append(b[m], t[m + 1]) ELSE b[m]
      BY <1>3, <3>1 DEF Keeps
    <3>3. c[n + (m + 1)] = IF r[n + (m + 1)][2] = kind THEN Append(c[n + m], r[n + (m + 1)]) ELSE c[n + m]
      BY <1>4, <3>1 DEF Keeps
    <3>4. r[n + (m + 1)] = t[m + 1]
      BY <1>1, <3>1
    <3>5. b[m] \in Seq(Tokens) /\ t[m + 1] \in Tokens
      BY <1>3, <3>1, ElementOfSeq DEF Keeps
    <3>6. Append(a[n] \o b[m], t[m + 1]) = a[n] \o Append(b[m], t[m + 1])
      <4>1. <<t[m + 1]>> \in Seq(Tokens) /\ Append(b[m], t[m + 1]) = b[m] \o <<t[m + 1]>>
        BY <3>5, AppendIsConcat
      <4>2. a[n] \o b[m] \in Seq(Tokens)
        BY <1>6, <3>5, ConcatProperties
      <4>3. Append(a[n] \o b[m], t[m + 1]) = (a[n] \o b[m]) \o <<t[m + 1]>>
        BY <3>5, <4>2, AppendIsConcat
      <4>4. (a[n] \o b[m]) \o <<t[m + 1]>> = a[n] \o (b[m] \o <<t[m + 1]>>)
        <5>1. \A x, y, z \in Seq(Tokens) : (x \o y) \o z = x \o (y \o z)
          BY ConcatAssociative
        <5> QED
          BY <1>6, <3>5, <4>1, <5>1, Zenon
      <4> QED
        BY <4>1, <4>3, <4>4
    <3>7. c[n + m] = a[n] \o b[m]
      BY <2>2
    <3>8. c[n + (m + 1)] = a[n] \o b[m + 1]
      BY <3>2, <3>3, <3>4, <3>6, <3>7
    <3> QED
      BY <3>1, <3>8
  <2> HIDE DEF P
  <2>3. \A m \in 0..Len(t) : m \in P
    BY <1>1, <2>1, <2>2, Induction
  <2>4. Len(t) \in P
    BY <1>1, <2>3
  <2> QED
    BY <2>4 DEF P
<1>8. Kind(r, kind) = c[n + Len(t)] /\ Kind(t, kind) = b[Len(t)]
  BY <1>1, <1>3, <1>4 DEF Keeps
<1> QED
  BY <1>1, <1>6, <1>7, <1>8 DEF r

-----------------------------------------------------------------------------
(* Sequences flattened. *)

\* flat is what FlattenSeq(ss) has joined of the first i sequences.
Joins(flat, ss) ==
    /\ flat \in [1..Len(ss) -> Seq(Tokens)] /\ flat[1] = ss[1] /\ FlattenSeq(ss) = flat[Len(ss)]
    /\ \A i \in 1..(Len(ss) - 1) : flat[i + 1] = flat[i] \o ss[i + 1]

\* What FlattenSeq defines by recursion is there: it joins the parts one after the other.
LEMMA FlattenJoins ==
  ASSUME NEW ss \in Seq(Seq(Tokens)), Len(ss) # 0
  PROVE  \E flat : Joins(flat, ss)
<1> DEFINE n == Len(ss)
           Of(f) == [i \in 1..n |-> IF i = 1 THEN ss[i] ELSE f[i - 1] \o ss[i]]
           flat == CHOOSE f : f = Of(f)
           G == [p \in (1..(n - 1)) \X Seq(Tokens) |-> p[2] \o ss[p[1] + 1]]
<1>1. n \in Nat /\ n # 0 /\ \A i \in 1..n : ss[i] \in Seq(Tokens)
  BY LenProperties, ElementOfSeq
<1>2. FlattenSeq(ss) = flat[n]
  BY <1>1 DEF FlattenSeq
<1>3. ASSUME NEW i \in 1..(n - 1), NEW w \in Seq(Tokens)
      PROVE  G[<<i, w>>] = w \o ss[i + 1] /\ G[<<i, w>>] \in Seq(Tokens)
  <2>1. i + 1 \in 1..n
    BY <1>1
  <2>2. w \o ss[i + 1] \in Seq(Tokens)
    BY <1>1, <2>1, ConcatProperties
  <2> QED
    BY <2>2
<1> HIDE DEF G, n
<1>4. ss[1] \in Seq(Tokens) /\ n - 1 \in Nat
  BY <1>1
<1>5. PICK g : g = [i \in 0..(n - 1) |-> g[i]] /\ Steps(g, n - 1, ss[1], G)
  BY <1>4, Recursion
<1>6. \A i \in 0..(n - 1) : g[i] \in Seq(Tokens)
  BY <1>3, <1>4, <1>5, RecursionStays
<1> DEFINE h == [i \in 1..n |-> g[i - 1]]
<1>7. h = Of(h)
  <2>1. ASSUME NEW i \in 1..n PROVE Of(h)[i] = g[i - 1]
    <3>1. CASE i = 1
      BY <1>5, <3>1 DEF Steps
    <3>2. CASE i # 1
      <4>1. i - 1 \in 1..(n - 1) /\ i - 1 \in 1..n /\ (i - 1) - 1 \in 0..(n - 1) /\ (i - 1) + 1 = i
        BY <1>1, <3>2
      <4>2. g[i - 1] = G[<<i - 1, g[(i - 1) - 1]>>]
        BY <1>5, <4>1 DEF Steps
      <4>3. g[i - 1] = g[(i - 1) - 1] \o ss[i]
        BY <1>3, <1>6, <4>1, <4>2
      <4>4. h[i - 1] = g[(i - 1) - 1]
        BY <4>1
      <4> HIDE DEF h
      <4> QED
        BY <3>2, <4>3, <4>4
    <3> QED
      BY <3>1, <3>2
  <2> QED
    BY <2>1
<1>8. flat = Of(flat)
  <2> HIDE DEF Of, h
  <2> QED
    BY <1>7
<1> HIDE DEF flat, h
<1>9. flat[1] = ss[1] /\ \A i \in 1..(n - 1) : flat[i + 1] = flat[i] \o ss[i + 1]
  <2>1. 1 \in 1..n /\ \A i \in 1..(n - 1) : i + 1 \in 1..n /\ i + 1 # 1 /\ (i + 1) - 1 = i
    BY <1>1
  <2> QED
    BY <1>8, <2>1
<1>10. flat \in [1..n -> Seq(Tokens)]
  <2> DEFINE P == {i \in 0..(n - 1) : flat[i + 1] \in Seq(Tokens)}
  <2>1. 0 \in P
    <3>1. 0 + 1 = 1 /\ 0 \in 0..(n - 1)
      BY <1>1
    <3> QED
      BY <1>4, <1>9, <3>1
  <2>2. ASSUME NEW m \in 0..((n - 1) - 1), m \in P PROVE m + 1 \in P
    <3>1. m + 1 \in 1..(n - 1) /\ (m + 1) + 1 \in 1..n /\ m + 1 \in 0..(n - 1)
      BY <1>1, <2>2
    <3>2. flat[m + 1] \in Seq(Tokens) /\ ss[(m + 1) + 1] \in Seq(Tokens)
      BY <1>1, <2>2, <3>1
    <3>3. flat[(m + 1) + 1] \in Seq(Tokens)
      BY <1>9, <3>1, <3>2, ConcatProperties
    <3> QED
      BY <3>1, <3>3
  <2> HIDE DEF P
  <2>3. \A m \in 0..(n - 1) : m \in P
    BY <1>4, <2>1, <2>2, Induction
  <2>4. ASSUME NEW i \in 1..n PROVE flat[i] \in Seq(Tokens)
    <3>1. i - 1 \in 0..(n - 1) /\ (i - 1) + 1 = i
      BY <1>1
    <3> QED
      BY <2>3, <3>1 DEF P
  <2> QED
    BY <1>8, <2>4
<1> QED
  BY <1>2, <1>9, <1>10 DEF Joins, n

\* Where the parts hold the same tokens of a kind, so do the wholes.
LEMMA KindOfFlat ==
  ASSUME NEW ss \in Seq(Seq(Tokens)), NEW tt \in Seq(Seq(Tokens)), Len(ss) = Len(tt), NEW kind,
         \A i \in 1..Len(ss) : Kind(ss[i], kind) = Kind(tt[i], kind)
  PROVE  /\ FlattenSeq(ss) \in Seq(Tokens)
         /\ Kind(FlattenSeq(ss), kind) = Kind(FlattenSeq(tt), kind)
<1> DEFINE n == Len(ss)
<1>1. n \in Nat /\ n = Len(tt) /\ \A i \in 1..n : ss[i] \in Seq(Tokens) /\ tt[i] \in Seq(Tokens)
  BY LenProperties, ElementOfSeq
<1> HIDE DEF n
<1>2. CASE n = 0
  <2>1. FlattenSeq(ss) = ss /\ FlattenSeq(tt) = tt
    BY <1>1, <1>2 DEF FlattenSeq, n
  <2>2. ss = <<>> /\ tt = <<>>
    BY <1>1, <1>2, EmptySeq DEF n
  <2> QED
    BY <2>1, <2>2, EmptySeq
<1>3. CASE n # 0
  <2>1. PICK a : Joins(a, ss)
    BY <1>3, FlattenJoins DEF n
  <2>2. PICK b : Joins(b, tt)
    BY <1>1, <1>3, FlattenJoins
  <2>3. /\ a \in [1..n -> Seq(Tokens)] /\ a[1] = ss[1] /\ FlattenSeq(ss) = a[n]
        /\ b \in [1..n -> Seq(Tokens)] /\ b[1] = tt[1] /\ FlattenSeq(tt) = b[n]
        /\ \A i \in 1..(n - 1) : a[i + 1] = a[i] \o ss[i + 1] /\ b[i + 1] = b[i] \o tt[i + 1]
    BY <1>1, <2>1, <2>2 DEF Joins, n
  <2> DEFINE P == {i \in 0..(n - 1) : Kind(a[i + 1], kind) = Kind(b[i + 1], kind)}
  <2>4. 0 \in P
    <3>1. 0 + 1 = 1 /\ 0 \in 0..(n - 1) /\ 1 \in 1..n
      BY <1>1, <1>3
    <3> QED
      BY <2>3, <3>1 DEF n
  <2>5. ASSUME NEW m \in 0..((n - 1) - 1), m \in P PROVE m + 1 \in P
    <3>1. m + 1 \in 1..(n - 1) /\ m + 1 \in 1..n /\ (m + 1) + 1 \in 1..n /\ m + 1 \in 0..(n - 1)
      BY <1>1, <1>3, <2>5
    <3>2. Kind(a[m + 1], kind) = Kind(b[m + 1], kind)
      BY <2>5
    <3>3. Kind(ss[(m + 1) + 1], kind) = Kind(tt[(m + 1) + 1], kind)
      BY <3>1 DEF n
    <3>4. /\ Kind(a[(m + 1) + 1], kind) = Kind(a[m + 1], kind) \o Kind(ss[(m + 1) + 1], kind)
          /\ Kind(b[(m + 1) + 1], kind) = Kind(b[m + 1], kind) \o Kind(tt[(m + 1) + 1], kind)
      <4>1. /\ a[m + 1] \in Seq(Tokens) /\ ss[(m + 1) + 1] \in Seq(Tokens)
            /\ b[m + 1] \in Seq(Tokens) /\ tt[(m + 1) + 1] \in Seq(Tokens)
        BY <1>1, <2>3, <3>1
      <4>2. a[(m + 1) + 1] = a[m + 1] \o ss[(m + 1) + 1] /\ b[(m + 1) + 1] = b[m + 1] \o tt[(m + 1) + 1]
        BY <2>3, <3>1
      <4>3. \A x, y \in Seq(Tokens) : Kind(x \o y, kind) = Kind(x, kind) \o Kind(y, kind)
        BY KindOfBoth
      <4> QED
        BY <4>1, <4>2, <4>3, Zenon
    <3>5. Kind(a[(m + 1) + 1], kind) = Kind(b[(m + 1) + 1], kind)
      BY <3>2, <3>3, <3>4
    <3> QED
      BY <3>1, <3>5
  <2> HIDE DEF P
  <2>6. n - 1 \in P
    <3>1. n - 1 \in Nat /\ n - 1 \in 0..(n - 1)
      BY <1>1, <1>3
    <3>2. \A m \in 0..(n - 1) : m \in P
      BY <2>4, <2>5, <3>1, Induction
    <3> QED
      BY <3>1, <3>2
  <2>7. (n - 1) + 1 = n /\ n \in 1..n
    BY <1>1, <1>3
  <2>8. Kind(a[n], kind) = Kind(b[n], kind)
    BY <2>6, <2>7 DEF P
  <2> QED
    BY <2>3, <2>7, <2>8
<1> QED
  BY <1>2, <1>3

-----------------------------------------------------------------------------
(* The graph of turns. *)

\* The ids a file has, as Ids(file) when there is one.
Named(file) == {t.id : t \in Range(file.turns)}

\* Parents come first, and what is pointed to is there.
IsGraph(file) ==
    /\ IsFile(file)
    /\ \A t \in Range(file.turns) : t.delta \in Seq(Tokens)
    /\ \A i \in DOMAIN file.turns : \/ file.turns[i].parent = None
                                    \/ \E k \in 1..(i - 1) : file.turns[k].id = file.turns[i].parent
    /\ file.heads \in [{Main} \cup Branches -> Named(file) \cup {None}]
    /\ file.active \in {Main} \cup Branches

\* A turn after its parent's chain.
Link(f, t) == IF t.parent = None THEN <<t>> ELSE Append(f[t.parent], t)

\* From any turn the way to the root goes along turns of the file.
LEMMA ChainIsSeq ==
  ASSUME NEW file, file # None, IsGraph(file), NEW id \in Ids(file) \cup {None}
  PROVE  Chain(file, id) \in Seq(Range(file.turns))
<1> DEFINE s == file.turns
           n == Len(s)
           S == Range(s)
           turnOf(i) == CHOOSE t \in Range(file.turns) : t.id = i
           Of(f) == [i \in Ids(file) |-> IF turnOf(i).parent = None THEN <<turnOf(i)>>
                                         ELSE Append(f[turnOf(i).parent], turnOf(i))]
           chain == CHOOSE f : f = Of(f)
<1>1. Chain(file, id) = IF id = None THEN <<>> ELSE chain[id]
  BY DEF Chain
<1>2. /\ n \in Nat /\ DOMAIN s = 1..n /\ \A k \in 1..n : s[k] \in S
      /\ \A i, k \in 1..n : s[i].id = s[k].id => i = k
      /\ \A i \in 1..n : s[i].parent = None \/ \E k \in 1..(i - 1) : s[k].id = s[i].parent
  BY ListFacts DEF IsGraph, IsFile
<1>3. ASSUME NEW i \in Ids(file) PROVE \E k \in 1..n : s[k].id = i
  <2>1. PICK t \in S : t.id = i
    BY DEF Ids, Stored
  <2>2. PICK k \in 1..n : s[k] = t
    BY <1>2, <2>1 DEF Range
  <2> QED
    BY <2>1, <2>2
<1>4. ASSUME NEW k \in 1..n PROVE s[k].id \in Ids(file) /\ turnOf(s[k].id) = s[k]
  <2>1. s[k] \in S /\ s[k].id \in Ids(file)
    BY <1>2 DEF Ids, Stored
  <2>2. ASSUME NEW t \in S, t.id = s[k].id PROVE t = s[k]
    BY <1>2, <2>2 DEF Range
  <2> QED
    BY <2>1, <2>2
<1>5. ASSUME NEW f, NEW k \in 1..n PROVE Of(f)[s[k].id] = Link(f, s[k])
  <2> HIDE DEF turnOf, s
  <2>1. Of(f)[s[k].id] = Link(f, turnOf(s[k].id))
    BY <1>4 DEF Link
  <2> QED
    BY <1>4, <2>1
<1> HIDE DEF turnOf
<1>6. \A f : DOMAIN Of(f) = Ids(file) /\ Of(f) = [i \in Ids(file) |-> Of(f)[i]]
  OBVIOUS
<1> HIDE DEF Of, s, n, S
<1> DEFINE UpTo(m) == {s[k].id : k \in 1..m}
<1>7. \E f : f = Of(f)
  <2> DEFINE P == {m \in 0..n : \E f : f = [i \in UpTo(m) |-> f[i]] /\ \A k \in 1..m : f[s[k].id] = Link(f, s[k])}
  <2>1. 0 \in P
    <3> DEFINE f == [i \in UpTo(0) |-> <<>>]
    <3>1. f = [i \in UpTo(0) |-> f[i]] /\ \A k \in 1..0 : f[s[k].id] = Link(f, s[k])
      OBVIOUS
    <3>2. 0 \in 0..n
      BY <1>2
    <3> HIDE DEF f
    <3> QED
      BY <3>1, <3>2
  <2>2. ASSUME NEW m \in 0..(n - 1), m \in P PROVE m + 1 \in P
    <3>1. PICK f : f = [i \in UpTo(m) |-> f[i]] /\ \A k \in 1..m : f[s[k].id] = Link(f, s[k])
      BY <2>2
    <3> DEFINE t == s[m + 1]
               g == [i \in UpTo(m + 1) |-> IF i = t.id THEN Link(f, t) ELSE f[i]]
    <3>2. m + 1 \in 1..n /\ m + 1 \in 1..(m + 1) /\ m + 1 \in 0..n /\ \A k \in 1..m : k \in 1..(m + 1) /\ k \in 1..n /\ k # m + 1
      BY <1>2, <2>2
    <3>3. g[t.id] = Link(f, t) /\ g = [i \in UpTo(m + 1) |-> g[i]]
      BY <3>2
    <3>4. ASSUME NEW k \in 1..m PROVE g[s[k].id] = f[s[k].id]
      BY <1>2, <3>2
    <3> HIDE DEF g
    <3>5. ASSUME NEW k \in 1..(m + 1) PROVE Link(g, s[k]) = Link(f, s[k])
      <4>1. CASE s[k].parent = None
        BY <4>1 DEF Link
      <4>2. CASE s[k].parent # None
        <5>1. k \in 1..n
          BY <1>2, <2>2
        <5>2. PICK j \in 1..(k - 1) : s[j].id = s[k].parent
          BY <1>2, <4>2, <5>1
        <5>3. j \in 1..m
          BY <2>2
        <5> QED
          BY <3>4, <5>2, <5>3 DEF Link
      <4> QED
        BY <4>1, <4>2
    <3>6. ASSUME NEW k \in 1..(m + 1) PROVE g[s[k].id] = Link(g, s[k])
      <4>1. k \in 1..m \/ k = m + 1
        BY <2>2
      <4> QED
        BY <3>1, <3>3, <3>4, <3>5, <4>1
    <3> QED
      BY <3>2, <3>3, <3>6
  <2> HIDE DEF P
  <2>3. n \in P
    <3>1. \A m \in 0..n : m \in P
      BY <1>2, <2>1, <2>2, Induction
    <3>2. n \in 0..n
      BY <1>2
    <3> QED
      BY <3>1, <3>2
  <2>4. PICK f : f = [i \in UpTo(n) |-> f[i]] /\ \A k \in 1..n : f[s[k].id] = Link(f, s[k])
    BY <2>3 DEF P
  <2>5. UpTo(n) = Ids(file)
    BY <1>3, <1>4
  <2>6. \A i \in Ids(file) : f[i] = Of(f)[i]
    BY <1>3, <1>5, <2>4
  <2>7. f = [i \in Ids(file) |-> Of(f)[i]]
    <3> HIDE DEF UpTo
    <3> QED
      BY <2>4, <2>5, <2>6
  <2> QED
    BY <1>6, <2>7
<1>8. chain = Of(chain)
  BY <1>7
<1> HIDE DEF chain
<1>9. \A k \in 1..n : chain[s[k].id] = Link(chain, s[k])
  BY <1>5, <1>8
<1>10. \A k \in 1..n : chain[s[k].id] \in Seq(S)
  <2> DEFINE P == {m \in 0..n : \A k \in 1..m : chain[s[k].id] \in Seq(S)}
  <2>1. 0 \in P
    BY <1>2
  <2>2. ASSUME NEW m \in 0..(n - 1), m \in P PROVE m + 1 \in P
    <3>1. m + 1 \in 1..n /\ m + 1 \in 0..n /\ (m + 1) - 1 = m
      BY <1>2, <2>2
    <3>2. s[m + 1] \in S
      BY <1>2, <3>1
    <3>3. ASSUME s[m + 1].parent = None PROVE chain[s[m + 1].id] \in Seq(S)
      <4>1. chain[s[m + 1].id] = Link(chain, s[m + 1])
        BY <1>9, <3>1
      <4>2. chain[s[m + 1].id] = <<s[m + 1]>>
        BY <3>3, <4>1 DEF Link
      <4>3. PICK t \in S : t = s[m + 1]
        BY <3>2
      <4>4. <<t>> \in Seq(S)
        OBVIOUS
      <4> QED
        BY <4>2, <4>3, <4>4
    <3>4. ASSUME s[m + 1].parent # None PROVE chain[s[m + 1].id] \in Seq(S)
      <4>1. PICK j \in 1..m : s[j].id = s[m + 1].parent
        BY <1>2, <3>1, <3>4
      <4>2. chain[s[m + 1].id] = Append(chain[s[j].id], s[m + 1])
        BY <1>9, <3>1, <3>4, <4>1 DEF Link
      <4>3. chain[s[j].id] \in Seq(S)
        BY <2>2
      <4>4. PICK t \in S : t = s[m + 1]
        BY <3>2
      <4>5. Append(chain[s[j].id], t) \in Seq(S)
        BY <4>3, AppendProperties
      <4> QED
        BY <4>2, <4>4, <4>5
    <3>5. chain[s[m + 1].id] \in Seq(S)
      BY <3>3, <3>4
    <3>6. \A k \in 1..(m + 1) : k \in 1..m \/ k = m + 1
      BY <2>2
    <3> QED
      BY <2>2, <3>1, <3>5, <3>6
  <2> HIDE DEF P
  <2>3. n \in P
    <3>1. \A m \in 0..n : m \in P
      BY <1>2, <2>1, <2>2, Induction
    <3>2. n \in 0..n
      BY <1>2
    <3> QED
      BY <3>1, <3>2
  <2> QED
    BY <2>3 DEF P
<1>11. CASE id = None
  BY <1>1, <1>11, EmptySeq DEF S, s
<1>12. CASE id # None
  <2>1. PICK k \in 1..n : s[k].id = id
    BY <1>3, <1>12
  <2> QED
    BY <1>1, <1>10, <1>12, <2>1 DEF S, s
<1> QED
  BY <1>11, <1>12

-----------------------------------------------------------------------------
(* The two halves of a turn. *)

\* The same answers, in the same order; and none.
Agree(s, t) == Kind(s, "answer") = Kind(t, "answer")
Quiet(s) == Kind(s, "answer") = <<>>

\* As HalvesAgree has it, of what is stored and of what is on its way there.
Matched(events, delta, left) == Agree(events, delta) \/ Exchanges(events) \cap left # {}
FileMatched(file, left) == IsGraph(file) /\ \A t \in Stored(file) : Matched(t.events, t.delta, left)

\* The two halves of a file, and that they agree when those of its turns do.
LEMMA HalvesOfFile ==
  ASSUME NEW file, file # None, IsGraph(file)
  PROVE  /\ EventsAt(file) \in Seq(Tokens) /\ MessagesAt(file) \in Seq(Tokens)
         /\ (\A t \in Stored(file) : Agree(t.events, t.delta)) => Agree(MessagesAt(file), EventsAt(file))
<1> DEFINE c == Chain(file, file.heads[file.active])
           n == Len(c)
           ss == [i \in DOMAIN c |-> c[i].delta]
           tt == [i \in DOMAIN c |-> c[i].events]
<1>1. c \in Seq(Range(file.turns))
  <2>1. file.heads[file.active] \in Ids(file) \cup {None}
    BY DEF IsGraph, Named, Ids, Stored
  <2> QED
    BY <2>1, ChainIsSeq
<1>2. MessagesAt(file) = FlattenSeq(ss) /\ EventsAt(file) = FlattenSeq(tt)
  BY DEF MessagesAt, EventsAt
<1> HIDE DEF c
<1>3. n \in Nat /\ DOMAIN c = 1..n /\ \A i \in 1..n : c[i] \in Range(file.turns)
  BY <1>1, LenProperties, ElementOfSeq
<1> HIDE DEF n
<1>4. \A i \in 1..n : c[i].delta \in Seq(Tokens) /\ c[i].events \in Seq(Tokens) /\ c[i] \in Stored(file)
  BY <1>3 DEF IsGraph, IsFile, Stored
<1>5. ss \in [1..n -> Seq(Tokens)] /\ tt \in [1..n -> Seq(Tokens)] /\ \A i \in 1..n : ss[i] = c[i].delta /\ tt[i] = c[i].events
  BY <1>3, <1>4
<1> HIDE DEF ss, tt
<1>6. ss \in Seq(Seq(Tokens)) /\ tt \in Seq(Seq(Tokens)) /\ Len(ss) = n /\ Len(tt) = n
  BY <1>3, <1>5, SeqDef, LenProperties
<1>7. FlattenSeq(ss) \in Seq(Tokens) /\ FlattenSeq(tt) \in Seq(Tokens)
  BY <1>6, KindOfFlat
<1>8. ASSUME \A t \in Stored(file) : Agree(t.events, t.delta)
      PROVE  Kind(FlattenSeq(ss), "answer") = Kind(FlattenSeq(tt), "answer")
  <2>1. \A i \in 1..Len(ss) : Kind(ss[i], "answer") = Kind(tt[i], "answer")
    BY <1>4, <1>5, <1>6, <1>8 DEF Agree
  <2> QED
    BY <1>6, <2>1, KindOfFlat
<1> QED
  BY <1>2, <1>7, <1>8 DEF Agree

-----------------------------------------------------------------------------
(* A write keeps the graph a graph. *)

\* A turn in a file that is not there.
LEMMA NewGraph ==
  ASSUME NEW job, job.events \in Seq(Tokens), job.delta \in Seq(Tokens)
  PROVE  IsGraph(Created(job)) /\ \A t \in Range(Created(job).turns) : t.events = job.events /\ t.delta = job.delta
<1> DEFINE r == Created(job)
<1>1. /\ IsFile(r) /\ DOMAIN r.turns = 1..1 /\ r.turns[1].parent = None
      /\ \E n : n.events = job.events /\ n.delta = job.delta /\ n.id = job.id /\ Range(r.turns) = {n}
  BY NewFile
<1>2. r.heads = [b \in {Main} \cup Branches |-> IF b = Main THEN job.id ELSE None] /\ r.active = Main
  BY DEF Created
<1> HIDE DEF r
<1>3. PICK n : n.events = job.events /\ n.delta = job.delta /\ n.id = job.id /\ Range(r.turns) = {n}
  BY <1>1
<1>4. IsList(r.turns) /\ DOMAIN r.turns = 1..1
  BY <1>1 DEF IsFile
<1>5. \A t \in Range(r.turns) : t = n
  BY <1>3
<1>6. job.id \in Named(r)
  BY <1>3 DEF Named
<1>7. r.heads \in [{Main} \cup Branches -> Named(r) \cup {None}] /\ r.active \in {Main} \cup Branches
  BY <1>2, <1>6
<1> QED
  BY <1>1, <1>3, <1>4, <1>5, <1>7 DEF IsGraph, r

\* A turn in a file that is there, with an id it has or another one.
LEMMA GraphWithTurn ==
  ASSUME NEW file, file # None, IsGraph(file), NEW job, job.events \in Seq(Tokens), job.delta \in Seq(Tokens)
  PROVE  LET r == Appended(file, job)
         IN  /\ IsGraph(r)
             /\ \A t \in Range(r.turns) : t \in Range(file.turns) \/ (t.events = job.events /\ t.delta = job.delta)
<1> DEFINE r == Appended(file, job)
           s == file.turns
           p == r.turns
<1>1. IsFile(file) /\ IsFile(r)
  BY FileWithTurn DEF IsGraph
<1>2. PICK n : n.events = job.events /\ n.delta = job.delta /\ Range(p) \subseteq Range(s) \cup {n}
  BY <1>1, FileWithTurn
<1>3. /\ \A k \in DOMAIN s : k \in DOMAIN p /\ p[k].id = s[k].id /\ p[k].parent = s[k].parent
      /\ \A k \in DOMAIN p \ DOMAIN s : k = Len(s) + 1 /\ p[k].parent = file.heads[file.active]
      /\ \E k \in DOMAIN p : p[k].id = job.id
  BY <1>1, FileWithTurn
<1>4. r.heads = [file.heads EXCEPT ![file.active] = job.id] /\ r.active = file.active
  <2> DEFINE placed == p
  <2>1. \E q : r = [[file EXCEPT !.turns = q] EXCEPT !.heads[file.active] = job.id]
    BY DEF Appended
  <2>2. {"turns", "heads", "active"} \subseteq DOMAIN file
    BY <1>1 DEF IsFile
  <2> HIDE DEF r
  <2> QED
    BY <2>1, <2>2
<1> HIDE DEF r
<1>5. /\ DOMAIN s = 1..Len(s) /\ Len(s) \in Nat /\ \A k \in DOMAIN s : s[k] \in Range(s)
      /\ \A k \in DOMAIN p : p[k] \in Range(p)
  BY <1>1, ListFacts DEF IsFile
<1>6. Named(file) \subseteq Named(r) /\ job.id \in Named(r)
  <2>1. \A t \in Range(s) : \E k \in DOMAIN s : t = s[k]
    BY DEF Range
  <2> QED
    BY <1>3, <1>5, <2>1 DEF Named
<1>7. r.heads \in [{Main} \cup Branches -> Named(r) \cup {None}] /\ r.active \in {Main} \cup Branches
  BY <1>4, <1>6 DEF IsGraph
<1>8. \A t \in Range(p) : t \in Range(s) \/ (t.events = job.events /\ t.delta = job.delta)
  BY <1>2
<1>9. \A t \in Range(p) : t.delta \in Seq(Tokens)
  BY <1>8 DEF IsGraph
<1>10. ASSUME NEW i \in DOMAIN p
       PROVE  p[i].parent = None \/ \E k \in 1..(i - 1) : p[k].id = p[i].parent
  <2>1. CASE i \in DOMAIN s
    <3>1. s[i].parent = None \/ \E k \in 1..(i - 1) : s[k].id = s[i].parent
      BY <2>1 DEF IsGraph
    <3>2. \A k \in 1..(i - 1) : k \in DOMAIN s
      BY <1>5, <2>1
    <3> QED
      BY <1>3, <2>1, <3>1, <3>2
  <2>2. CASE i \notin DOMAIN s
    <3>1. i = Len(s) + 1 /\ p[i].parent \in Named(file) \cup {None}
      BY <1>3, <2>2 DEF IsGraph
    <3>2. CASE p[i].parent \in Named(file)
      <4>1. PICK k \in DOMAIN s : s[k].id = p[i].parent
        BY <3>2 DEF Named, Range
      <4>2. k \in 1..(i - 1)
        BY <1>5, <3>1
      <4> QED
        BY <1>3, <4>1, <4>2
    <3> QED
      BY <3>1, <3>2
  <2> QED
    BY <2>1, <2>2
<1> QED
  BY <1>1, <1>7, <1>8, <1>9, <1>10 DEF IsGraph, r

\* A fork, a change of branch and a removal leave the turns where they are.
LEMMA GraphStays ==
  ASSUME NEW file, IsGraph(file), NEW branch \in {Main} \cup Branches, NEW from \in Named(file)
  PROVE  \A r \in {Forked(file, branch, from), Removed(file, branch), [file EXCEPT !.active = branch]} :
             IsGraph(r) /\ r.turns = file.turns
<1>1. {"turns", "heads", "active"} \subseteq DOMAIN file /\ IsFile(file)
  BY DEF IsGraph, IsFile
<1>2. ASSUME NEW r, r.turns = file.turns, r.heads \in [{Main} \cup Branches -> Named(file) \cup {None}],
             r.active \in {Main} \cup Branches, {"turns", "heads", "active"} \subseteq DOMAIN r
      PROVE  IsGraph(r)
  BY <1>1, <1>2 DEF IsGraph, IsFile, Named
<1>3. IsGraph(Forked(file, branch, from)) /\ Forked(file, branch, from).turns = file.turns
  <2> DEFINE r == Forked(file, branch, from)
  <2>1. r.turns = file.turns /\ r.heads = [file.heads EXCEPT ![branch] = from] /\ r.active = branch
        /\ {"turns", "heads", "active"} \subseteq DOMAIN r
    BY <1>1 DEF Forked
  <2> HIDE DEF r
  <2>2. r.heads \in [{Main} \cup Branches -> Named(file) \cup {None}]
    BY <2>1 DEF IsGraph
  <2> QED
    BY <1>2, <2>1, <2>2 DEF r
<1>4. IsGraph(Removed(file, branch)) /\ Removed(file, branch).turns = file.turns
  <2> DEFINE r == Removed(file, branch)
  <2>1. r.turns = file.turns /\ r.heads = [file.heads EXCEPT ![branch] = None] /\ r.active \in {file.active, Main}
        /\ {"turns", "heads", "active"} \subseteq DOMAIN r
    BY <1>1 DEF Removed
  <2> HIDE DEF r
  <2> QED
    BY <1>2, <2>1 DEF IsGraph, r
<1>5. IsGraph([file EXCEPT !.active = branch]) /\ [file EXCEPT !.active = branch].turns = file.turns
  <2> DEFINE r == [file EXCEPT !.active = branch]
  <2>1. r.turns = file.turns /\ r.heads = file.heads /\ r.active = branch
        /\ {"turns", "heads", "active"} \subseteq DOMAIN r
    BY <1>1
  <2> HIDE DEF r
  <2> QED
    BY <1>2, <2>1 DEF IsGraph, r
<1> QED
  BY <1>3, <1>4, <1>5

-----------------------------------------------------------------------------
(* The types. *)

Nodes == [id : TurnIds, parent : TurnIds \cup {None}, events : Seq(Tokens), delta : Seq(Tokens)]
Graphs == {file \in Files : IsGraph(file)}

StoreOK ==
    /\ disk \in [Conversations -> Graphs \cup {None}] /\ jobs \in Seq(Jobs)
    /\ load \in [conv : Conversations, file : Graphs \cup {None}] \cup {None}
HostOK ==
    /\ conversationId \in Conversations \cup {None} /\ turnOrdinal \in Nat
    /\ recorded \in Seq(Tokens) /\ pendingEvents \in Seq(Tokens)
    /\ pendingRestore \in Seq(Tokens) \cup {None}
WorkOK ==
    /\ session \in Sessions \cup {None}
    /\ turn \in Turns \cup {None} /\ saving \in Saves \cup {None}
PastOK ==
    /\ asked \in 0..MaxExchanges /\ moves \in 0..MaxMoves
    /\ home \in [1..asked -> Conversations]
    /\ issued \subseteq TurnIds /\ skipped \subseteq Conversations
    /\ moved \subseteq 1..asked /\ dropped \subseteq 1..asked
    /\ rebuildFailed \in BOOLEAN

\* Everything is what it should be, and every file is a graph of turns.
RecordInv == StoreOK /\ HostOK /\ WorkOK /\ PastOK

\* The types are those of TypeOK, for a graph of turns is a file.
LEMMA RecordIsTyped == RecordInv => TypeOK
<1>1. Graphs \subseteq Files
  BY DEF Graphs
<1>2. StoreOK => /\ disk \in [Conversations -> Files \cup {None}]
                 /\ load \in [conv : Conversations, file : Files \cup {None}] \cup {None}
  BY <1>1 DEF StoreOK
<1> QED
  BY <1>2 DEF RecordInv, StoreOK, HostOK, WorkOK, PastOK, TypeOK

\* What a sequence of tokens tells: of which exchanges, and which contracts.
LEMMA Told ==
  ASSUME NEW s \in Seq(Tokens)
  PROVE  Exchanges(s) \subseteq 1..MaxExchanges /\ ContractOf(s) \subseteq 1..MaxExchanges
<1>1. ASSUME NEW t \in Seq(Tokens) PROVE Exchanges(t) \subseteq 1..MaxExchanges
  <2>1. Range(t) \subseteq Tokens
    BY <1>1 DEF Range
  <2> QED
    BY <2>1 DEF Exchanges, Tokens
<1>2. Kind(s, "contract") \in Seq(Tokens)
  BY KindOfBoth
<1> QED
  BY <1>1, <1>2 DEF ContractOf

\* A turn in a file that is not there yet.
LEMMA CreatedType ==
  ASSUME NEW job, job.id \in TurnIds, job.events \in Seq(Tokens), job.delta \in Seq(Tokens)
  PROVE  Created(job) \in Graphs
<1> DEFINE n == [id |-> job.id, parent |-> None, events |-> job.events, delta |-> job.delta]
           heads == [b \in {Main} \cup Branches |-> IF b = Main THEN job.id ELSE None]
<1>1. n \in Nodes
  BY DEF Nodes
<1>2. heads \in [{Main} \cup Branches -> TurnIds \cup {None}]
  OBVIOUS
<1>3. Created(job) = [turns |-> <<n>>, heads |-> heads, active |-> Main]
  BY DEF Created
<1> HIDE DEF n, heads
<1>4. PICK t \in Nodes : t = n
  BY <1>1
<1>5. <<t>> \in Seq(Nodes)
  OBVIOUS
<1>6. Created(job) \in Files
  BY <1>2, <1>3, <1>4, <1>5 DEF Files, Nodes
<1> QED
  BY <1>6, NewGraph DEF Graphs

\* A turn in a file that is there.
LEMMA AppendedType ==
  ASSUME NEW file \in Graphs, file # None,
         NEW job, job.id \in TurnIds, job.events \in Seq(Tokens), job.delta \in Seq(Tokens)
  PROVE  Appended(file, job) \in Graphs
<1> DEFINE turnAt(parent) == [id |-> job.id, parent |-> parent, events |-> job.events, delta |-> job.delta]
           s == file.turns
           mapped == [i \in DOMAIN s |-> IF s[i].id = job.id THEN turnAt(s[i].parent) ELSE s[i]]
           longer == Append(s, turnAt(file.heads[file.active]))
           placed == IF job.id \in Ids(file) THEN mapped ELSE longer
<1>1. /\ file = [turns |-> file.turns, heads |-> file.heads, active |-> file.active]
      /\ s \in Seq(Nodes) /\ file.heads \in [{Main} \cup Branches -> TurnIds \cup {None}]
      /\ file.active \in {Main} \cup Branches
  BY DEF Graphs, Files, Nodes
<1>2. \A parent \in TurnIds \cup {None} : turnAt(parent) \in Nodes
  BY DEF Nodes
<1> HIDE DEF turnAt
<1>3. mapped \in Seq(Nodes)
  <2>1. Len(s) \in Nat /\ DOMAIN s = 1..Len(s) /\ \A i \in DOMAIN s : s[i] \in Nodes
    BY <1>1, LenProperties, ElementOfSeq
  <2>2. \A i \in DOMAIN s : s[i].parent \in TurnIds \cup {None}
    BY <2>1 DEF Nodes
  <2>3. mapped \in [1..Len(s) -> Nodes]
    BY <1>2, <2>1, <2>2
  <2> HIDE DEF mapped
  <2> QED
    BY <2>1, <2>3, SeqDef
<1>4. longer \in Seq(Nodes)
  <2>1. PICK t \in Nodes : t = turnAt(file.heads[file.active])
    BY <1>1, <1>2
  <2>2. Append(s, t) \in Seq(Nodes)
    BY <1>1, AppendProperties
  <2> QED
    BY <2>1, <2>2
<1>5. Appended(file, job) = [[file EXCEPT !.turns = placed] EXCEPT !.heads[file.active] = job.id]
  BY DEF Appended, turnAt
<1> HIDE DEF mapped, longer
<1>6. placed \in Seq(Nodes)
  BY <1>3, <1>4
<1> HIDE DEF placed
<1>7. Appended(file, job) = [turns |-> placed, heads |-> [file.heads EXCEPT ![file.active] = job.id], active |-> file.active]
  BY <1>1, <1>5
<1>8. Appended(file, job) \in Files
  BY <1>1, <1>6, <1>7 DEF Files, Nodes
<1>9. IsGraph(file)
  BY DEF Graphs
<1> QED
  BY <1>8, <1>9, GraphWithTurn DEF Graphs

\* A fork, a switch, a removal.
LEMMA StaysType ==
  ASSUME NEW file \in Graphs, NEW branch \in {Main} \cup Branches, NEW from \in Named(file)
  PROVE  {Forked(file, branch, from), Removed(file, branch), [file EXCEPT !.active = branch]} \subseteq Graphs
<1>1. /\ file = [turns |-> file.turns, heads |-> file.heads, active |-> file.active]
      /\ file.turns \in Seq(Nodes) /\ file.heads \in [{Main} \cup Branches -> TurnIds \cup {None}]
      /\ file.active \in {Main} \cup Branches /\ IsGraph(file)
  BY DEF Graphs, Files, Nodes
<1>2. from \in TurnIds
  <2>1. PICK t \in Range(file.turns) : t.id = from
    BY DEF Named
  <2>2. t \in Nodes
    BY <1>1 DEF Range
  <2> QED
    BY <2>1, <2>2 DEF Nodes
<1>3. Forked(file, branch, from) \in Files
  <2> DEFINE h == [file.heads EXCEPT ![branch] = from]
  <2>1. h \in [{Main} \cup Branches -> TurnIds \cup {None}]
    BY <1>1, <1>2
  <2>2. Forked(file, branch, from) = [[file EXCEPT !.heads = h] EXCEPT !.active = branch]
    BY DEF Forked
  <2> HIDE DEF h
  <2>3. Forked(file, branch, from) = [turns |-> file.turns, heads |-> h, active |-> branch]
    BY <1>1, <2>2
  <2> QED
    BY <1>1, <2>1, <2>3 DEF Files, Nodes
<1>4. Removed(file, branch) \in Files
  <2> DEFINE h == [file.heads EXCEPT ![branch] = None]
             f == [file EXCEPT !.heads = h]
  <2>1. h \in [{Main} \cup Branches -> TurnIds \cup {None}]
    BY <1>1
  <2>2. Removed(file, branch) = [f EXCEPT !.active = IF f.active = branch THEN Main ELSE f.active]
    BY DEF Removed
  <2> HIDE DEF h
  <2>3. f = [turns |-> file.turns, heads |-> h, active |-> file.active]
    BY <1>1
  <2> HIDE DEF f
  <2>4. Removed(file, branch) = [turns |-> file.turns, heads |-> h,
                                 active |-> IF file.active = branch THEN Main ELSE file.active]
    BY <2>2, <2>3
  <2> QED
    BY <1>1, <2>1, <2>4 DEF Files, Nodes
<1>5. [file EXCEPT !.active = branch] \in Files
  <2>1. [file EXCEPT !.active = branch] = [turns |-> file.turns, heads |-> file.heads, active |-> branch]
    BY <1>1
  <2> QED
    BY <1>1, <2>1 DEF Files, Nodes
<1> QED
  BY <1>1, <1>3, <1>4, <1>5, GraphStays DEF Graphs

\* A job the store accepts leaves a graph.
LEMMA ResultType ==
  ASSUME disk \in [Conversations -> Graphs \cup {None}], NEW job \in Jobs, Accepted(job)
  PROVE  job.conv \in Conversations /\ Result(job) \in Graphs
<1> DEFINE file == disk[job.conv]
<1>1. /\ job.conv \in Conversations /\ job.what \in {"turn", "fork", "switch", "remove"}
      /\ job.what = "turn" => job.id \in TurnIds /\ job.events \in Seq(Tokens) /\ job.delta \in Seq(Tokens)
      /\ job.what # "turn" => job.branch \in {Main} \cup Branches
  BY DEF Jobs
<1>2. CASE job.what = "turn"
  <2>1. Result(job) = IF file = None THEN Created(job) ELSE Appended(file, job)
    BY <1>2 DEF Result
  <2>2. file # None => file \in Graphs
    BY <1>1
  <2> QED
    BY <1>1, <1>2, <2>1, <2>2, CreatedType, AppendedType
<1>3. CASE job.what # "turn"
  <2>1. file # None /\ file \in Graphs
    BY <1>1, <1>3 DEF Accepted
  <2>2. \E from \in Named(file) : job.what = "fork" => from = job.from
    <3>1. CASE job.what = "fork"
      BY <2>1, <3>1 DEF Accepted, Ids, Stored, Named
    <3>2. CASE job.what # "fork"
      <4>1. file.heads[job.branch] # None /\ IsGraph(file)
        BY <1>1, <1>3, <2>1, <3>2 DEF Accepted, Graphs
      <4>2. file.heads[job.branch] \in Named(file)
        BY <1>1, <1>3, <4>1 DEF IsGraph
      <4> QED
        BY <3>2, <4>2
    <3> QED
      BY <3>1, <3>2
  <2>3. PICK from \in Named(file) : job.what = "fork" => from = job.from
    BY <2>2
  <2>4. PICK old, branch : old = file /\ branch = job.branch
    OBVIOUS
  <2>5. {Forked(old, branch, from), Removed(old, branch), [old EXCEPT !.active = branch]} \subseteq Graphs
    BY <1>1, <1>3, <2>1, <2>4, StaysType
  <2>6. Result(job) \in {Forked(old, branch, from), Removed(old, branch), [old EXCEPT !.active = branch]}
    BY <1>1, <1>3, <2>3, <2>4 DEF Result
  <2> QED
    BY <1>1, <2>5, <2>6
<1> QED
  BY <1>2, <1>3

-----------------------------------------------------------------------------
(* The steps keep the types. *)

\* The exchanges in hand are some that were asked.
LEMMA AskedOnes ==
  ASSUME RecordInv, PlacesInv
  PROVE  /\ asked \in Nat /\ 1..asked \subseteq 1..MaxExchanges
         /\ Left \subseteq 1..asked /\ Exchanges(pendingEvents) \subseteq 1..asked
<1>1. asked \in Nat /\ MaxExchanges \in Nat /\ asked <= MaxExchanges
  BY BoundsAssumption DEF RecordInv, PastOK
<1>2. (turn # None => turn.e \in 1..asked) /\ (saving # None => saving.e \in 1..asked)
  BY DEF PlacesInv, HandsInv, InHand
<1> QED
  BY <1>1, <1>2 DEF Left, PlacesInv, HandsInv, Waiting

\* What a move leaves behind.
LEMMA LeavingType ==
  ASSUME RecordInv, PlacesInv, Leaving
  PROVE  moved' \subseteq 1..asked /\ dropped' \subseteq 1..asked /\ pendingEvents' = <<>> /\ <<>> \in Seq(Tokens)
BY AskedOnes, EmptySeq DEF RecordInv, PastOK, Leaving

\* A session that is given other messages, and a turn that no longer holds them.
LEMMA GivenType ==
  ASSUME WorkOK, NEW messages \in Seq(Tokens), NEW contract \in SUBSET (1..MaxExchanges)
  PROVE  /\ session # None => Restored(messages, contract) \in Sessions /\ [session EXCEPT !.messages = <<>>] \in Sessions
         /\ Detached(turn) \in Turns \cup {None}
<1>1. ASSUME session # None PROVE Restored(messages, contract) \in Sessions /\ [session EXCEPT !.messages = <<>>] \in Sessions
  BY <1>1, EmptySeq DEF WorkOK, Sessions, Restored
<1>2. ASSUME turn # None PROVE [turn EXCEPT !.attached = FALSE] \in Turns
  BY <1>2 DEF WorkOK, Turns
<1> QED
  BY <1>1, <1>2 DEF Detached

\* The moves of the user.
LEMMA MovesType ==
  ASSUME RecordInv, PlacesInv, Moving
  PROVE  RecordInv'
<1>1. CanMove => moves + 1 \in 0..MaxMoves
  BY BoundsAssumption DEF RecordInv, PastOK, CanMove
<1>2. <<>> \in Seq(Tokens) /\ 0 \in Nat
  BY EmptySeq
<1>3. ASSUME Open PROVE RecordInv'
  <2>1. load' \in [conv : Conversations, file : Graphs \cup {None}]
    BY <1>3 DEF Open, RecordInv, StoreOK
  <2> QED
    BY <1>1, <1>3, <2>1 DEF Open, host, history, RecordInv, StoreOK, HostOK, WorkOK, PastOK
<1>4. ASSUME session' \in {session, None} \/ (session # None /\ session' = [session EXCEPT !.messages = <<>>]),
             turn' \in {turn, Detached(turn)}, UNCHANGED saving
      PROVE  (RecordInv => WorkOK')
  <2>1. {} \in SUBSET (1..MaxExchanges)
    OBVIOUS
  <2> QED
    BY <1>2, <1>4, <2>1, GivenType DEF RecordInv, WorkOK
<1>5. ASSUME Cleared, NewConversation \/ Rekey PROVE RecordInv'
  <2>1. HostOK'
    BY <1>2, <1>5, LeavingType DEF Cleared, HostOK
  <2>2. WorkOK'
    BY <1>4, <1>5 DEF NewConversation, Rekey
  <2>3. StoreOK'
    BY <1>5 DEF NewConversation, Rekey, RecordInv, StoreOK
  <2>4. PastOK'
    <3>1. moves' \in 0..MaxMoves /\ UNCHANGED <<asked, home, issued, skipped, rebuildFailed>>
      BY <1>1, <1>5 DEF NewConversation, Rekey
    <3>2. moved' \subseteq 1..asked /\ dropped' \subseteq 1..asked
      BY <1>5, LeavingType DEF Cleared
    <3> QED
      BY <3>1, <3>2 DEF RecordInv, PastOK
  <2> QED
    BY <2>1, <2>2, <2>3, <2>4 DEF RecordInv
<1>6. ASSUME DeleteConversation PROVE RecordInv'
  <2>1. PICK c \in Conversations :
           /\ disk' = [disk EXCEPT ![c] = None]
           /\ IF conversationId = c
              THEN /\ Cleared
                   /\ session' = IF session = None THEN None ELSE [session EXCEPT !.messages = <<>>]
                   /\ turn' = IF session = None THEN turn ELSE Detached(turn)
              ELSE UNCHANGED <<host, session, turn, moved, dropped>>
           /\ skipped' \in {skipped, skipped \cup {c}}
    BY <1>6 DEF DeleteConversation
  <2>2. UNCHANGED <<jobs, saving, load, asked, home, issued, rebuildFailed>> /\ moves' \in 0..MaxMoves
    BY <1>1, <1>6 DEF DeleteConversation
  <2>3. StoreOK'
    BY <2>1, <2>2 DEF RecordInv, StoreOK
  <2>4. HostOK'
    BY <1>2, <2>1, LeavingType DEF Cleared, RecordInv, HostOK, host
  <2>5. WorkOK'
    BY <1>4, <2>1, <2>2
  <2>6. moved' \subseteq 1..asked /\ dropped' \subseteq 1..asked
    BY <2>1, LeavingType DEF Cleared, RecordInv, PastOK
  <2>7. PastOK'
    BY <2>1, <2>2, <2>6 DEF RecordInv, PastOK
  <2> QED
    BY <2>3, <2>4, <2>5, <2>7 DEF RecordInv
<1>7. ASSUME ChangeBranch PROVE RecordInv'
  <2>1. /\ conversationId \in Conversations
        /\ disk[conversationId] \in Graphs /\ UNCHANGED <<disk, host, session, turn, saving, load, asked, history>>
        /\ moves' \in 0..MaxMoves
    BY <1>1, <1>7 DEF ChangeBranch, RecordInv, StoreOK, HostOK
  <2>2. \E job \in Jobs : jobs' = Append(jobs, job)
    <3>1. ASSUME NEW b \in Branches, NEW id \in Ids(disk[conversationId]),
                 jobs' = Append(jobs, [what |-> "fork", conv |-> conversationId, branch |-> b, from |-> id])
          PROVE  \E job \in Jobs : jobs' = Append(jobs, job)
      <4>1. PICK t \in Stored(disk[conversationId]) : t.id = id
        BY <3>1 DEF Ids
      <4>2. t \in Nodes
        <5>1. t \in Range(disk[conversationId].turns)
          BY <4>1 DEF Stored
        <5>2. disk[conversationId].turns \in Seq(Nodes)
          BY <2>1 DEF Graphs, Files, Nodes
        <5> QED
          BY <5>1, <5>2 DEF Range
      <4>3. [what |-> "fork", conv |-> conversationId, branch |-> b, from |-> id] \in Jobs
        BY <2>1, <4>1, <4>2 DEF Jobs, Nodes
      <4> QED
        BY <3>1, <4>3
    <3>2. ASSUME NEW b \in {Main} \cup Branches, NEW what \in {"switch", "remove"},
                 jobs' = Append(jobs, [what |-> what, conv |-> conversationId, branch |-> b])
          PROVE  \E job \in Jobs : jobs' = Append(jobs, job)
      <4>1. [what |-> what, conv |-> conversationId, branch |-> b] \in Jobs
        BY <2>1 DEF Jobs
      <4> QED
        BY <3>2, <4>1
    <3> QED
      BY <1>7, <3>1, <3>2 DEF ChangeBranch
  <2>3. jobs' \in Seq(Jobs)
    BY <2>2, AppendProperties DEF RecordInv, StoreOK
  <2> QED
    BY <2>1, <2>3 DEF host, history, RecordInv, StoreOK, HostOK, WorkOK, PastOK
<1> QED
  BY <1>3, <1>5, <1>6, <1>7 DEF Moving, NewConversation, Rekey

\* The conversation a question or a save opens is one.
LEMMA OpenedType ==
  ASSUME HostOK, conversationId # None \/ Unused # {}
  PROVE  Opened \in Conversations
<1>1. conversationId = None => Fresh \in Unused
  BY DEF Fresh
<1> QED
  BY <1>1 DEF Opened, HostOK, Unused

\* What is claimed for a question.
LEMMA ClaimType ==
  ASSUME RecordInv, Claim
  PROVE  /\ asked + 1 \in 1..MaxExchanges /\ <<Opened, turnOrdinal>> \in TurnIds
         /\ conversationId' \in Conversations /\ turnOrdinal' \in Nat
         /\ UNCHANGED <<moves, moved, dropped, skipped, rebuildFailed>> => PastOK'
<1>1. asked \in 0..MaxExchanges /\ MaxExchanges \in Nat /\ asked < MaxExchanges
  BY BoundsAssumption DEF RecordInv, PastOK, Claim
<1>2. Opened \in Conversations
  BY OpenedType DEF RecordInv, Claim
<1>3. <<Opened, turnOrdinal>> \in TurnIds
  BY <1>2 DEF RecordInv, HostOK, TurnIds
<1>4. home' \in [1..asked' -> Conversations]
  <2>1. home \in Seq(Conversations) /\ Len(home) = asked
    BY <1>1, SeqDef, LenProperties DEF RecordInv, PastOK
  <2>2. home' \in Seq(Conversations) /\ Len(home') = asked + 1
    BY <1>2, <2>1, AppendProperties DEF Claim
  <2>3. home' \in [1..Len(home') -> Conversations]
    BY <2>2, LenProperties, ElementOfSeq
  <2> QED
    BY <2>2, <2>3 DEF Claim
<1>5. 1..asked \subseteq 1..asked' /\ asked' \in 0..MaxExchanges
  BY <1>1 DEF Claim
<1>6. issued' \subseteq TurnIds
  BY <1>3 DEF Claim, RecordInv, PastOK
<1>7. UNCHANGED <<moves, moved, dropped, skipped, rebuildFailed>> => PastOK'
  BY <1>4, <1>5, <1>6 DEF RecordInv, PastOK
<1>8. conversationId' \in Conversations /\ turnOrdinal' \in Nat
  BY <1>2 DEF Claim, RecordInv, HostOK
<1>9. asked + 1 \in 1..MaxExchanges
  BY <1>1
<1> QED
  BY <1>3, <1>7, <1>8, <1>9

\* A question.
LEMMA AskType ==
  ASSUME RecordInv, Send \/ AnswerFromRecord
  PROVE  RecordInv'
<1>1. /\ asked + 1 \in 1..MaxExchanges /\ <<Opened, turnOrdinal>> \in TurnIds
      /\ conversationId' \in Conversations /\ turnOrdinal' \in Nat /\ PastOK'
  BY ClaimType DEF Send, AnswerFromRecord
<1> DEFINE ask == <<asked + 1, "ask">>
           status == <<asked + 1, "status">>
<1>2. ask \in Tokens /\ status \in Tokens
  BY <1>1 DEF Tokens
<1>3. <<ask>> \in Seq(Tokens) /\ <<ask, status>> \in Seq(Tokens)
  <2> HIDE DEF ask, status
  <2>1. \A x, y \in Tokens : <<x>> \in Seq(Tokens) /\ <<x, y>> \in Seq(Tokens)
    OBVIOUS
  <2> QED
    BY <1>2, <2>1
<1>4. StoreOK'
  BY DEF Send, AnswerFromRecord, RecordInv, StoreOK
<1>5. CASE Send
  <2>1. recorded' \in Seq(Tokens)
    <3> HIDE DEF ask
    <3>1. recorded' = Append(recorded, ask)
      BY <1>5 DEF Send, ask
    <3> QED
      BY <1>2, <3>1, AppendProperties DEF RecordInv, HostOK
  <2>2. HostOK'
    BY <1>1, <1>5, <2>1 DEF Send, RecordInv, HostOK
  <2>3. turn' \in Turns
    <3>1. turn' = [e |-> asked + 1, id |-> <<Opened, turnOrdinal>>, events |-> <<ask>>,
                   stage |-> "routing", contract |-> FALSE, start |-> 0, attached |-> TRUE, carried |-> <<>>]
      BY <1>5 DEF Send
    <3> HIDE DEF ask
    <3> QED
      BY <1>1, <1>3, <3>1, EmptySeq DEF Turns
  <2>4. WorkOK'
    BY <1>5, <2>3 DEF Send, RecordInv, WorkOK
  <2> QED
    BY <1>1, <1>4, <2>2, <2>4 DEF RecordInv
<1>6. CASE AnswerFromRecord
  <2>1. recorded' = recorded \o <<ask, status>>
        /\ saving' = [e |-> asked + 1, id |-> <<Opened, turnOrdinal>>, events |-> <<ask, status>>]
    BY <1>6 DEF AnswerFromRecord
  <2> HIDE DEF ask, status
  <2>2. recorded' \in Seq(Tokens)
    BY <1>3, <2>1, ConcatProperties DEF RecordInv, HostOK
  <2>3. HostOK'
    BY <1>1, <1>6, <2>2 DEF AnswerFromRecord, RecordInv, HostOK
  <2>4. saving' \in Saves
    BY <1>1, <1>3, <2>1 DEF Saves
  <2>5. WorkOK'
    BY <1>6, <2>4 DEF AnswerFromRecord, RecordInv, WorkOK
  <2> QED
    BY <1>1, <1>4, <2>3, <2>5 DEF RecordInv
<1> QED
  BY <1>5, <1>6

\* What ends a turn.
LEMMA EndedType ==
  ASSUME WorkOK, NEW events \in Seq(Tokens), turn # None, Ended(events)
  PROVE  saving' \in Saves /\ turn' = None
BY DEF WorkOK, Turns, Saves, Ended

\* The session that was waited for, and what it holds before the question.
LEMMA HeldType ==
  ASSUME HostOK, WorkOK, turn # None, NEW s \in Sessions
  PROVE  Contracted(Holding(s)) \in Sessions
<1>1. ContractOf(recorded) \in SUBSET (1..MaxExchanges)
  BY Told DEF HostOK
<1>2. Holding(s) \in Sessions
  <2>1. CASE pendingRestore = None
    BY <2>1 DEF Holding
  <2>2. CASE pendingRestore # None
    <3>1. pendingRestore \in Seq(Tokens)
      BY <2>2 DEF HostOK
    <3>2. Holding(s) = [s EXCEPT !.messages = pendingRestore, !.contract = ContractOf(recorded)]
      BY <2>2 DEF Holding
    <3> QED
      BY <1>1, <3>1, <3>2 DEF Sessions
  <2> QED
    BY <2>1, <2>2
<1>3. ASSUME NEW h \in Sessions PROVE Contracted(h) \in Sessions
  <2>1. CASE turn.contract
    <3>1. Contracted(h) = [h EXCEPT !.contract = ContractOf(recorded)]
      BY <2>1 DEF Contracted
    <3> QED
      BY <1>1, <3>1 DEF Sessions
  <2>2. CASE ~turn.contract
    BY <2>2 DEF Contracted
  <2> QED
    BY <2>1, <2>2
<1> QED
  BY <1>2, <1>3

\* A session that is there gets the question, or the turn has run out of time.
LEMMA ReadyType ==
  ASSUME RecordInv, turn # None, NEW s \in Sessions, Ready(Holding(s))
  PROVE  RecordInv'
<1> DEFINE ready == Contracted(Holding(s))
           ask == <<turn.e, "ask">>
<1>1. turn \in Turns /\ turn.e \in 1..MaxExchanges /\ turn.events \in Seq(Tokens)
  BY DEF RecordInv, WorkOK, Turns
<1>2. ready \in Sessions /\ ask \in Tokens
  BY <1>1, HeldType DEF RecordInv, Tokens
<1>3. \/ /\ session' = [ready EXCEPT !.messages = Append(@, ask)]
         /\ turn' = [turn EXCEPT !.stage = "talking", !.start = Len(ready.messages), !.attached = TRUE, !.carried = <<>>]
         /\ UNCHANGED saving
      \/ session' = ready /\ Ended(turn.events)
  BY DEF Ready, StartOf
<1> HIDE DEF ready, ask
<1>4. WorkOK'
  <2>1. CASE /\ session' = [ready EXCEPT !.messages = Append(@, ask)]
             /\ turn' = [turn EXCEPT !.stage = "talking", !.start = Len(ready.messages), !.attached = TRUE, !.carried = <<>>]
             /\ UNCHANGED saving
    <3>1. ready.messages \in Seq(Tokens)
      BY <1>2 DEF Sessions
    <3>2. Append(ready.messages, ask) \in Seq(Tokens) /\ Len(ready.messages) \in Nat /\ <<>> \in Seq(Tokens)
      BY <1>2, <3>1, AppendProperties, LenProperties, EmptySeq
    <3>3. session' \in Sessions
      BY <1>2, <2>1, <3>2 DEF Sessions
    <3>4. turn' \in Turns
      BY <1>1, <2>1, <3>2 DEF Turns
    <3> QED
      BY <2>1, <3>3, <3>4 DEF RecordInv, WorkOK
  <2>2. CASE session' = ready /\ Ended(turn.events)
    BY <1>1, <1>2, <2>2, EndedType DEF RecordInv, WorkOK
  <2> QED
    BY <1>3, <2>1, <2>2
<1>5. StoreOK' /\ HostOK' /\ PastOK'
  BY DEF Ready, history, RecordInv, StoreOK, HostOK, PastOK
<1> QED
  BY <1>4, <1>5 DEF RecordInv

\* What a turn is told along the way.
LEMMA SaidType ==
  ASSUME WorkOK, turn # None, NEW kind \in {"ask", "contract", "answer", "status"}
  PROVE  <<>> \in Seq(Tokens) /\ <<<<turn.e, kind>>>> \in Seq(Tokens)
BY EmptySeq, ExchangesOfOne DEF WorkOK, Turns

\* The stages of a turn before it talks.
LEMMA StagesType ==
  ASSUME RecordInv, Route \/ Reuse \/ Refuse \/ Rebuild \/ OpenDone \/ OpenFails
  PROVE  RecordInv'
<1>1. turn # None /\ turn \in Turns
  BY DEF Route, Reuse, Refuse, Rebuild, OpenDone, OpenFails, RecordInv, WorkOK
<1>2. turn.events \in Seq(Tokens) /\ turn.carried \in Seq(Tokens)
  BY <1>1 DEF Turns
<1>3. CASE Route
  <2>1. PICK said \in Seq(Tokens) :
           /\ recorded' = recorded \o said
           /\ turn' = [turn EXCEPT !.stage = "resolving", !.events = @ \o said, !.contract = said # <<>>]
    <3>1. PICK who \in Recorders :
             LET said == IF who = "router" THEN <<<<turn.e, "contract">>>> ELSE <<>> IN
             /\ recorded' = recorded \o said
             /\ turn' = [turn EXCEPT !.stage = "resolving", !.events = @ \o said, !.contract = said # <<>>]
      BY <1>3 DEF Route
    <3> DEFINE said == IF who = "router" THEN <<<<turn.e, "contract">>>> ELSE <<>>
    <3>2. said \in Seq(Tokens)
      BY <1>1, SaidType DEF RecordInv
    <3>3. /\ recorded' = recorded \o said
          /\ turn' = [turn EXCEPT !.stage = "resolving", !.events = @ \o said, !.contract = said # <<>>]
      BY <3>1
    <3> HIDE DEF said
    <3> QED
      BY <3>2, <3>3
  <2>2. recorded' \in Seq(Tokens) /\ turn.events \o said \in Seq(Tokens)
    BY <1>2, <2>1, ConcatProperties DEF RecordInv, HostOK
  <2>3. turn' \in Turns
    <3>1. PICK events \in Seq(Tokens), contract \in BOOLEAN : events = turn.events \o said /\ contract = (said # <<>>)
      BY <2>2
    <3>2. turn' = [turn EXCEPT !.stage = "resolving", !.events = events, !.contract = contract]
      BY <2>1, <3>1
    <3> QED
      BY <1>1, <3>2 DEF Turns
  <2>4. HostOK' /\ WorkOK'
    BY <1>3, <2>2, <2>3 DEF Route, RecordInv, HostOK, WorkOK
  <2>5. StoreOK' /\ PastOK'
    BY <1>3 DEF Route, history, RecordInv, StoreOK, PastOK
  <2> QED
    BY <2>4, <2>5 DEF RecordInv
<1>4. CASE Reuse
  <2>1. session \in Sessions /\ Ready(Holding(session))
    BY <1>4 DEF Reuse, RecordInv, WorkOK
  <2> QED
    BY <1>1, <2>1, ReadyType
<1>5. CASE OpenDone
  <2> DEFINE s == [messages |-> turn.carried, lastDelta |-> <<>>, contract |-> {}]
  <2>1. s \in Sessions
    BY <1>2, EmptySeq DEF Sessions
  <2>2. Ready(Holding(s))
    BY <1>5 DEF OpenDone
  <2> HIDE DEF s
  <2> QED
    BY <1>1, <2>1, <2>2, ReadyType
<1>6. CASE Refuse \/ OpenFails
  <2>1. Ended(turn.events) /\ UNCHANGED <<disk, jobs, host, session, load, asked, moves, home, issued, moved, dropped, skipped>>
    BY <1>6 DEF Refuse, OpenFails, history
  <2>2. WorkOK'
    BY <1>1, <1>2, <2>1, EndedType DEF RecordInv, WorkOK
  <2>3. rebuildFailed' \in BOOLEAN
    BY <1>6 DEF Refuse, OpenFails, history, RecordInv, PastOK
  <2> QED
    BY <2>1, <2>2, <2>3 DEF host, RecordInv, StoreOK, HostOK, PastOK
<1>7. CASE Rebuild
  <2>1. Carried \in Seq(Tokens)
    BY EmptySeq DEF Carried, RecordInv, WorkOK, Sessions
  <2>2. turn' \in Turns
    BY <1>1, <1>7, <2>1 DEF Rebuild, Turns
  <2> QED
    BY <1>7, <2>2 DEF Rebuild, host, history, RecordInv, StoreOK, HostOK, WorkOK, PastOK
<1> QED
  BY <1>3, <1>4, <1>5, <1>6, <1>7

\* A piece of a sequence of tokens.
LEMMA PieceType ==
  ASSUME NEW s \in Seq(Tokens), NEW cut \in Nat
  PROVE  SubSeq(s, cut + 1, Len(s)) \in Seq(Tokens)
<1>1. Len(s) \in Nat /\ \A k \in (cut + 1)..Len(s) : s[k] \in Tokens
  BY LenProperties, ElementOfSeq
<1>2. cut + 1 \in Int /\ Len(s) \in Int
  BY <1>1
<1> QED
  BY <1>1, <1>2, SubSeqProperties

\* The end of the loop, and the cut.
LEMMA TalkType ==
  ASSUME RecordInv, Talk
  PROVE  RecordInv'
<1>1. /\ turn # None /\ turn \in Turns /\ turn.start \in Nat /\ turn.e \in 1..MaxExchanges
      /\ turn.events \in Seq(Tokens)
  BY DEF Talk, RecordInv, WorkOK, Turns
<1>2. PICK noted \in {<<>>, <<<<turn.e, "contract">>>>} :
        \E said \in {<<>>, <<<<turn.e, "answer">>>>} :
           /\ recorded' = recorded \o noted \o said
           /\ Ended(turn.events \o noted \o said)
           /\ IF session = None THEN UNCHANGED session
              ELSE LET messages == IF turn.attached THEN session.messages \o said ELSE session.messages
                       cut == IF turn.attached THEN turn.start ELSE turn.start + 1
                   IN  session' = [messages |-> messages,
                                   lastDelta |-> SubSeq(messages, cut + 1, Len(messages)),
                                   contract |-> session.contract \cup Exchanges(noted)]
  BY DEF Talk
<1>3. PICK said \in {<<>>, <<<<turn.e, "answer">>>>} :
           /\ recorded' = recorded \o noted \o said
           /\ Ended(turn.events \o noted \o said)
           /\ IF session = None THEN UNCHANGED session
              ELSE LET messages == IF turn.attached THEN session.messages \o said ELSE session.messages
                       cut == IF turn.attached THEN turn.start ELSE turn.start + 1
                   IN  session' = [messages |-> messages,
                                   lastDelta |-> SubSeq(messages, cut + 1, Len(messages)),
                                   contract |-> session.contract \cup Exchanges(noted)]
  BY <1>2
<1>4. noted \in Seq(Tokens) /\ said \in Seq(Tokens)
  BY <1>1, SaidType DEF RecordInv
<1>5. \A x \in Seq(Tokens) : x \o noted \o said \in Seq(Tokens) /\ x \o said \in Seq(Tokens)
  <2>1. \A x, y \in Seq(Tokens) : x \o y \in Seq(Tokens)
    BY ConcatProperties
  <2> QED
    BY <1>4, <2>1
<1>6. recorded' \in Seq(Tokens) /\ turn.events \o noted \o said \in Seq(Tokens)
  BY <1>1, <1>3, <1>5 DEF RecordInv, HostOK
<1>7. saving' \in Saves /\ turn' = None
  BY <1>1, <1>3, <1>6, EndedType DEF RecordInv
<1>8. session' \in Sessions \cup {None}
  <2>1. CASE session = None
    BY <1>3, <2>1
  <2>2. CASE session # None
    <3> DEFINE messages == IF turn.attached THEN session.messages \o said ELSE session.messages
               cut == IF turn.attached THEN turn.start ELSE turn.start + 1
               delta == SubSeq(messages, cut + 1, Len(messages))
               contract == session.contract \cup Exchanges(noted)
    <3>1. session' = [messages |-> messages, lastDelta |-> delta, contract |-> contract]
      BY <1>3, <2>2
    <3>2. messages \in Seq(Tokens) /\ cut \in Nat
      BY <1>1, <1>5, <2>2 DEF RecordInv, WorkOK, Sessions
    <3>3. contract \subseteq 1..MaxExchanges
      BY <1>4, <2>2, Told DEF RecordInv, WorkOK, Sessions
    <3> HIDE DEF messages, cut
    <3>4. delta \in Seq(Tokens)
      BY <3>2, PieceType
    <3> HIDE DEF delta, contract
    <3> QED
      BY <3>1, <3>2, <3>3, <3>4 DEF Sessions
  <2> QED
    BY <2>1, <2>2
<1>9. HostOK' /\ WorkOK'
  BY <1>6, <1>7, <1>8 DEF Talk, RecordInv, HostOK, WorkOK
<1>10. StoreOK' /\ PastOK'
  BY DEF Talk, history, RecordInv, StoreOK, PastOK
<1> QED
  BY <1>9, <1>10 DEF RecordInv

\* A turn that is queued, or held back.
LEMMA PersistType ==
  ASSUME RecordInv, Persist
  PROVE  RecordInv'
<1> DEFINE events == pendingEvents \o saving.events
           job == [what |-> "turn", conv |-> Opened, id |-> saving.id, events |-> events, delta |-> session.lastDelta]
<1>1. saving \in Saves /\ Opened \in Conversations
  BY OpenedType DEF Persist, RecordInv, WorkOK
<1>2. events \in Seq(Tokens) /\ saving.id \in TurnIds
  BY <1>1, ConcatProperties DEF Saves, RecordInv, HostOK
<1>3. pendingEvents' \in Seq(Tokens)
  BY <1>2, EmptySeq DEF Persist, HeldBack, RecordInv, HostOK
<1>4. ASSUME session # None
      PROVE  conversationId' \in Conversations /\ jobs' \in Seq(Jobs) /\ session' \in Sessions
  <2>1. session \in Sessions /\ session.lastDelta \in Seq(Tokens)
    BY <1>4 DEF RecordInv, WorkOK, Sessions
  <2>2. conversationId' = Opened /\ jobs' = Append(jobs, job) /\ session' = [session EXCEPT !.lastDelta = <<>>]
    BY <1>4 DEF Persist
  <2> HIDE DEF events
  <2>3. job \in Jobs
    BY <1>1, <1>2, <2>1 DEF Jobs
  <2> HIDE DEF job
  <2>4. jobs' \in Seq(Jobs)
    BY <2>2, <2>3, AppendProperties DEF RecordInv, StoreOK
  <2> QED
    BY <1>1, <2>1, <2>2, <2>4, EmptySeq DEF Sessions
<1>5. ASSUME session = None PROVE UNCHANGED <<jobs, session, conversationId>>
  BY <1>5 DEF Persist
<1>6. StoreOK'
  BY <1>4, <1>5 DEF Persist, RecordInv, StoreOK
<1>7. HostOK' /\ WorkOK'
  BY <1>3, <1>4, <1>5 DEF Persist, RecordInv, HostOK, WorkOK
<1>8. PastOK'
  BY DEF Persist, history, RecordInv, PastOK
<1> QED
  BY <1>6, <1>7, <1>8 DEF RecordInv

\* A job is one of those that wait.
LEMMA JobType ==
  ASSUME StoreOK, NEW i \in DOMAIN jobs
  PROVE  jobs[i] \in Jobs /\ RemoveAt(jobs, i) \in Seq(Jobs)
<1>1. Len(jobs) \in Nat /\ DOMAIN jobs = 1..Len(jobs) /\ \A k \in DOMAIN jobs : jobs[k] \in Jobs
  BY LenProperties, ElementOfSeq DEF StoreOK
<1>2. IsList(jobs)
  BY SeqOfRange DEF StoreOK, IsList
<1>3. /\ DOMAIN RemoveAt(jobs, i) = 1..(Len(jobs) - 1) /\ IsList(RemoveAt(jobs, i))
      /\ \A k \in DOMAIN RemoveAt(jobs, i) : RemoveAt(jobs, i)[k] = (IF k < i THEN jobs[k] ELSE jobs[k + 1])
  BY <1>2, RemoveList
<1> DEFINE r == RemoveAt(jobs, i)
<1> HIDE DEF r
<1>4. \A k \in DOMAIN r : r[k] \in Jobs
  BY <1>1, <1>3 DEF r
<1>5. r \in Seq(Range(r)) /\ Range(r) \subseteq Jobs
  BY <1>3, <1>4 DEF r, IsList, Range
<1>6. r \in Seq(Jobs)
  BY <1>5, SeqMonotonic
<1> QED
  BY <1>1, <1>6 DEF r

\* A write.
LEMMA WriteType ==
  ASSUME RecordInv, PlacesInv, Write
  PROVE  RecordInv'
<1>1. PICK i \in DOMAIN jobs :
        /\ \/ /\ Accepted(jobs[i])
              /\ disk' = [disk EXCEPT ![jobs[i].conv] = Result(jobs[i])]
              /\ load' = IF jobs[i].what # "turn" /\ conversationId # None
                         THEN [conv |-> conversationId, file |-> None] ELSE load
              /\ UNCHANGED dropped
           \/ /\ dropped' = IF jobs[i].what = "turn" THEN dropped \cup Exchanges(jobs[i].events) ELSE dropped
              /\ UNCHANGED <<disk, load>>
        /\ jobs' = RemoveAt(jobs, i)
  BY DEF Write, NextJobs
<1>2. jobs[i] \in Jobs /\ jobs' \in Seq(Jobs)
  BY <1>1, JobType DEF RecordInv
<1>3. disk' \in [Conversations -> Graphs \cup {None}]
  <2>1. ASSUME Accepted(jobs[i]) PROVE jobs[i].conv \in Conversations /\ Result(jobs[i]) \in Graphs
    BY <1>2, <2>1, ResultType DEF RecordInv, StoreOK
  <2> QED
    BY <1>1, <2>1 DEF RecordInv, StoreOK
<1>4. load' \in [conv : Conversations, file : Graphs \cup {None}] \cup {None}
  BY <1>1 DEF RecordInv, StoreOK, HostOK
<1>5. dropped' \subseteq 1..asked
  BY <1>1 DEF RecordInv, PastOK, PlacesInv, QueueInv, Queued
<1>6. StoreOK'
  BY <1>2, <1>3, <1>4 DEF StoreOK
<1>7. PastOK' /\ HostOK' /\ WorkOK'
  BY <1>5 DEF Write, host, RecordInv, PastOK, HostOK, WorkOK
<1> QED
  BY <1>6, <1>7 DEF RecordInv

\* A conversation that is read, and adopted.
LEMMA LoadType ==
  ASSUME RecordInv, PlacesInv, Read \/ Adopt
  PROVE  RecordInv'
<1>1. /\ load # None /\ load.conv \in Conversations
      /\ load \in [conv : Conversations, file : Graphs \cup {None}]
  BY DEF Read, Adopt, RecordInv, StoreOK
<1>2. CASE Read
  <2>1. load' \in [conv : Conversations, file : Graphs \cup {None}] \cup {None}
    BY <1>1, <1>2 DEF Read, RecordInv, StoreOK
  <2> QED
    BY <1>2, <2>1 DEF Read, host, history, RecordInv, StoreOK, HostOK, WorkOK, PastOK
<1>3. CASE Adopt
  <2>1. load.file # None /\ load.file \in Graphs
    BY <1>1, <1>3 DEF Adopt
  <2>2. EventsAt(load.file) \in Seq(Tokens) /\ MessagesAt(load.file) \in Seq(Tokens)
    BY <2>1, HalvesOfFile DEF Graphs
  <2>3. NextOrdinal(load.file) \in Nat
    BY <2>1, LenProperties DEF NextOrdinal, Graphs, Files
  <2>4. ContractOf(recorded) \in SUBSET (1..MaxExchanges)
    BY Told DEF RecordInv, HostOK
  <2>5. WorkOK'
    BY <1>3, <2>2, <2>4, GivenType DEF Adopt, RecordInv, WorkOK
  <2>6. HostOK'
    BY <1>1, <1>3, <2>2, <2>3, LeavingType DEF Adopt, HostOK
  <2>7. StoreOK'
    BY <1>3 DEF Adopt, RecordInv, StoreOK
  <2>8. skipped' \subseteq Conversations
    BY <1>1, <1>3 DEF Adopt, RecordInv, PastOK
  <2>9. PastOK'
    BY <1>3, <2>8, LeavingType DEF Adopt, RecordInv, PastOK
  <2> QED
    BY <2>5, <2>6, <2>7, <2>9 DEF RecordInv
<1> QED
  BY <1>2, <1>3

\* The types are inductive, given which exchanges are in hand.
LEMMA RecordStep ==
  ASSUME RecordInv, PlacesInv, [Next]_vars
  PROVE  RecordInv'
<1>1. ASSUME UNCHANGED vars PROVE RecordInv'
  BY <1>1 DEF vars, host, history, RecordInv, StoreOK, HostOK, WorkOK, PastOK
<1> QED
  BY <1>1, MovesType, AskType, StagesType, TalkType, PersistType, WriteType, LoadType DEF Next, Working

\* The types hold at first.
LEMMA RecordInit == Init => RecordInv
<1> SUFFICES ASSUME Init PROVE RecordInv
  OBVIOUS
<1>1. <<>> \in Seq(Tokens) /\ <<>> \in Seq(Jobs) /\ <<>> \in [1..0 -> Conversations]
  <2>1. \A S : <<>> \in Seq(S)
    BY EmptySeq
  <2>2. \A S : \A s \in Seq(S) : s \in [1..Len(s) -> S]
    BY LenProperties, ElementOfSeq
  <2>3. Len(<<>>) = 0
    BY EmptySeq
  <2> QED
    BY <2>1, <2>2, <2>3
<1>2. StoreOK
  BY <1>1 DEF Init, StoreOK
<1>3. HostOK /\ WorkOK
  BY <1>1 DEF Init, HostOK, WorkOK
<1>4. PastOK
  <2>1. asked = 0 /\ home = <<>> /\ moves = 0 /\ MaxMoves \in Nat /\ MaxExchanges \in Nat
    BY BoundsAssumption DEF Init
  <2>2. home \in [1..asked -> Conversations]
    <3> HIDE DEF Init
    <3> QED
      BY <1>1, <2>1, Zenon
  <2>3. issued = {} /\ skipped = {} /\ moved = {} /\ dropped = {}
    BY DEF Init
  <2>4. rebuildFailed \in BOOLEAN
    BY DEF Init
  <2> QED
    BY <2>1, <2>2, <2>3, <2>4 DEF PastOK
<1> QED
  BY <1>2, <1>3, <1>4 DEF RecordInv

\* The host, the store and the session hold what they should: in particular what the store is
\* given and what it is read from are graphs of turns, so that reading a branch ends.
THEOREM ConversationTypeCorrect == Spec => []TypeOK
<1>1. Init => PlacesInv /\ ApartInv /\ RecordInv
  BY PlacesInit, RecordInit
<1>2. PlacesInv /\ ApartInv /\ RecordInv /\ [Next]_vars => PlacesInv' /\ ApartInv' /\ RecordInv'
  BY PlacesStep, RecordStep
<1>3. RecordInv => TypeOK
  BY RecordIsTyped
<1> QED
  BY <1>1, <1>2, <1>3, PTL DEF Spec

-----------------------------------------------------------------------------
(* The answers of a turn, from where they are given to where they are kept. *)

\* The two halves of every turn that is stored, read or queued.
StoredHalves ==
    /\ \A c \in Conversations : disk[c] # None => FileMatched(disk[c], moved)
    /\ load # None /\ load.file # None => FileMatched(load.file, moved)
    /\ \A i \in DOMAIN jobs : jobs[i].what = "turn" => Matched(jobs[i].events, jobs[i].delta, moved)

\* Where the model's half is: what is cut is taken at the next save.
SessionInv == session # None => pendingRestore = None /\ (saving = None => session.lastDelta = <<>>)

(* Until it ends a turn has not answered; and while it talks, unless the   *)
(* user has left it, the session's messages end with its question.         *)
TurnInv ==
    turn # None =>
        /\ turn.e \in Exchanges(turn.events) /\ Quiet(turn.events)
        /\ turn.stage \in {"opening", "talking"} => saving = None
        /\ turn.stage = "opening" => session = None
        /\ turn.stage = "talking" /\ turn.e \notin moved =>
               /\ session # None /\ turn.attached
               /\ Len(session.messages) = turn.start + 1 /\ session.messages[turn.start + 1] = <<turn.e, "ask">>

\* What waits to be saved answers what was cut for it; what is held back has answered nothing.
SavingInv ==
    saving # None =>
        /\ saving.e \in Exchanges(saving.events)
        /\ saving.e \notin moved => IF session = None THEN Quiet(saving.events)
                                    ELSE Agree(saving.events, session.lastDelta)
PendingInv == Quiet(pendingEvents) \/ Exchanges(pendingEvents) \cap moved # {}

\* What the model will read: of a session, of one to come, of one that is being replaced.
Remembered ==
    IF session # None THEN session.messages
    ELSE IF pendingRestore # None THEN pendingRestore
    ELSE IF turn # None /\ turn.stage = "opening" THEN turn.carried ELSE <<>>
ReadInv == moved = {} /\ ~rebuildFailed => Agree(Remembered, recorded)

HalvesInv == StoredHalves /\ SessionInv /\ TurnInv /\ SavingInv /\ PendingInv /\ ReadInv

-----------------------------------------------------------------------------
(* Answers. *)

\* Nothing has no tokens of any kind.
LEMMA KindOfNothing == Kind(<<>>, "answer") = <<>>
<1>1. PICK kept : Keeps(kept, <<>>, "answer")
  BY KindKeeps, EmptySeq
<1> QED
  BY <1>1, EmptySeq DEF Keeps

\* What is said without answering changes no answers.
LEMMA AnswersOfBoth ==
  ASSUME NEW s \in Seq(Tokens), NEW t \in Seq(Tokens)
  PROVE  /\ s \o t \in Seq(Tokens)
         /\ Quiet(t) => Agree(s \o t, s)
         /\ Quiet(s) => Agree(s \o t, t)
         /\ Quiet(s) /\ Quiet(t) => Quiet(s \o t)
         /\ \A u \in Seq(Tokens) : Agree(s, u) => Agree(s \o t, u \o t)
<1>1. /\ \A x, y \in Seq(Tokens) : Kind(x \o y, "answer") = Kind(x, "answer") \o Kind(y, "answer")
      /\ \A x \in Seq(Tokens) : Kind(x, "answer") \in Seq(Tokens)
      /\ s \o t \in Seq(Tokens)
  BY KindOfBoth
<1>2. \A x \in Seq(Tokens) : x \o <<>> = x /\ <<>> \o x = x
  BY ConcatEmptySeq
<1>3. Kind(s \o t, "answer") = Kind(s, "answer") \o Kind(t, "answer")
  BY <1>1, Zenon
<1>4. Quiet(t) => Agree(s \o t, s)
  BY <1>1, <1>2, <1>3, Zenon DEF Quiet, Agree
<1>5. Quiet(s) => Agree(s \o t, t)
  BY <1>1, <1>2, <1>3, Zenon DEF Quiet, Agree
<1>6. Quiet(s) /\ Quiet(t) => Quiet(s \o t)
  BY <1>5, Zenon DEF Quiet, Agree
<1>7. ASSUME NEW u \in Seq(Tokens), Agree(s, u) PROVE Agree(s \o t, u \o t)
  <2>1. Kind(u \o t, "answer") = Kind(u, "answer") \o Kind(t, "answer")
    BY <1>1, Zenon
  <2> QED
    BY <1>3, <1>7, <2>1, Zenon DEF Agree
<1> QED
  BY <1>1, <1>4, <1>5, <1>6, <1>7

\* A token that is no answer, at the end or alone.
LEMMA SaysNothing ==
  ASSUME NEW token \in Tokens, token[2] # "answer", NEW s \in Seq(Tokens)
  PROVE  /\ Quiet(<<>>) /\ Quiet(<<token>>) /\ <<token>> \in Seq(Tokens)
         /\ Append(s, token) \in Seq(Tokens) /\ Agree(Append(s, token), s)
<1>1. Quiet(<<>>) /\ Quiet(<<token>>) /\ <<token>> \in Seq(Tokens)
  BY KindOfFew DEF Quiet
<1>2. Append(s, token) = s \o <<token>>
  BY AppendIsConcat
<1>3. s \o <<token>> \in Seq(Tokens) /\ Agree(s \o <<token>>, s)
  BY <1>1, AnswersOfBoth
<1> QED
  BY <1>1, <1>2, <1>3

\* The tokens of an exchange.
LEMMA OwnTokens ==
  ASSUME NEW e \in 1..MaxExchanges
  PROVE  /\ \A kind \in {"ask", "contract", "answer", "status"} :
                <<e, kind>> \in Tokens /\ <<<<e, kind>>>> \in Seq(Tokens) /\ Exchanges(<<<<e, kind>>>>) = {e}
         /\ \A kind \in {"ask", "contract", "status"} : Quiet(<<<<e, kind>>>>)
         /\ Quiet(<<>>) /\ <<>> \in Seq(Tokens)
<1>1. ASSUME NEW kind \in {"ask", "contract", "answer", "status"}
      PROVE  <<e, kind>> \in Tokens /\ <<<<e, kind>>>> \in Seq(Tokens) /\ Exchanges(<<<<e, kind>>>>) = {e}
  <2>1. <<e, kind>> \in Tokens
    BY DEF Tokens
  <2> QED
    BY <2>1, ExchangesOfOne
<1>2. ASSUME NEW kind \in {"ask", "contract", "status"} PROVE Quiet(<<<<e, kind>>>>)
  <2> DEFINE token == <<e, kind>>
  <2>1. token \in Tokens /\ token[2] # "answer"
    BY <1>1
  <2> HIDE DEF token
  <2>2. Quiet(<<token>>)
    BY <2>1, KindOfFew DEF Quiet
  <2> QED
    BY <2>2 DEF token
<1>3. Quiet(<<>>) /\ <<>> \in Seq(Tokens)
  <2>1. <<e, "ask">> \in Tokens
    BY <1>1
  <2> QED
    BY <2>1, KindOfFew, EmptySeq DEF Quiet
<1> QED
  BY <1>1, <1>2, <1>3

-----------------------------------------------------------------------------
(* What is stored. *)

\* Whoever walks away leaves what is matched matched.
LEMMA StillMatched ==
  ASSUME NEW left, NEW more, left \subseteq more
  PROVE  /\ \A events, delta : Matched(events, delta, left) => Matched(events, delta, more)
         /\ \A file : FileMatched(file, left) => FileMatched(file, more)
<1>1. ASSUME NEW events, NEW delta, Matched(events, delta, left) PROVE Matched(events, delta, more)
  BY <1>1 DEF Matched
<1>2. ASSUME NEW file, FileMatched(file, left) PROVE FileMatched(file, more)
  BY <1>1, <1>2 DEF FileMatched
<1> QED
  BY <1>1, <1>2

\* Files that are kept, read and removed; jobs that come, if not of a turn, and go.
LEMMA StoredStays ==
  ASSUME RecordInv, StoredHalves, moved \subseteq moved',
         \A c \in Conversations : disk'[c] = disk[c] \/ disk'[c] = None,
         \/ load' = load \/ load' = None
         \/ load'.file = None
         \/ \E c \in Conversations : load'.file = disk[c],
         \/ jobs' = jobs
         \/ \E job \in Jobs : (job.what = "turn" => Matched(job.events, job.delta, moved')) /\ jobs' = Append(jobs, job)
  PROVE  StoredHalves'
<1>1. \A c \in Conversations : disk'[c] # None => FileMatched(disk'[c], moved')
  BY StillMatched DEF StoredHalves
<1>2. load' # None /\ load'.file # None => FileMatched(load'.file, moved')
  BY StillMatched DEF StoredHalves
<1>3. \A i \in DOMAIN jobs' : jobs'[i].what = "turn" => Matched(jobs'[i].events, jobs'[i].delta, moved')
  <2>1. CASE jobs' = jobs
    BY <2>1, StillMatched DEF StoredHalves
  <2>2. ASSUME NEW job \in Jobs, job.what = "turn" => Matched(job.events, job.delta, moved'), jobs' = Append(jobs, job)
        PROVE  \A i \in DOMAIN jobs' : jobs'[i].what = "turn" => Matched(jobs'[i].events, jobs'[i].delta, moved')
    <3>1. jobs \in Seq(Jobs) /\ DOMAIN jobs = 1..Len(jobs) /\ Len(jobs) \in Nat
      BY LenProperties DEF RecordInv, StoreOK
    <3>2. /\ jobs' \in Seq(Jobs) /\ Len(jobs') = Len(jobs) + 1 /\ jobs'[Len(jobs) + 1] = job
          /\ \A i \in 1..Len(jobs) : jobs'[i] = jobs[i]
      <4>1. LET r == Append(jobs, job)
            IN  /\ r \in Seq(Jobs) /\ Len(r) = Len(jobs) + 1 /\ r[Len(jobs) + 1] = job
                /\ \A i \in 1..Len(jobs) : r[i] = jobs[i]
        BY <3>1, AppendProperties
      <4> QED
        BY <2>2, <4>1, Zenon
    <3>3. \A i \in DOMAIN jobs' : i \in DOMAIN jobs \/ i = Len(jobs) + 1
      BY <3>1, <3>2, LenProperties
    <3> QED
      BY <2>2, <3>1, <3>2, <3>3, StillMatched DEF StoredHalves
  <2> QED
    BY <2>1, <2>2
<1> QED
  BY <1>1, <1>2, <1>3 DEF StoredHalves

\* A job leaves a file whose turns are matched.
LEMMA ResultMatched ==
  ASSUME RecordInv, StoredHalves, NEW job \in Jobs, Accepted(job),
         job.what = "turn" => Matched(job.events, job.delta, moved)
  PROVE  FileMatched(Result(job), moved)
<1> DEFINE file == disk[job.conv]
<1>1. job.conv \in Conversations /\ Result(job) \in Graphs
  BY ResultType DEF RecordInv, StoreOK
<1>2. IsGraph(Result(job)) /\ (file # None => FileMatched(file, moved) /\ IsGraph(file))
  BY <1>1 DEF Graphs, StoredHalves, FileMatched
<1>3. Result(job) # None => Stored(Result(job)) = Range(Result(job).turns)
  BY DEF Stored
<1>4. CASE Result(job) = None
  BY <1>2, <1>4 DEF FileMatched, Stored
<1>5. CASE Result(job) # None /\ job.what = "turn"
  <2>1. job.events \in Seq(Tokens) /\ job.delta \in Seq(Tokens)
    BY <1>5 DEF Jobs
  <2>2. \A t \in Range(Result(job).turns) : t \in Stored(file) \/ (t.events = job.events /\ t.delta = job.delta)
    <3>1. CASE file = None
      <4>1. Result(job) = Created(job)
        BY <1>5, <3>1 DEF Result
      <4> QED
        BY <2>1, <4>1, NewGraph
    <3>2. CASE file # None
      <4>1. Result(job) = Appended(file, job)
        BY <1>5, <3>2 DEF Result
      <4> QED
        BY <1>2, <2>1, <3>2, <4>1, GraphWithTurn DEF Stored
    <3> QED
      BY <3>1, <3>2
  <2>3. \A t \in Stored(file) : Matched(t.events, t.delta, moved)
    BY <1>2 DEF FileMatched, Stored
  <2> QED
    BY <1>2, <1>3, <1>5, <2>2, <2>3 DEF FileMatched
<1>6. CASE Result(job) # None /\ job.what # "turn"
  <2>1. file # None /\ job.what \in {"fork", "switch", "remove"} /\ job.branch \in {Main} \cup Branches
    BY <1>6 DEF Accepted, Jobs
  <2>2. PICK from \in Named(file) : job.what = "fork" => from = job.from
    <3>1. CASE job.what = "fork"
      BY <2>1, <3>1 DEF Accepted, Ids, Stored, Named
    <3>2. CASE job.what # "fork"
      <4>1. file.heads[job.branch] # None
        BY <2>1, <3>2 DEF Accepted
      <4>2. file.heads[job.branch] \in Named(file)
        BY <1>2, <2>1, <4>1 DEF IsGraph
      <4> QED
        BY <3>2, <4>2
    <3> QED
      BY <3>1, <3>2
  <2>3. PICK old, branch : old = file /\ branch = job.branch
    OBVIOUS
  <2>4. \A r \in {Forked(old, branch, from), Removed(old, branch), [old EXCEPT !.active = branch]} : r.turns = old.turns
    <3>1. IsGraph(old) /\ from \in Named(old) /\ branch \in {Main} \cup Branches
      BY <1>2, <2>1, <2>3
    <3> QED
      BY <3>1, GraphStays
  <2>5. Result(job) \in {Forked(old, branch, from), Removed(old, branch), [old EXCEPT !.active = branch]}
    BY <2>1, <2>2, <2>3 DEF Result
  <2>6. Stored(Result(job)) = Stored(file)
    BY <1>6, <2>1, <2>3, <2>4, <2>5 DEF Stored
  <2> QED
    BY <1>2, <2>1, <2>6 DEF FileMatched
<1> QED
  BY <1>4, <1>5, <1>6

\* A write keeps what is stored matched.
LEMMA StoredWrite ==
  ASSUME RecordInv, StoredHalves, Write
  PROVE  StoredHalves'
<1>1. UNCHANGED moved
  BY DEF Write
<1>2. PICK i \in DOMAIN jobs :
        /\ \/ /\ Accepted(jobs[i])
              /\ disk' = [disk EXCEPT ![jobs[i].conv] = Result(jobs[i])]
              /\ load' = IF jobs[i].what # "turn" /\ conversationId # None
                         THEN [conv |-> conversationId, file |-> None] ELSE load
           \/ UNCHANGED <<disk, load>>
        /\ jobs' = RemoveAt(jobs, i)
  BY DEF Write, NextJobs
<1>3. PICK job \in Jobs : job = jobs[i]
  BY JobType DEF RecordInv
<1>4. job.what = "turn" => Matched(job.events, job.delta, moved)
  BY <1>3 DEF StoredHalves
<1>5. \A c \in Conversations : disk'[c] # None => FileMatched(disk'[c], moved)
  <2>1. CASE UNCHANGED disk
    BY <2>1 DEF StoredHalves
  <2>2. CASE Accepted(job) /\ disk' = [disk EXCEPT ![job.conv] = Result(job)]
    <3>1. FileMatched(Result(job), moved)
      BY <1>4, <2>2, ResultMatched
    <3> QED
      BY <2>2, <3>1 DEF StoredHalves, RecordInv, StoreOK
  <2> QED
    BY <1>2, <1>3, <2>1, <2>2
<1>6. load' # None /\ load'.file # None => FileMatched(load'.file, moved)
  BY <1>2 DEF StoredHalves
<1>7. \A k \in DOMAIN jobs' : \E m \in DOMAIN jobs : jobs'[k] = jobs[m]
  <2>1. IsList(jobs)
    BY SeqOfRange DEF RecordInv, StoreOK, IsList
  <2>2. /\ Len(jobs) \in Nat /\ DOMAIN jobs = 1..Len(jobs) /\ DOMAIN jobs' = 1..(Len(jobs) - 1)
        /\ \A k \in DOMAIN jobs' : jobs'[k] = (IF k < i THEN jobs[k] ELSE jobs[k + 1])
    BY <1>2, <2>1, ListFacts, RemoveList
  <2>3. \A k \in DOMAIN jobs' : k \in DOMAIN jobs /\ k + 1 \in DOMAIN jobs
    BY <2>2
  <2> QED
    BY <2>2, <2>3
<1>8. \A k \in DOMAIN jobs' : jobs'[k].what = "turn" => Matched(jobs'[k].events, jobs'[k].delta, moved)
  BY <1>7 DEF StoredHalves
<1> QED
  BY <1>1, <1>5, <1>6, <1>8, StillMatched DEF StoredHalves

-----------------------------------------------------------------------------
(* What is in hand. *)

InHandInv == SessionInv /\ TurnInv /\ SavingInv /\ PendingInv /\ ReadInv

\* Steps the host does not see.
LEMMA HandsUnseen ==
  ASSUME InHandInv, UNCHANGED <<host, session, turn, saving, moved, rebuildFailed>>
  PROVE  InHandInv'
BY DEF host, InHandInv, SessionInv, TurnInv, SavingInv, PendingInv, ReadInv, Remembered

\* A turn that is detached is the same turn.
LEMMA DetachedTurn ==
  ASSUME WorkOK, turn # None
  PROVE  LET u == Detached(turn) IN u # None /\ u.e = turn.e /\ u.events = turn.events /\ u.stage = turn.stage
BY NoneAssumption DEF WorkOK, Detached, Turns

(* Whoever goes leaves what is in hand behind, and what the model will     *)
(* read is what the conversation gone to has stored.                       *)
LEMMA HandsLeave ==
  ASSUME RecordInv, InHandInv, Leaving, UNCHANGED <<saving, rebuildFailed>>,
         session' = None \/ (session # None /\ session'.lastDelta = session.lastDelta),
         session' # None => pendingRestore' = None,
         turn' = turn \/ turn' = Detached(turn),
         moved' = {} => Agree(IF session' # None THEN session'.messages
                              ELSE IF pendingRestore' # None THEN pendingRestore' ELSE <<>>, recorded')
  PROVE  InHandInv'
<1>1. turn # None => turn' # None /\ turn'.e = turn.e /\ turn'.events = turn.events /\ turn'.stage = turn.stage
  BY DetachedTurn DEF RecordInv
<1>2. turn = None => turn' = None
  BY DEF Detached
<1>3. /\ turn # None => turn.e \in moved'
      /\ saving # None => saving.e \in moved'
  BY DEF Leaving, Left
<1>4. SessionInv'
  BY DEF InHandInv, SessionInv
<1>5. TurnInv'
  BY <1>1, <1>2, <1>3 DEF InHandInv, TurnInv
<1>6. SavingInv'
  BY <1>3 DEF InHandInv, SavingInv
<1>7. PendingInv'
  BY KindOfNothing DEF Leaving, PendingInv, Quiet
<1>8. ReadInv'
  BY <1>1, <1>2, <1>3 DEF ReadInv, Remembered
<1> QED
  BY <1>4, <1>5, <1>6, <1>7, <1>8 DEF InHandInv

\* A new conversation, a new key, a conversation that is deleted.
LEMMA HandsCleared ==
  ASSUME RecordInv, InHandInv, Cleared, UNCHANGED <<saving, rebuildFailed>>,
         session' = None \/ (session # None /\ session' = [session EXCEPT !.messages = <<>>]),
         turn' = turn \/ turn' = Detached(turn)
  PROVE  InHandInv'
<1>1. Leaving /\ pendingRestore' = None /\ recorded' = <<>>
  BY DEF Cleared
<1>2. session' = None \/ (session # None /\ session'.lastDelta = session.lastDelta /\ session'.messages = <<>>)
  BY DEF RecordInv, WorkOK, Sessions
<1>3. Agree(<<>>, <<>>)
  BY DEF Agree
<1> QED
  BY <1>1, <1>2, <1>3, HandsLeave

\* The moves of the user.
LEMMA HandsMove ==
  ASSUME RecordInv, InHandInv, Moving
  PROVE  InHandInv'
<1>1. CASE Open \/ ChangeBranch
  BY <1>1, HandsUnseen DEF Open, ChangeBranch, history
<1>2. CASE NewConversation \/ Rekey
  BY <1>2, HandsCleared DEF NewConversation, Rekey
<1>3. CASE DeleteConversation
  <2>1. CASE UNCHANGED <<host, session, turn, moved, dropped>>
    BY <1>3, <2>1, HandsUnseen DEF DeleteConversation
  <2>2. CASE /\ Cleared
             /\ session' = IF session = None THEN None ELSE [session EXCEPT !.messages = <<>>]
             /\ turn' = IF session = None THEN turn ELSE Detached(turn)
    BY <1>3, <2>2, HandsCleared DEF DeleteConversation
  <2> QED
    BY <1>3, <2>1, <2>2 DEF DeleteConversation
<1> QED
  BY <1>1, <1>2, <1>3 DEF Moving

\* A conversation is adopted: its two halves are read together.
LEMMA HandsAdopt ==
  ASSUME RecordInv, StoredHalves, InHandInv, Adopt
  PROVE  InHandInv'
<1>1. /\ load # None /\ load.file # None /\ FileMatched(load.file, moved) /\ IsGraph(load.file)
      /\ Leaving /\ UNCHANGED <<saving, rebuildFailed>>
  BY DEF Adopt, StoredHalves, FileMatched
<1> DEFINE messages == MessagesAt(load.file)
<1>2. /\ session' = IF session = None THEN None ELSE Restored(messages, ContractOf(recorded))
      /\ pendingRestore' = IF session = None THEN messages ELSE None
      /\ recorded' = EventsAt(load.file)
      /\ turn' = turn \/ turn' = Detached(turn)
  BY DEF Adopt
<1>3. messages \in Seq(Tokens)
  BY <1>1, HalvesOfFile
<1>4. moved' = {} => Agree(messages, recorded')
  <2>1. ASSUME moved' = {} PROVE \A t \in Stored(load.file) : Agree(t.events, t.delta)
    BY <1>1, <2>1 DEF FileMatched, Matched, Leaving
  <2> QED
    BY <1>1, <1>2, <2>1, HalvesOfFile
<1> HIDE DEF messages
<1>5. session # None => session' # None /\ session'.lastDelta = session.lastDelta /\ session'.messages = messages
  <2>1. ASSUME session # None PROVE LET r == Restored(messages, ContractOf(recorded))
                                    IN  r \in Sessions /\ r.lastDelta = session.lastDelta /\ r.messages = messages
    BY <1>3, <2>1, Told DEF RecordInv, HostOK, WorkOK, Sessions, Restored
  <2> QED
    BY <1>2, <2>1, NoneAssumption
<1>6. session = None => session' = None /\ pendingRestore' # None /\ pendingRestore' = messages
  BY <1>2, <1>3, NoneAssumption
<1>7. session' # None => pendingRestore' = None
  BY <1>2
<1>8. moved' = {} => Agree(IF session' # None THEN session'.messages
                           ELSE IF pendingRestore' # None THEN pendingRestore' ELSE <<>>, recorded')
  BY <1>4, <1>5, <1>6
<1>9. session' = None \/ (session # None /\ session'.lastDelta = session.lastDelta)
  BY <1>5, <1>6
<1> QED
  BY <1>1, <1>2, <1>7, <1>8, <1>9, HandsLeave

\* A question.
LEMMA HandsAsk ==
  ASSUME RecordInv, InHandInv, Send \/ AnswerFromRecord
  PROVE  InHandInv'
<1>1. /\ turn = None /\ asked + 1 \in 1..MaxExchanges
      /\ UNCHANGED <<session, pendingRestore, pendingEvents, moved, rebuildFailed>>
  BY ClaimType DEF Claim, Send, AnswerFromRecord
<1>2. PICK e \in 1..MaxExchanges : e = asked + 1
  BY <1>1
<1> DEFINE ask == <<e, "ask">>
           status == <<e, "status">>
<1>3. /\ ask \in Tokens /\ <<ask>> \in Seq(Tokens) /\ Exchanges(<<ask>>) = {e} /\ Quiet(<<ask>>)
      /\ status \in Tokens /\ <<status>> \in Seq(Tokens) /\ Exchanges(<<status>>) = {e} /\ Quiet(<<status>>)
  BY OwnTokens
<1>4. recorded \in Seq(Tokens) /\ ask[2] # "answer"
  BY DEF RecordInv, HostOK
<1>5. <<ask, status>> = <<ask>> \o <<status>>
  OBVIOUS
<1> HIDE DEF ask, status
<1>6. <<ask, status>> \in Seq(Tokens) /\ Quiet(<<ask, status>>) /\ Exchanges(<<ask, status>>) = {e}
  <2>1. PICK x \in Seq(Tokens), y \in Seq(Tokens) : x = <<ask>> /\ y = <<status>>
    BY <1>3
  <2>2. Exchanges(x) = {e} /\ Exchanges(y) = {e} /\ Quiet(x) /\ Quiet(y)
    BY <1>3, <2>1, Zenon
  <2>3. x \o y \in Seq(Tokens) /\ Quiet(x \o y) /\ Exchanges(x \o y) = {e}
    <3>1. x \o y \in Seq(Tokens) /\ Exchanges(x \o y) = Exchanges(x) \cup Exchanges(y)
      BY <2>1, ExchangesOfBoth
    <3>2. Quiet(x \o y)
      BY <2>2, AnswersOfBoth
    <3>3. {e} \cup {e} = {e}
      OBVIOUS
    <3> QED
      BY <2>2, <3>1, <3>2, <3>3, Zenon
  <2>4. <<ask, status>> = x \o y
    BY <1>5, <2>1, Zenon
  <2> QED
    BY <2>3, <2>4, Zenon
<1>7. PendingInv'
  BY <1>1 DEF InHandInv, PendingInv
<1>8. CASE Send
  <2>1. /\ recorded' = Append(recorded, ask) /\ UNCHANGED saving
        /\ turn' = [e |-> e, id |-> <<Opened, turnOrdinal>>, events |-> <<ask>>, stage |-> "routing",
                    contract |-> FALSE, start |-> 0, attached |-> TRUE, carried |-> <<>>]
    BY <1>2, <1>8 DEF Send, ask
  <2>2. Agree(recorded', recorded)
    BY <1>3, <1>4, <2>1, SaysNothing
  <2>3. TurnInv'
    BY <1>3, <2>1 DEF TurnInv
  <2>4. SessionInv' /\ SavingInv'
    BY <1>1, <2>1 DEF InHandInv, SessionInv, SavingInv
  <2>5. Remembered' = Remembered
    BY <1>1, <2>1 DEF Remembered
  <2>6. ReadInv'
    BY <1>1, <2>2, <2>5 DEF InHandInv, ReadInv, Agree
  <2> QED
    BY <1>7, <2>3, <2>4, <2>6 DEF InHandInv
<1>9. CASE AnswerFromRecord
  <2>1. /\ recorded' = recorded \o <<ask, status>> /\ saving = None /\ UNCHANGED turn
        /\ saving' = [e |-> e, id |-> <<Opened, turnOrdinal>>, events |-> <<ask, status>>]
    BY <1>2, <1>9 DEF AnswerFromRecord, ask, status
  <2>2. Agree(recorded', recorded)
    BY <1>4, <1>6, <2>1, AnswersOfBoth
  <2>3. saving' # None
    <3>1. saving' \in Saves
      <4>1. RecordInv'
        BY <1>9, AskType
      <4>2. <<Opened, turnOrdinal>> \in TurnIds
        BY <1>9, ClaimType DEF AnswerFromRecord
      <4> QED
        BY <1>6, <2>1, <4>2 DEF Saves
    <3> QED
      BY <3>1, NoneAssumption
  <2>4. TurnInv' /\ SessionInv'
    BY <1>1, <2>1, <2>3 DEF InHandInv, TurnInv, SessionInv
  <2>5. SavingInv'
    <3>1. session # None => session.lastDelta = <<>>
      BY <2>1 DEF InHandInv, SessionInv
    <3>2. session # None => Agree(<<ask, status>>, session.lastDelta)
      BY <1>6, <3>1, KindOfNothing DEF Agree, Quiet
    <3> QED
      BY <1>1, <1>6, <2>1, <3>2 DEF SavingInv
  <2>6. ReadInv'
    <3>1. Remembered' = Remembered
      BY <1>1, <2>1 DEF Remembered
    <3> QED
      BY <1>1, <2>2, <3>1 DEF InHandInv, ReadInv, Agree
  <2> QED
    BY <1>7, <2>4, <2>5, <2>6 DEF InHandInv
<1> QED
  BY <1>8, <1>9

\* A turn that ends without an answer.
LEMMA HandsEnd ==
  ASSUME RecordInv, InHandInv, turn # None, Ended(turn.events),
         UNCHANGED <<pendingEvents, recorded, moved>>, rebuildFailed => rebuildFailed',
         session' # None => pendingRestore' = None /\ session'.lastDelta = <<>>,
         moved = {} /\ ~rebuildFailed' => Agree(IF session' # None THEN session'.messages
                                                ELSE IF pendingRestore' # None THEN pendingRestore' ELSE <<>>, Remembered)
  PROVE  InHandInv'
<1>1. turn' = None /\ saving' = [e |-> turn.e, id |-> turn.id, events |-> turn.events]
  BY DEF Ended
<1>2. turn.e \in Exchanges(turn.events) /\ Quiet(turn.events)
  BY DEF InHandInv, TurnInv
<1>3. saving' # None
  <2>1. saving' \in Saves
    BY EndedType DEF RecordInv, WorkOK, Turns
  <2> QED
    BY <2>1, NoneAssumption
<1>4. SessionInv' /\ TurnInv' /\ PendingInv'
  BY <1>1, <1>3 DEF InHandInv, SessionInv, TurnInv, PendingInv
<1>5. SavingInv'
  BY <1>1, <1>2, KindOfNothing DEF SavingInv, Agree, Quiet
<1>6. ReadInv'
  BY <1>1 DEF InHandInv, ReadInv, Remembered, Agree
<1> QED
  BY <1>4, <1>5, <1>6 DEF InHandInv

\* The contract is the business of neither.
LEMMA HeldSame ==
  ASSUME RecordInv, NEW s \in Sessions
  PROVE  LET r == Contracted(Holding(s))
         IN  r.lastDelta = s.lastDelta /\ r.messages = IF pendingRestore = None THEN s.messages ELSE pendingRestore
<1>1. LET h == Holding(s)
      IN  /\ h.lastDelta = s.lastDelta /\ h.messages = (IF pendingRestore = None THEN s.messages ELSE pendingRestore)
          /\ {"messages", "lastDelta", "contract"} \subseteq DOMAIN h
  BY DEF Holding, Sessions
<1>2. ASSUME NEW h, {"messages", "lastDelta", "contract"} \subseteq DOMAIN h
      PROVE  Contracted(h).lastDelta = h.lastDelta /\ Contracted(h).messages = h.messages
  BY <1>2 DEF Contracted
<1> QED
  BY <1>1, <1>2

\* The session is there: the question is the last of its messages.
LEMMA HandsReady ==
  ASSUME RecordInv, InHandInv, turn # None, saving = None, NEW s \in Sessions, Ready(Holding(s)), s.lastDelta = <<>>,
         (IF pendingRestore = None THEN s.messages ELSE pendingRestore) = Remembered
  PROVE  InHandInv'
<1> DEFINE ready == Contracted(Holding(s))
           ask == <<turn.e, "ask">>
<1>1. ready \in Sessions /\ ready.lastDelta = <<>> /\ ready.messages = Remembered /\ ready.messages \in Seq(Tokens)
  BY HeldType, HeldSame DEF RecordInv, Sessions
<1>2. /\ \/ /\ session' = [ready EXCEPT !.messages = Append(@, ask)]
            /\ turn' = [turn EXCEPT !.stage = "talking", !.start = Len(ready.messages), !.attached = TRUE, !.carried = <<>>]
            /\ UNCHANGED saving
         \/ session' = ready /\ Ended(turn.events)
      /\ pendingRestore' = None /\ UNCHANGED <<recorded, pendingEvents, moved, rebuildFailed>>
  BY DEF Ready, StartOf, history
<1>3. ask \in Tokens /\ ask[2] # "answer"
  BY DEF RecordInv, WorkOK, Turns, Tokens
<1> HIDE DEF ready
<1>4. CASE session' = ready /\ Ended(turn.events)
  <2>1. session' # None
    BY <1>1, <1>4, NoneAssumption
  <2>2. Agree(session'.messages, Remembered) /\ session'.lastDelta = <<>>
    BY <1>1, <1>4 DEF Agree
  <2> QED
    BY <1>2, <1>4, <2>1, <2>2, HandsEnd
<1>5. CASE /\ session' = [ready EXCEPT !.messages = Append(@, ask)]
           /\ turn' = [turn EXCEPT !.stage = "talking", !.start = Len(ready.messages), !.attached = TRUE, !.carried = <<>>]
           /\ UNCHANGED saving
  <2> HIDE DEF ask
  <2>1. PICK messages \in Seq(Tokens) : messages = Append(ready.messages, ask)
    BY <1>1, <1>3, AppendProperties
  <2>2. /\ Agree(messages, ready.messages) /\ Len(messages) = Len(ready.messages) + 1
        /\ messages[Len(ready.messages) + 1] = ask
    <3>1. Agree(Append(ready.messages, ask), ready.messages)
      BY <1>1, <1>3, SaysNothing
    <3>2. LET r == Append(ready.messages, ask)
          IN  Len(r) = Len(ready.messages) + 1 /\ r[Len(ready.messages) + 1] = ask
      BY <1>1, <1>3, AppendProperties
    <3> QED
      BY <2>1, <3>1, <3>2, Zenon
  <2>3. /\ session' # None /\ session'.messages = messages /\ session'.lastDelta = <<>>
    <3>1. session' = [ready EXCEPT !.messages = messages]
      BY <1>5, <2>1, Zenon
    <3>2. session' \in Sessions
      BY <1>1, <3>1 DEF Sessions
    <3> QED
      BY <1>1, <3>1, <3>2, NoneAssumption DEF Sessions
  <2>4. /\ turn'.e = turn.e /\ turn'.events = turn.events /\ turn'.stage = "talking" /\ turn'.attached
        /\ turn'.start = Len(ready.messages)
    BY <1>5 DEF RecordInv, WorkOK, Turns
  <2>5. TurnInv'
    BY <1>5, <2>2, <2>3, <2>4 DEF InHandInv, TurnInv, ask
  <2>6. SessionInv' /\ SavingInv' /\ PendingInv'
    BY <1>2, <1>5, <2>3 DEF InHandInv, SessionInv, SavingInv, PendingInv
  <2>7. ReadInv'
    BY <1>1, <1>2, <2>2, <2>3 DEF InHandInv, ReadInv, Remembered, Agree
  <2> QED
    BY <2>5, <2>6, <2>7 DEF InHandInv
<1> QED
  BY <1>2, <1>4, <1>5

\* The stages of a turn before it talks.
LEMMA HandsStages ==
  ASSUME RecordInv, InHandInv, Route \/ Reuse \/ Refuse \/ Rebuild \/ OpenDone \/ OpenFails
  PROVE  InHandInv'
<1>1. /\ turn # None /\ turn \in Turns /\ turn.e \in 1..MaxExchanges /\ turn.events \in Seq(Tokens)
      /\ turn.e \in Exchanges(turn.events) /\ Quiet(turn.events) /\ recorded \in Seq(Tokens)
      /\ turn.stage \in {"opening", "talking"} => saving = None
      /\ turn.stage = "opening" => session = None
      /\ session # None => pendingRestore = None /\ (saving = None => session.lastDelta = <<>>)
  BY DEF Route, Reuse, Refuse, Rebuild, OpenDone, OpenFails, RecordInv, HostOK, WorkOK, Turns,
         InHandInv, TurnInv, SessionInv
<1>2. CASE Route
  <2>1. PICK said \in Seq(Tokens) :
           /\ Quiet(said) /\ recorded' = recorded \o said
           /\ turn' = [turn EXCEPT !.stage = "resolving", !.events = @ \o said, !.contract = said # <<>>]
    <3>1. PICK who \in Recorders :
             LET said == IF who = "router" THEN <<<<turn.e, "contract">>>> ELSE <<>> IN
             /\ recorded' = recorded \o said
             /\ turn' = [turn EXCEPT !.stage = "resolving", !.events = @ \o said, !.contract = said # <<>>]
      BY <1>2 DEF Route
    <3> DEFINE said == IF who = "router" THEN <<<<turn.e, "contract">>>> ELSE <<>>
    <3>2. said \in Seq(Tokens) /\ Quiet(said)
      BY <1>1, OwnTokens
    <3>3. /\ recorded' = recorded \o said
          /\ turn' = [turn EXCEPT !.stage = "resolving", !.events = @ \o said, !.contract = said # <<>>]
      BY <3>1
    <3> HIDE DEF said
    <3> QED
      BY <3>2, <3>3
  <2>2. Agree(recorded', recorded)
    BY <1>1, <2>1, AnswersOfBoth
  <2>3. PICK events : events = turn.events \o said
    OBVIOUS
  <2>4. Quiet(events) /\ turn.e \in Exchanges(events)
    BY <1>1, <2>1, <2>3, AnswersOfBoth, ExchangesOfBoth
  <2>5. turn'.e = turn.e /\ turn'.events = events /\ turn'.stage = "resolving"
    BY <1>1, <2>1, <2>3 DEF Turns
  <2>6. UNCHANGED <<session, saving, pendingRestore, pendingEvents, moved, rebuildFailed>> /\ turn.stage = "routing"
    BY <1>2 DEF Route, history
  <2>7. TurnInv'
    BY <2>4, <2>5, <2>6 DEF TurnInv
  <2>8. SessionInv' /\ SavingInv' /\ PendingInv'
    BY <2>6 DEF InHandInv, SessionInv, SavingInv, PendingInv
  <2>9. Remembered' = Remembered
    BY <2>5, <2>6 DEF Remembered
  <2>10. ReadInv'
    BY <2>2, <2>6, <2>9 DEF InHandInv, ReadInv, Agree
  <2> QED
    BY <2>7, <2>8, <2>10 DEF InHandInv
<1>3. CASE Reuse
  <2>1. session \in Sessions /\ session # None /\ saving = None /\ Ready(Holding(session))
    BY <1>3 DEF Reuse, RecordInv, WorkOK
  <2>2. (IF pendingRestore = None THEN session.messages ELSE pendingRestore) = Remembered
    BY <1>1, <2>1 DEF Remembered
  <2> QED
    BY <1>1, <2>1, <2>2, HandsReady
<1>4. CASE OpenDone
  <2> DEFINE s == [messages |-> turn.carried, lastDelta |-> <<>>, contract |-> {}]
  <2>1. s \in Sessions /\ s.lastDelta = <<>> /\ s.messages = turn.carried
    BY <1>1, EmptySeq DEF Sessions, Turns
  <2>2. Ready(Holding(s)) /\ turn.stage = "opening"
    BY <1>4 DEF OpenDone
  <2> HIDE DEF s
  <2>3. (IF pendingRestore = None THEN s.messages ELSE pendingRestore) = Remembered
    BY <1>1, <2>1, <2>2 DEF Remembered
  <2> QED
    BY <1>1, <2>1, <2>2, <2>3, HandsReady
<1>5. CASE Refuse
  <2>1. Ended(turn.events) /\ UNCHANGED <<host, session, history>> /\ turn.stage = "resolving"
    BY <1>5 DEF Refuse
  <2>2. Remembered = IF session' # None THEN session'.messages ELSE IF pendingRestore' # None THEN pendingRestore' ELSE <<>>
    BY <2>1 DEF Remembered, host
  <2>3. session' # None => pendingRestore' = None /\ session'.lastDelta = <<>>
    BY <1>1, <2>1 DEF Ended, host
  <2> QED
    BY <1>1, <2>1, <2>2, <2>3, HandsEnd DEF host, history, Agree
<1>6. CASE OpenFails
  <2>1. /\ Ended(turn.events) /\ UNCHANGED <<host, session, moved>> /\ turn.stage = "opening"
        /\ rebuildFailed' = (rebuildFailed \/ turn.carried # <<>>)
    BY <1>6 DEF OpenFails
  <2>2. ~rebuildFailed' => turn.carried = <<>>
    BY <2>1
  <2>3. rebuildFailed => rebuildFailed'
    BY <2>1
  <2>4. ~rebuildFailed' =>
          Remembered = IF session' # None THEN session'.messages ELSE IF pendingRestore' # None THEN pendingRestore' ELSE <<>>
    BY <1>1, <2>1, <2>2 DEF Remembered, host
  <2>5. session' = None
    BY <1>1, <2>1
  <2> QED
    BY <1>1, <2>1, <2>3, <2>4, <2>5, HandsEnd DEF host, Agree
<1>7. CASE Rebuild
  <2>1. /\ saving = None /\ session' = None /\ UNCHANGED <<host, saving, history>>
        /\ turn' = [turn EXCEPT !.stage = "opening", !.carried = Carried] /\ turn.stage = "resolving"
    BY <1>7 DEF Rebuild
  <2>2. turn'.e = turn.e /\ turn'.events = turn.events /\ turn'.stage = "opening" /\ turn'.carried = Carried
    BY <1>1, <2>1 DEF Turns
  <2>3. turn' # None
    <3>1. Carried \in Seq(Tokens)
      BY EmptySeq DEF Carried, RecordInv, WorkOK, Sessions
    <3>2. turn' \in Turns
      BY <1>1, <2>1, <3>1 DEF Turns
    <3> QED
      BY <3>2, NoneAssumption
  <2>4. TurnInv'
    BY <1>1, <2>1, <2>2 DEF TurnInv
  <2>5. SessionInv' /\ SavingInv' /\ PendingInv'
    BY <2>1 DEF host, history, InHandInv, SessionInv, SavingInv, PendingInv
  <2>6. Remembered' = Remembered
    BY <1>1, <2>1, <2>2, <2>3 DEF Remembered, Carried, host
  <2>7. ReadInv'
    BY <2>1, <2>6 DEF host, history, InHandInv, ReadInv
  <2> QED
    BY <2>4, <2>5, <2>7 DEF InHandInv
<1> QED
  BY <1>2, <1>3, <1>4, <1>5, <1>6, <1>7

\* What is cut at the last message, with what was said after it.
LEMMA CutAtTheLast ==
  ASSUME NEW m \in Seq(Tokens), NEW n \in Nat, Len(m) = n + 1, NEW t \in Seq(Tokens)
  PROVE  /\ m \o t \in Seq(Tokens) /\ m[n + 1] \in Tokens /\ <<m[n + 1]>> \o t \in Seq(Tokens)
         /\ SubSeq(m \o t, n + 1, Len(m \o t)) = <<m[n + 1]>> \o t
<1>1. PICK x \in Tokens : x = m[n + 1]
  <2>1. n + 1 \in 1..Len(m)
    OBVIOUS
  <2> QED
    BY <2>1, ElementOfSeq
<1>2. <<x>> \in Seq(Tokens) /\ Len(<<x>>) = 1 /\ <<x>>[1] = x
  OBVIOUS
<1> DEFINE one == <<x>>
           r == m \o t
           a == SubSeq(r, n + 1, Len(r))
           b == one \o t
<1> HIDE DEF one
<1>3. /\ r \in Seq(Tokens) /\ Len(r) = n + 1 + Len(t) /\ Len(t) \in Nat
      /\ \A i \in 1..(n + 1 + Len(t)) : r[i] = IF i <= n + 1 THEN m[i] ELSE t[i - (n + 1)]
  <2>1. /\ r \in Seq(Tokens) /\ Len(r) = Len(m) + Len(t) /\ Len(t) \in Nat
        /\ \A i \in 1..(Len(m) + Len(t)) : r[i] = IF i <= Len(m) THEN m[i] ELSE t[i - Len(m)]
    BY ConcatProperties, LenProperties
  <2> HIDE DEF r
  <2> QED
    BY <2>1
<1>4. /\ b \in Seq(Tokens) /\ Len(b) = 1 + Len(t)
      /\ \A i \in 1..(1 + Len(t)) : b[i] = IF i <= 1 THEN x ELSE t[i - 1]
  <2>1. one \in Seq(Tokens) /\ Len(one) = 1 /\ one[1] = x
    BY <1>2 DEF one
  <2>2. /\ b \in Seq(Tokens) /\ Len(b) = Len(one) + Len(t)
        /\ \A i \in 1..(Len(one) + Len(t)) : b[i] = IF i <= Len(one) THEN one[i] ELSE t[i - Len(one)]
    BY <2>1, ConcatProperties
  <2> HIDE DEF b
  <2> QED
    BY <1>3, <2>1, <2>2
<1> HIDE DEF r, b
<1>5. a \in Seq(Tokens) /\ Len(a) = 1 + Len(t) /\ \A i \in 1..(1 + Len(t)) : a[i] = r[n + i]
  <2>1. n + 1 \in Int /\ Len(r) \in Int /\ \A i \in (n + 1)..Len(r) : r[i] \in Tokens
    BY <1>3, ElementOfSeq
  <2>2. /\ a \in Seq(Tokens) /\ Len(a) = (IF n + 1 <= Len(r) THEN Len(r) - (n + 1) + 1 ELSE 0)
        /\ \A i \in 1..(Len(r) - (n + 1) + 1) : a[i] = r[(n + 1) + i - 1]
    BY <2>1, SubSeqProperties
  <2> HIDE DEF a
  <2>3. Len(a) = 1 + Len(t) /\ Len(r) - (n + 1) + 1 = 1 + Len(t)
    BY <1>3, <2>2
  <2>4. \A i \in 1..(1 + Len(t)) : (n + 1) + i - 1 = n + i
    BY <1>3
  <2> QED
    BY <2>2, <2>3, <2>4
<1> HIDE DEF a
<1>6. \A i \in 1..Len(a) : a[i] = b[i]
  <2> SUFFICES ASSUME NEW i \in 1..(1 + Len(t)) PROVE a[i] = b[i]
    BY <1>5
  <2>1. a[i] = r[n + i] /\ n + i \in 1..(n + 1 + Len(t)) /\ n + i - (n + 1) = i - 1 /\ (n + i <= n + 1 <=> i <= 1)
    BY <1>3, <1>5
  <2>2. i <= 1 => i = 1
    BY <1>3
  <2> QED
    BY <1>1, <1>3, <1>4, <2>1, <2>2
<1>7. a = b
  BY <1>4, <1>5, <1>6, SeqEqual
<1> QED
  BY <1>1, <1>3, <1>4, <1>7 DEF a, b, r, one

\* The loop ends: what it said is on the screen and is what is cut.
LEMMA HandsTalk ==
  ASSUME RecordInv, InHandInv, Talk
  PROVE  InHandInv'
<1>1. /\ turn # None /\ turn.stage = "talking" /\ turn.start \in Nat /\ turn.e \in 1..MaxExchanges
      /\ turn.events \in Seq(Tokens) /\ turn.e \in Exchanges(turn.events) /\ Quiet(turn.events)
      /\ recorded \in Seq(Tokens)
      /\ UNCHANGED <<pendingEvents, pendingRestore, moved, rebuildFailed>>
      /\ session # None => session \in Sessions /\ pendingRestore = None
  BY DEF Talk, history, RecordInv, HostOK, WorkOK, Turns, InHandInv, TurnInv, SessionInv
<1>2. PICK noted \in {<<>>, <<<<turn.e, "contract">>>>} :
        \E said \in {<<>>, <<<<turn.e, "answer">>>>} :
           /\ recorded' = recorded \o noted \o said
           /\ Ended(turn.events \o noted \o said)
           /\ IF session = None THEN UNCHANGED session
              ELSE LET messages == IF turn.attached THEN session.messages \o said ELSE session.messages
                       cut == IF turn.attached THEN turn.start ELSE turn.start + 1
                   IN  session' = [messages |-> messages,
                                   lastDelta |-> SubSeq(messages, cut + 1, Len(messages)),
                                   contract |-> session.contract \cup Exchanges(noted)]
  BY DEF Talk
<1>3. PICK said \in {<<>>, <<<<turn.e, "answer">>>>} :
           /\ recorded' = recorded \o noted \o said
           /\ Ended(turn.events \o noted \o said)
           /\ IF session = None THEN UNCHANGED session
              ELSE LET messages == IF turn.attached THEN session.messages \o said ELSE session.messages
                       cut == IF turn.attached THEN turn.start ELSE turn.start + 1
                   IN  session' = [messages |-> messages,
                                   lastDelta |-> SubSeq(messages, cut + 1, Len(messages)),
                                   contract |-> session.contract \cup Exchanges(noted)]
  BY <1>2
<1>4. noted \in Seq(Tokens) /\ said \in Seq(Tokens) /\ Quiet(noted)
  BY <1>1, OwnTokens
<1>5. PICK heard \in Seq(Tokens) : heard = recorded \o noted /\ Agree(heard, recorded)
  BY <1>1, <1>4, AnswersOfBoth
<1>6. PICK own \in Seq(Tokens) : own = turn.events \o noted /\ Quiet(own) /\ turn.e \in Exchanges(own)
  <2>1. Exchanges(turn.events \o noted) = Exchanges(turn.events) \cup Exchanges(noted)
    BY <1>1, <1>4, ExchangesOfBoth
  <2> QED
    BY <1>1, <1>4, <2>1, AnswersOfBoth
<1>7. PICK events \in Seq(Tokens) : events = own \o said /\ Agree(events, said) /\ turn.e \in Exchanges(events)
  <2>1. own \o said \in Seq(Tokens) /\ Exchanges(own \o said) = Exchanges(own) \cup Exchanges(said)
    BY <1>4, ExchangesOfBoth
  <2>2. Agree(own \o said, said)
    BY <1>4, <1>6, AnswersOfBoth
  <2> QED
    BY <1>6, <2>1, <2>2
<1>8. recorded' = heard \o said /\ Ended(events)
  BY <1>3, <1>5, <1>6, <1>7, Zenon
<1>9. turn' = None /\ saving' = [e |-> turn.e, id |-> turn.id, events |-> events] /\ saving' # None
  <2>1. turn' = None /\ saving' = [e |-> turn.e, id |-> turn.id, events |-> events]
    BY <1>8 DEF Ended
  <2>2. saving' \in Saves
    BY <1>1, <1>8, EndedType DEF RecordInv
  <2> QED
    BY <2>1, <2>2, NoneAssumption
<1>10. session = None => session' = None
  BY <1>3
<1>11. SessionInv' /\ TurnInv' /\ PendingInv'
  BY <1>1, <1>9, <1>10 DEF InHandInv, SessionInv, TurnInv, PendingInv
<1>12. CASE turn.e \in moved
  <2>1. SavingInv'
    BY <1>1, <1>7, <1>9, <1>12 DEF SavingInv
  <2>2. ReadInv'
    BY <1>1, <1>12 DEF ReadInv
  <2> QED
    BY <1>11, <2>1, <2>2 DEF InHandInv
<1>13. CASE turn.e \notin moved
  <2>1. /\ session # None /\ turn.attached /\ Len(session.messages) = turn.start + 1
        /\ session.messages[turn.start + 1] = <<turn.e, "ask">> /\ session.messages \in Seq(Tokens)
    BY <1>1, <1>13 DEF InHandInv, TurnInv, Sessions
  <2> DEFINE messages == session.messages \o said
             delta == SubSeq(messages, turn.start + 1, Len(messages))
             contract == session.contract \cup Exchanges(noted)
             ask == <<turn.e, "ask">>
  <2>2. session' = [messages |-> messages, lastDelta |-> delta, contract |-> contract]
    BY <1>3, <2>1
  <2>3. messages \in Seq(Tokens) /\ delta = <<session.messages[turn.start + 1]>> \o said
    <3>1. PICK m \in Seq(Tokens) : m = session.messages
      BY <2>1
    <3>2. Len(m) = turn.start + 1
      BY <2>1, <3>1
    <3>3. /\ m \o said \in Seq(Tokens)
          /\ SubSeq(m \o said, turn.start + 1, Len(m \o said)) = <<m[turn.start + 1]>> \o said
      BY <1>1, <1>4, <3>2, CutAtTheLast
    <3> QED
      BY <3>1, <3>3, Zenon
  <2>4. <<ask>> \in Seq(Tokens) /\ Quiet(<<ask>>)
    BY <1>1, OwnTokens
  <2>5. delta = <<ask>> \o said
    BY <2>1, <2>3, Zenon
  <2>6. Agree(<<ask>> \o said, said)
    BY <1>4, <2>4, AnswersOfBoth
  <2> HIDE DEF messages, contract, ask
  <2>7. Agree(delta, said)
    BY <2>5, <2>6, Zenon
  <2> HIDE DEF delta
  <2>8. session' # None /\ session'.lastDelta = delta /\ session'.messages = messages
    <3>1. RecordInv'
      BY TalkType
    <3>2. session' \in Sessions
      <4>1. contract \subseteq 1..MaxExchanges
        BY <1>1, <1>4, <2>1, Told DEF contract, Sessions
      <4>2. delta \in Seq(Tokens)
        BY <1>1, <2>3, PieceType DEF delta
      <4> QED
        BY <2>2, <2>3, <4>1, <4>2 DEF Sessions
    <3> QED
      BY <2>2, <3>2, NoneAssumption
  <2>9. SavingInv'
    BY <1>7, <1>9, <2>7, <2>8 DEF SavingInv, Agree
  <2>10. ASSUME moved' = {}, ~rebuildFailed' PROVE Agree(messages, recorded')
    <3>1. Agree(session.messages, recorded)
      BY <1>1, <2>1, <2>10 DEF InHandInv, ReadInv, Remembered
    <3>2. Agree(session.messages, heard)
      BY <1>5, <3>1 DEF Agree
    <3>3. Agree(session.messages \o said, heard \o said)
      BY <1>4, <1>5, <2>1, <3>2, AnswersOfBoth
    <3> QED
      BY <1>8, <3>3, Zenon DEF messages
  <2>11. ReadInv'
    BY <2>8, <2>10 DEF ReadInv, Remembered
  <2> QED
    BY <1>11, <2>9, <2>11 DEF InHandInv
<1> QED
  BY <1>12, <1>13

\* The two halves are queued together; with no session what is held back has answered nothing.
LEMMA HalvesPersist ==
  ASSUME RecordInv, StoredHalves, InHandInv, Persist
  PROVE  StoredHalves' /\ InHandInv'
<1>1. /\ saving # None /\ saving' = None /\ saving.events \in Seq(Tokens) /\ pendingEvents \in Seq(Tokens)
      /\ saving.e \in Exchanges(saving.events)
      /\ saving.e \notin moved => IF session = None THEN Quiet(saving.events)
                                  ELSE Agree(saving.events, session.lastDelta)
      /\ UNCHANGED <<disk, load, recorded, pendingRestore, turn, moved, rebuildFailed>>
  BY DEF Persist, history, RecordInv, HostOK, WorkOK, Saves, InHandInv, SavingInv
<1>2. PICK events \in Seq(Tokens) :
        /\ events = pendingEvents \o saving.events
        /\ Exchanges(events) = Exchanges(pendingEvents) \cup Exchanges(saving.events)
        /\ Quiet(pendingEvents) => Agree(events, saving.events)
        /\ Quiet(pendingEvents) /\ Quiet(saving.events) => Quiet(events)
  BY <1>1, AnswersOfBoth, ExchangesOfBoth
<1>3. Quiet(pendingEvents) \/ Exchanges(events) \cap moved # {}
  BY <1>2 DEF InHandInv, PendingInv
<1>4. saving.e \in moved => Exchanges(events) \cap moved # {}
  BY <1>1, <1>2
<1>5. TurnInv'
  <2>1. turn # None /\ turn.stage \in {"opening", "talking"} => FALSE
    BY <1>1 DEF InHandInv, TurnInv
  <2> QED
    BY <1>1, <2>1 DEF InHandInv, TurnInv
<1>6. SavingInv'
  BY <1>1 DEF SavingInv
<1>7. CASE session = None
  <2>1. jobs' = jobs /\ session' = session /\ pendingEvents' = events
    BY <1>2, <1>7 DEF Persist, HeldBack
  <2>2. StoredHalves'
    BY <1>1, <2>1, StoredStays
  <2>3. PendingInv'
    BY <1>1, <1>2, <1>3, <1>4, <1>7, <2>1 DEF PendingInv
  <2>4. SessionInv' /\ ReadInv'
    BY <1>1, <1>7, <2>1 DEF InHandInv, SessionInv, ReadInv, Remembered
  <2> QED
    BY <1>5, <1>6, <2>2, <2>3, <2>4 DEF InHandInv
<1>8. CASE session # None
  <2> DEFINE job == [what |-> "turn", conv |-> Opened, id |-> saving.id, events |-> events, delta |-> session.lastDelta]
  <2>1. /\ jobs' = Append(jobs, job) /\ session' = [session EXCEPT !.lastDelta = <<>>] /\ pendingEvents' = <<>>
        /\ session \in Sessions
    BY <1>2, <1>8 DEF Persist, HeldBack, RecordInv, WorkOK
  <2>2. job \in Jobs
    BY <1>1, <1>2, <2>1, OpenedType DEF Persist, Jobs, RecordInv, WorkOK, Saves, Sessions
  <2>3. Matched(job.events, job.delta, moved')
    <3>1. job.events = events /\ job.delta = session.lastDelta
      OBVIOUS
    <3> HIDE DEF job
    <3> QED
      BY <1>1, <1>2, <1>3, <1>4, <1>8, <3>1 DEF Matched, Agree
  <2> HIDE DEF job
  <2>4. StoredHalves'
    BY <1>1, <2>1, <2>2, <2>3, StoredStays
  <2>5. session' # None /\ session'.lastDelta = <<>> /\ session'.messages = session.messages
    <3>1. session' \in Sessions
      BY <2>1, EmptySeq DEF Sessions
    <3> QED
      BY <2>1, <3>1, NoneAssumption DEF Sessions
  <2>6. PendingInv'
    BY <2>1, KindOfNothing DEF PendingInv, Quiet
  <2>7. SessionInv' /\ ReadInv'
    BY <1>1, <1>8, <2>5 DEF InHandInv, SessionInv, ReadInv, Remembered
  <2> QED
    BY <1>5, <1>6, <2>4, <2>6, <2>7 DEF InHandInv
<1> QED
  BY <1>7, <1>8

\* The steps that bring nothing to the store, except what a save brings and a write does.
LEMMA StoredStep ==
  ASSUME RecordInv, StoredHalves, [Next]_vars, ~Persist, ~Write
  PROVE  StoredHalves'
<1>1. moved \subseteq moved'
  <2>1. Leaving => moved \subseteq moved'
    BY DEF Leaving
  <2>2. CASE Moving
    BY <2>1, <2>2 DEF Moving, Open, NewConversation, Rekey, DeleteConversation, ChangeBranch, Cleared, history
  <2>3. CASE Adopt
    BY <2>1, <2>3 DEF Adopt
  <2>4. CASE Send \/ AnswerFromRecord \/ Read \/ UNCHANGED vars
    BY <2>4 DEF Send, AnswerFromRecord, Read, vars, history
  <2>5. CASE Route \/ Reuse \/ Refuse \/ Rebuild \/ OpenDone \/ OpenFails \/ Talk
    BY <2>5 DEF Route, Reuse, Refuse, Rebuild, OpenDone, OpenFails, Talk, Ready, history
  <2> QED
    BY <2>2, <2>3, <2>4, <2>5 DEF Next, Working
<1>2. CASE DeleteConversation
  <2>1. \A c \in Conversations : disk'[c] = disk[c] \/ disk'[c] = None
    BY <1>2 DEF DeleteConversation, RecordInv, StoreOK
  <2> QED
    BY <1>1, <1>2, <2>1, StoredStays DEF DeleteConversation
<1>3. CASE ChangeBranch
  <2>1. UNCHANGED <<disk, load>>
    BY <1>3 DEF ChangeBranch
  <2>2. \E job \in Jobs : job.what # "turn" /\ jobs' = Append(jobs, job)
    <3>1. conversationId \in Conversations /\ disk[conversationId] \in Graphs
      BY <1>3 DEF ChangeBranch, RecordInv, StoreOK, HostOK
    <3>2. ASSUME NEW b \in Branches, NEW id \in Ids(disk[conversationId]),
                 jobs' = Append(jobs, [what |-> "fork", conv |-> conversationId, branch |-> b, from |-> id])
          PROVE  \E job \in Jobs : job.what # "turn" /\ jobs' = Append(jobs, job)
      <4>1. id \in TurnIds
        <5>1. PICK t \in Range(disk[conversationId].turns) : t.id = id
          BY <3>2 DEF Ids, Stored
        <5>2. disk[conversationId].turns \in Seq(Nodes)
          BY <3>1 DEF Graphs, Files, Nodes
        <5>3. t \in Nodes
          BY <5>1, <5>2 DEF Range
        <5> QED
          BY <5>1, <5>3 DEF Nodes
      <4>2. [what |-> "fork", conv |-> conversationId, branch |-> b, from |-> id] \in Jobs
        BY <3>1, <4>1 DEF Jobs
      <4> QED
        BY <3>2, <4>2
    <3>3. ASSUME NEW b \in {Main} \cup Branches, NEW what \in {"switch", "remove"},
                 jobs' = Append(jobs, [what |-> what, conv |-> conversationId, branch |-> b])
          PROVE  \E job \in Jobs : job.what # "turn" /\ jobs' = Append(jobs, job)
      <4>1. [what |-> what, conv |-> conversationId, branch |-> b] \in Jobs
        BY <3>1 DEF Jobs
      <4> QED
        BY <3>3, <4>1
    <3> QED
      BY <1>3, <3>2, <3>3 DEF ChangeBranch
  <2> QED
    BY <1>1, <2>1, <2>2, StoredStays
<1>4. CASE Open \/ Read \/ Adopt
  <2>1. UNCHANGED <<disk, jobs>>
    BY <1>4 DEF Open, Read, Adopt
  <2>2. load' = None \/ \E c \in Conversations : load'.file = disk[c]
    BY <1>4 DEF Open, Read, Adopt, RecordInv, StoreOK
  <2> QED
    BY <1>1, <2>1, <2>2, StoredStays
<1>5. CASE UNCHANGED <<disk, load, jobs>>
  BY <1>1, <1>5, StoredStays
<1>6. Send \/ AnswerFromRecord \/ NewConversation \/ Rekey \/ UNCHANGED vars => UNCHANGED <<disk, load, jobs>>
  BY DEF Send, AnswerFromRecord, NewConversation, Rekey, vars
<1>7. Route \/ Reuse \/ Refuse \/ Rebuild \/ OpenDone \/ OpenFails \/ Talk => UNCHANGED <<disk, load, jobs>>
  BY DEF Route, Reuse, Refuse, Rebuild, OpenDone, OpenFails, Talk, Ready
<1> QED
  BY <1>2, <1>3, <1>4, <1>5, <1>6, <1>7 DEF Next, Moving, Working

\* The halves are inductive: the save, the write, and the rest.
LEMMA HalvesStep ==
  ASSUME RecordInv, StoredHalves, InHandInv, [Next]_vars
  PROVE  StoredHalves' /\ InHandInv'
<1>1. CASE Persist
  BY <1>1, HalvesPersist
<1>2. CASE Write
  <2>1. UNCHANGED <<host, session, turn, saving, moved, rebuildFailed>>
    BY <1>2 DEF Write
  <2> QED
    BY <1>2, <2>1, StoredWrite, HandsUnseen
<1>3. CASE ~Persist /\ ~Write
  <2>1. UNCHANGED vars \/ Read => UNCHANGED <<host, session, turn, saving, moved, rebuildFailed>>
    BY DEF vars, Read, history
  <2>2. InHandInv'
    BY <1>3, <2>1, HandsUnseen, HandsMove, HandsAdopt, HandsAsk, HandsStages, HandsTalk DEF Next, Working
  <2> QED
    BY <1>3, <2>2, StoredStep
<1> QED
  BY <1>1, <1>2, <1>3

\* There are no halves at first.
LEMMA HalvesInit == Init => StoredHalves /\ InHandInv
<1> SUFFICES ASSUME Init PROVE StoredHalves /\ InHandInv
  OBVIOUS
<1>1. /\ disk = [c \in Conversations |-> None] /\ jobs = <<>> /\ load = None
      /\ session = None /\ turn = None /\ saving = None /\ pendingEvents = <<>> /\ pendingRestore = None /\ recorded = <<>>
  BY DEF Init
<1>2. DOMAIN <<>> = {}
  OBVIOUS
<1>3. StoredHalves
  BY <1>1, <1>2 DEF StoredHalves
<1> QED
  BY <1>1, <1>3, KindOfNothing DEF InHandInv, SessionInv, TurnInv, SavingInv, PendingInv, ReadInv, Remembered, Agree, Quiet

\* All of it holds in every reachable state.
LEMMA HalvesInvariant == Spec => [](RecordInv /\ StoredHalves /\ InHandInv)
<1>1. Init => PlacesInv /\ ApartInv /\ RecordInv /\ StoredHalves /\ InHandInv
  BY PlacesInit, RecordInit, HalvesInit
<1>2. PlacesInv /\ ApartInv /\ RecordInv /\ StoredHalves /\ InHandInv /\ [Next]_vars
      => PlacesInv' /\ ApartInv' /\ RecordInv' /\ StoredHalves' /\ InHandInv'
  BY PlacesStep, RecordStep, HalvesStep
<1> QED
  BY <1>1, <1>2, PTL DEF Spec

\* agentHost.ts:1763: the answers a stored turn shows are those it gives the model to read, in their
\* order, unless the user left before it was saved.
THEOREM TheHalvesAgree == Spec => []HalvesAgree
<1>1. RecordInv /\ StoredHalves => HalvesAgree
  <2> SUFFICES ASSUME RecordInv, StoredHalves, NEW c \in Conversations, NEW t \in Stored(disk[c])
               PROVE  Matched(t.events, t.delta, moved)
    BY DEF HalvesAgree, Matched, Agree
  <2>1. disk[c] # None
    BY DEF Stored
  <2> QED
    BY <2>1 DEF StoredHalves, FileMatched
<1> QED
  BY <1>1, HalvesInvariant, PTL

\* agentHost.ts:1566: between turns the session holds the answers on the screen, in their order, whatever
\* was opened, forked, switched or replaced, unless the user left a turn or a replacement failed.
THEOREM TheModelReadsIt == Spec => []ModelReadsUnlessMoved
<1>1. InHandInv => ModelReadsUnlessMoved
  BY DEF InHandInv, ReadInv, Remembered, Agree, ModelReadsUnlessMoved, ModelReadsTheScreen
<1> QED
  BY <1>1, HalvesInvariant, PTL
-----------------------------------------------------------------------------
(* The turns of a file: which ids were handed out, where they are, and why *)
(* no turn is written over another.                                        *)

\* The ids a conversation handed out, and with them all its file has.
IssuedIn(c) == {id \in issued : id[1] = c}
Known(c) == IssuedIn(c) \cup Ids(disk[c])
Loaded == IF load = None THEN None ELSE load.file

\* Every id anywhere was handed out, and a file that was read has lost nothing.
IdsInv ==
    /\ IsFiniteSet(issued) /\ (conversationId = None => turnOrdinal = 0)
    /\ turn # None => turn.id \in issued
    /\ saving # None => saving.id \in issued
    /\ \A i \in DOMAIN jobs : jobs[i].what = "turn" => jobs[i].id \in issued
    /\ \A c \in Conversations : Ids(disk[c]) \subseteq issued
    /\ Loaded # None => Ids(Loaded) \subseteq Ids(disk[load.conv])

\* What is saved under another conversation than the one that issued its id, the user left.
StrayInv ==
    /\ turn # None /\ turn.id[1] # conversationId => {turn.e} \cup InSaving \cup Waiting \subseteq moved
    /\ saving # None /\ saving.id[1] # conversationId => {saving.e} \cup Waiting \subseteq moved
    /\ \A i \in DOMAIN jobs : jobs[i].what = "turn" /\ jobs[i].id[1] # jobs[i].conv => Queued(i) \subseteq moved
    /\ \A c \in Conversations : \A t \in Stored(disk[c]) : t.id[1] # c => Exchanges(t.events) \subseteq moved

\* The next ordinal is above those handed out, and no greater than the number of turns there are ...
NextInv ==
    conversationId # None /\ conversationId \notin skipped =>
        /\ \A id \in IssuedIn(conversationId) : id[2] < turnOrdinal
        /\ turnOrdinal <= Cardinality(Known(conversationId))

\* ... so that a file that holds all that was handed out is longer than any ordinal of it.
Alive(c) == disk[c] # None \/ \E i \in DOMAIN jobs : jobs[i].conv = c
RoomInv ==
    \A c \in Conversations \ skipped :
        Alive(c) => \A id \in IssuedIn(c) : id[2] < Cardinality(Known(c))
ReadInFullInv ==
    Loaded # None /\ load.conv \notin skipped /\ IssuedIn(load.conv) \subseteq Ids(Loaded) =>
        \A id \in IssuedIn(load.conv) : id[2] < NextOrdinal(Loaded)

\* An id on its way to the file of its conversation is on one way only, and not there yet.
Ahead(c) == {i \in DOMAIN jobs : jobs[i].what = "turn" /\ jobs[i].conv = c /\ jobs[i].id[1] = c}
OnceInv ==
    \A c \in Conversations \ skipped :
        /\ \A i \in Ahead(c) : jobs[i].id \notin Ids(disk[c])
        /\ \A i, k \in Ahead(c) : jobs[i].id = jobs[k].id => i = k
        /\ \A hand \in {turn, saving} : hand # None /\ hand.id[1] = c =>
               hand.id \notin Ids(disk[c]) /\ \A i \in Ahead(c) : jobs[i].id # hand.id
        /\ turn # None /\ saving # None /\ turn.id[1] = c => turn.id # saving.id

KeptInv == IdsInv /\ StrayInv /\ NextInv /\ RoomInv /\ ReadInFullInv /\ OnceInv

\* A file has as many turns as ids.
LEMMA FileCounts ==
  ASSUME NEW file, file # None, IsFile(file)
  PROVE  IsFiniteSet(Ids(file)) /\ NextOrdinal(file) \in Nat /\ Cardinality(Ids(file)) = NextOrdinal(file)
<1> DEFINE s == file.turns
           n == Len(s)
           f == [i \in 1..n |-> s[i].id]
<1>1. n \in Nat /\ DOMAIN s = 1..n /\ NextOrdinal(file) = n
  BY ListFacts DEF IsFile, NextOrdinal
<1>2. Ids(file) = {s[i].id : i \in 1..n}
  BY <1>1 DEF Ids, Stored, Range
<1>3. f \in Bijection(1..n, Ids(file))
  <2>1. f \in [1..n -> Ids(file)] /\ \A y \in Ids(file) : \E i \in 1..n : f[i] = y
    BY <1>2
  <2>2. \A i, k \in 1..n : f[i] = f[k] => i = k
    BY <1>1 DEF IsFile
  <2> HIDE DEF f, s
  <2> QED
    BY <2>1, <2>2 DEF Bijection, Injection, Surjection, IsInjective
<1>4. ExistsBijection(1..n, Ids(file))
  BY <1>3 DEF ExistsBijection
<1>5. IsFiniteSet(1..n) /\ Cardinality(1..n) = n
  BY <1>1, FS_Interval
<1> QED
  BY <1>1, <1>4, <1>5, FS_Bijection

\* What is known of a conversation is finite.
LEMMA KnownIsFinite ==
  ASSUME IdsInv, NEW c \in Conversations
  PROVE  Known(c) \subseteq issued /\ IsFiniteSet(Known(c)) /\ Cardinality(Known(c)) \in Nat
<1>1. Known(c) \subseteq issued
  BY DEF Known, IssuedIn, IdsInv
<1> QED
  BY <1>1, FS_Subset, FS_CardinalityType DEF IdsInv

\* A turn that is put into a file takes the place of the one with its id and of no other.
LEMMA AppendedKeeps ==
  ASSUME NEW file, file # None, IsFile(file), NEW job
  PROVE  LET r == Appended(file, job)
         IN  /\ \A t \in Range(r.turns) : t \in Range(file.turns) \/ (t.id = job.id /\ t.events = job.events)
             /\ \A t \in Range(file.turns) : t \in Range(r.turns) \/ t.id = job.id
<1> DEFINE turnAt(parent) == [id |-> job.id, parent |-> parent, events |-> job.events, delta |-> job.delta]
           s == file.turns
           placed == IF job.id \in Ids(file)
                     THEN [i \in DOMAIN s |-> IF s[i].id = job.id THEN turnAt(s[i].parent) ELSE s[i]]
                     ELSE Append(s, turnAt(file.heads[file.active]))
           r == Appended(file, job)
<1>1. r.turns = placed
  <2>1. r = [[file EXCEPT !.turns = placed] EXCEPT !.heads[file.active] = job.id]
    BY DEF Appended
  <2> HIDE DEF placed, r
  <2> QED
    BY <2>1 DEF IsFile
<1>2. \A parent : turnAt(parent).id = job.id /\ turnAt(parent).events = job.events
  OBVIOUS
<1> HIDE DEF turnAt, r
<1>3. IsList(s) /\ DOMAIN s = 1..Len(s) /\ Len(s) \in Nat
  BY ListFacts DEF IsFile
<1>4. CASE job.id \in Ids(file)
  <2>1. /\ DOMAIN placed = DOMAIN s
        /\ \A k \in DOMAIN s : placed[k] = (IF s[k].id = job.id THEN turnAt(s[k].parent) ELSE s[k])
    BY <1>4
  <2> HIDE DEF placed
  <2> QED
    BY <1>1, <1>2, <2>1 DEF Range, r
<1>5. CASE job.id \notin Ids(file)
  <2> DEFINE n == turnAt(file.heads[file.active])
  <2>1. placed = Append(s, n)
    BY <1>5
  <2> HIDE DEF placed, n
  <2>2. DOMAIN placed = 1..(Len(s) + 1) /\ placed[Len(s) + 1] = n /\ \A k \in DOMAIN s : placed[k] = s[k]
    BY <1>3, <2>1, AppendList
  <2>3. n.id = job.id /\ n.events = job.events
    BY <1>2 DEF n
  <2>4. \A k \in DOMAIN placed : k \in DOMAIN s \/ placed[k] = n
    BY <1>3, <2>2
  <2>5. \A k \in DOMAIN s : k \in DOMAIN placed
    BY <1>3, <2>2
  <2> QED
    BY <1>1, <2>2, <2>3, <2>4, <2>5 DEF Range, r
<1> QED
  BY <1>4, <1>5

\* What a job leaves of the turns of a file.
LEMMA ResultKeeps ==
  ASSUME RecordInv, NEW job \in Jobs, Accepted(job)
  PROVE  LET old == disk[job.conv]
             new == Result(job)
         IN  /\ new # None /\ Ids(old) \subseteq Ids(new)
             /\ \A t \in Stored(new) : t \in Stored(old) \/ (job.what = "turn" /\ t.id = job.id /\ t.events = job.events)
             /\ \A t \in Stored(old) : t \in Stored(new) \/ (job.what = "turn" /\ t.id = job.id)
<1> DEFINE old == disk[job.conv]
           new == Result(job)
<1>1. /\ job.conv \in Conversations /\ job.what \in {"turn", "fork", "switch", "remove"}
      /\ job.what = "turn" => job.events \in Seq(Tokens)
  BY DEF Jobs
<1>2. old # None => IsFile(old) /\ IsGraph(old)
  BY <1>1 DEF RecordInv, StoreOK, Graphs, IsGraph
<1>3. new \in Graphs /\ new # None
  <2>1. new \in Graphs
    BY ResultType DEF RecordInv, StoreOK
  <2> QED
    BY <2>1, NoneAssumption DEF Graphs
<1>4. CASE job.what = "turn" /\ old = None
  <2>1. new = Created(job)
    BY <1>4 DEF Result
  <2>2. \E n : n.events = job.events /\ n.id = job.id /\ Range(Created(job).turns) = {n}
    BY <1>1, <1>4, NewFile
  <2> HIDE DEF old, new
  <2>3. Stored(old) = {} /\ Ids(old) = {}
    BY <1>4 DEF Stored, Ids
  <2> QED
    BY <1>3, <1>4, <2>1, <2>2, <2>3 DEF Stored, old, new
<1>5. CASE job.what = "turn" /\ old # None
  <2>1. new = Appended(old, job)
    BY <1>5 DEF Result
  <2>2. /\ \A t \in Range(Appended(old, job).turns) : t \in Range(old.turns) \/ (t.id = job.id /\ t.events = job.events)
        /\ \A t \in Range(old.turns) : t \in Range(Appended(old, job).turns) \/ t.id = job.id
    BY <1>2, <1>5, AppendedKeeps
  <2>3. \A k \in DOMAIN old.turns : k \in DOMAIN Appended(old, job).turns
                                    /\ Appended(old, job).turns[k].id = old.turns[k].id
    BY <1>1, <1>2, <1>5, FileWithTurn
  <2> HIDE DEF old, new
  <2>4. Stored(old) = Range(old.turns) /\ Stored(new) = Range(new.turns)
    BY <1>3, <1>5 DEF Stored
  <2>5. Ids(old) \subseteq Ids(new)
    <3>1. \A t \in Range(old.turns) : \E u \in Range(new.turns) : u.id = t.id
      BY <2>1, <2>3 DEF Range
    <3> QED
      BY <2>4, <3>1 DEF Ids
  <2> QED
    BY <1>3, <1>5, <2>1, <2>2, <2>4, <2>5 DEF old, new
<1>6. CASE job.what # "turn"
  <2>1. old # None
    BY <1>6 DEF Accepted
  <2>2. PICK file, branch, from : file = old /\ branch = job.branch /\ (job.what = "fork" => from = job.from)
    OBVIOUS
  <2> HIDE DEF old, new
  <2>3. IsFile(file)
    BY <1>2, <2>1, <2>2
  <2>4. /\ IsFile(Forked(file, branch, from)) /\ Forked(file, branch, from).turns = file.turns
        /\ IsFile(Removed(file, branch)) /\ Removed(file, branch).turns = file.turns
        /\ IsFile([file EXCEPT !.active = branch]) /\ [file EXCEPT !.active = branch].turns = file.turns
    BY <2>3, TurnsStay
  <2>5. new \in {Forked(file, branch, from), Removed(file, branch), [file EXCEPT !.active = branch]}
    BY <1>1, <1>6, <2>2 DEF Result, old, new
  <2>6. new.turns = old.turns
    BY <2>2, <2>4, <2>5
  <2>7. Stored(new) = Stored(old) /\ Ids(new) = Ids(old)
    BY <1>3, <2>1, <2>6 DEF Stored, Ids
  <2> QED
    BY <1>3, <2>7 DEF old, new
<1> QED
  BY <1>1, <1>4, <1>5, <1>6

-----------------------------------------------------------------------------
(* What a step does with the turn and the save: they stay, or the turn     *)
(* ends and is what is saved.                                              *)

From(t, s) == t # None => s # None /\ t.e = s.e /\ t.id = s.id
Held == From(turn', turn) /\ From(saving', saving)
Over == turn' = None /\ From(saving', turn)

\* The turns in the queue are those that were there, at the same places.
JobsStay == \A i \in DOMAIN jobs' : jobs'[i].what = "turn" => i \in DOMAIN jobs /\ jobs'[i] = jobs[i]

\* The session is there: the turn goes on or ends.
LEMMA ReadyHands ==
  ASSUME RecordInv, turn # None, NEW s, Ready(s) PROVE Held \/ Over
<1>1. turn \in Turns
  BY DEF RecordInv, WorkOK
<1>2. CASE Ended(turn.events)
  BY <1>1, <1>2 DEF Ended, Over, From
<1>3. CASE UNCHANGED saving /\ \E start : turn' = [turn EXCEPT !.stage = "talking", !.start = start, !.attached = TRUE, !.carried = <<>>]
  BY <1>1, <1>3 DEF Held, From, Turns
<1> QED
  BY <1>2, <1>3 DEF Ready

\* Every step but a question and the save.
LEMMA StepHands ==
  ASSUME RecordInv, [Next]_vars, ~Send, ~AnswerFromRecord, ~Persist PROVE Held \/ Over
<1>1. turn # None => turn \in Turns
  BY DEF RecordInv, WorkOK
<1>2. turn' = turn \/ turn' = Detached(turn) => From(turn', turn)
  BY <1>1 DEF From, Detached, Turns
<1>3. CASE Moving \/ Adopt
  <2>1. UNCHANGED saving /\ (turn' = turn \/ turn' = Detached(turn))
    BY <1>3 DEF Moving, Open, NewConversation, Rekey, DeleteConversation, ChangeBranch, Adopt
  <2> QED
    BY <1>2, <2>1 DEF Held, From
<1>4. CASE Read \/ Write \/ UNCHANGED vars
  BY <1>4 DEF Read, Write, vars, Held, From
<1>5. CASE Route
  <2>1. PICK said : /\ turn # None /\ UNCHANGED saving
                    /\ turn' = [turn EXCEPT !.stage = "resolving", !.events = @ \o said, !.contract = said # <<>>]
    BY <1>5 DEF Route
  <2> QED
    BY <1>1, <2>1 DEF Held, From, Turns
<1>6. CASE Rebuild
  BY <1>1, <1>6 DEF Rebuild, Held, From, Turns
<1>7. CASE Refuse \/ OpenFails \/ Talk
  <2>1. \E events : turn # None /\ Ended(events)
    BY <1>7 DEF Refuse, OpenFails, Talk
  <2> QED
    BY <2>1 DEF Ended, Over, From
<1>8. CASE Reuse \/ OpenDone
  BY <1>8, ReadyHands DEF Reuse, OpenDone
<1> QED
  BY <1>3, <1>4, <1>5, <1>6, <1>7, <1>8 DEF Next, Working

-----------------------------------------------------------------------------
(* The parts of the invariant when nothing is asked, queued or written.    *)

LEMMA IdsStay ==
  ASSUME IdsInv, Held \/ Over, JobsStay, UNCHANGED issued,
         \A c \in Conversations : Ids(disk'[c]) \subseteq Ids(disk[c]),
         conversationId' = None => turnOrdinal' = 0,
         Loaded' # None => Ids(Loaded') \subseteq Ids(disk'[load'.conv])
  PROVE  IdsInv'
<1>1. (turn' # None => turn'.id \in issued) /\ (saving' # None => saving'.id \in issued)
  BY DEF IdsInv, Held, Over, From
<1>2. \A i \in DOMAIN jobs' : jobs'[i].what = "turn" => jobs'[i].id \in issued
  BY DEF IdsInv, JobsStay
<1>3. \A c \in Conversations : Ids(disk'[c]) \subseteq issued
  BY DEF IdsInv
<1> QED
  BY <1>1, <1>2, <1>3 DEF IdsInv

LEMMA StrayStays ==
  ASSUME StrayInv, Held \/ Over, JobsStay, moved \subseteq moved',
         \A c \in Conversations : Stored(disk'[c]) \subseteq Stored(disk[c]),
         \/ UNCHANGED <<conversationId, pendingEvents>>
         \/ pendingEvents' = <<>> /\ Left \subseteq moved'
  PROVE  StrayInv'
<1>1. CASE UNCHANGED <<conversationId, pendingEvents>>
  <2>1. Waiting' = Waiting /\ (turn' # None => InSaving' \subseteq InSaving)
    BY <1>1 DEF Waiting, InSaving, Held, Over, From
  <2>2. turn' # None /\ turn'.id[1] # conversationId => {turn'.e} \cup InSaving' \cup Waiting' \subseteq moved'
    BY <1>1, <2>1 DEF StrayInv, Held, Over, From
  <2>3. saving' # None /\ saving'.id[1] # conversationId => {saving'.e} \cup Waiting' \subseteq moved'
    <3>1. CASE Held
      BY <1>1, <2>1, <3>1 DEF StrayInv, Held, From
    <3>2. CASE Over
      BY <1>1, <2>1, <3>2 DEF StrayInv, Over, From
    <3> QED
      BY <3>1, <3>2
  <2>4. \A i \in DOMAIN jobs' : jobs'[i].what = "turn" /\ jobs'[i].id[1] # jobs'[i].conv => Queued(i)' \subseteq moved'
    BY DEF StrayInv, JobsStay, Queued
  <2>5. \A c \in Conversations : \A t \in Stored(disk'[c]) : t.id[1] # c => Exchanges(t.events) \subseteq moved'
    BY DEF StrayInv
  <2> QED
    BY <1>1, <2>2, <2>3, <2>4, <2>5 DEF StrayInv
<1>2. CASE pendingEvents' = <<>> /\ Left \subseteq moved'
  <2>1. Waiting' = {}
    BY <1>2, ExchangesOfNone DEF Waiting
  <2>2. InTurn' \cup InSaving' \subseteq moved'
    BY <1>2 DEF Left, InTurn, InSaving, Held, Over, From
  <2>3. \A i \in DOMAIN jobs' : jobs'[i].what = "turn" /\ jobs'[i].id[1] # jobs'[i].conv => Queued(i)' \subseteq moved'
    BY DEF StrayInv, JobsStay, Queued
  <2>4. \A c \in Conversations : \A t \in Stored(disk'[c]) : t.id[1] # c => Exchanges(t.events) \subseteq moved'
    BY DEF StrayInv
  <2> QED
    BY <2>1, <2>2, <2>3, <2>4 DEF StrayInv, InTurn, InSaving
<1> QED
  BY <1>1, <1>2

LEMMA OnceStays ==
  ASSUME OnceInv, Held \/ Over, JobsStay, skipped \subseteq skipped',
         \A c \in Conversations : Ids(disk'[c]) \subseteq Ids(disk[c])
  PROVE  OnceInv'
<1> SUFFICES ASSUME NEW c \in Conversations \ skipped'
             PROVE  /\ \A i \in Ahead(c)' : jobs'[i].id \notin Ids(disk'[c])
                    /\ \A i, k \in Ahead(c)' : jobs'[i].id = jobs'[k].id => i = k
                    /\ \A hand \in {turn', saving'} : hand # None /\ hand.id[1] = c =>
                           hand.id \notin Ids(disk'[c]) /\ \A i \in Ahead(c)' : jobs'[i].id # hand.id
                    /\ turn' # None /\ saving' # None /\ turn'.id[1] = c => turn'.id # saving'.id
  BY DEF OnceInv
<1>1. c \in Conversations \ skipped /\ Ids(disk'[c]) \subseteq Ids(disk[c])
  OBVIOUS
<1>2. \A i \in Ahead(c)' : i \in Ahead(c) /\ jobs'[i] = jobs[i]
  BY DEF Ahead, JobsStay
<1>3. \A i \in Ahead(c) : jobs[i].id \notin Ids(disk[c])
  BY <1>1 DEF OnceInv
<1>4. \A i, k \in Ahead(c) : jobs[i].id = jobs[k].id => i = k
  BY <1>1 DEF OnceInv
<1>5. \A hand \in {turn, saving} : hand # None /\ hand.id[1] = c =>
          hand.id \notin Ids(disk[c]) /\ \A i \in Ahead(c) : jobs[i].id # hand.id
  BY <1>1 DEF OnceInv
<1>6. \A hand \in {turn', saving'} : hand # None => \E was \in {turn, saving} : was # None /\ hand.id = was.id
  BY DEF Held, Over, From
<1>7. turn' # None /\ saving' # None /\ turn'.id[1] = c => turn'.id # saving'.id
  BY <1>1 DEF OnceInv, Held, Over, From
<1>8. \A hand \in {turn', saving'} : hand # None /\ hand.id[1] = c =>
          hand.id \notin Ids(disk'[c]) /\ \A i \in Ahead(c)' : jobs'[i].id # hand.id
  BY <1>1, <1>2, <1>5, <1>6
<1> QED
  BY <1>1, <1>2, <1>3, <1>4, <1>7, <1>8

\* What is known of the conversations nobody wrote to.
LEMMA KnownStays ==
  ASSUME NEW c, disk'[c] = disk[c], UNCHANGED issued
  PROVE  IssuedIn(c)' = IssuedIn(c) /\ Known(c)' = Known(c)
BY DEF IssuedIn, Known

-----------------------------------------------------------------------------
(* The steps that keep the ordinals. *)

\* The stages of a turn.
LEMMA KeptStages ==
  ASSUME KeptInv, Held \/ Over,
         UNCHANGED <<conversationId, turnOrdinal, pendingEvents, jobs, disk, load, issued, moved, skipped>>
  PROVE  KeptInv'
<1>1. JobsStay
  BY DEF JobsStay
<1>2. Loaded' = Loaded /\ \A c : IssuedIn(c)' = IssuedIn(c) /\ Known(c)' = Known(c) /\ (Alive(c)' <=> Alive(c))
  BY DEF Loaded, IssuedIn, Known, Alive
<1>3. IdsInv'
  BY <1>1, <1>2, IdsStay DEF KeptInv, IdsInv
<1>4. StrayInv' /\ OnceInv'
  BY <1>1, StrayStays, OnceStays DEF KeptInv
<1>5. NextInv' /\ RoomInv'
  BY <1>2 DEF KeptInv, NextInv, RoomInv
<1>6. ReadInFullInv'
  BY <1>2 DEF KeptInv, ReadInFullInv
<1> QED
  BY <1>3, <1>4, <1>5, <1>6 DEF KeptInv

\* A file that holds all that was handed out is longer than any ordinal of it.
LEMMA LongEnough ==
  ASSUME RecordInv, IdsInv, RoomInv, NEW c \in Conversations \ skipped, disk[c] # None,
         IssuedIn(c) \subseteq Ids(disk[c])
  PROVE  \A id \in IssuedIn(c) : id[2] < NextOrdinal(disk[c])
<1>1. IsFile(disk[c])
  BY DEF RecordInv, StoreOK, Graphs, IsGraph
<1>2. Known(c) = Ids(disk[c]) /\ Alive(c)
  BY DEF Known, Alive
<1> QED
  BY <1>1, <1>2, FileCounts DEF RoomInv

\* A conversation is read, or a branch of it is to be made, left or removed.
LEMMA KeptLook ==
  ASSUME RecordInv, KeptInv, Open \/ Read \/ ChangeBranch
  PROVE  KeptInv'
<1>1. UNCHANGED <<disk, turn, saving, conversationId, turnOrdinal, pendingEvents, issued, moved, skipped>>
  BY DEF Open, Read, ChangeBranch, host, history
<1>2. Held
  BY <1>1 DEF Held, From
<1>3. \/ JobsStay /\ \E c \in Conversations : load' = None \/ (load'.conv = c /\ load'.file = disk[c])
      \/ load' = load
  <2>1. CASE Open
    BY <2>1 DEF Open, JobsStay
  <2>2. CASE Read
    BY <2>2 DEF Read, JobsStay, RecordInv, StoreOK
  <2>3. CASE ChangeBranch
    BY <2>3 DEF ChangeBranch
  <2> QED
    BY <2>1, <2>2, <2>3
<1>4. JobsStay /\ \A i \in DOMAIN jobs' : (i \in DOMAIN jobs /\ jobs'[i] = jobs[i]) \/ (jobs'[i].conv = conversationId /\ disk[conversationId] # None)
  <2>1. CASE Open \/ Read
    BY <2>1 DEF Open, Read, JobsStay
  <2>2. CASE ChangeBranch
    <3>1. PICK job : job.what # "turn" /\ job.conv = conversationId /\ jobs' = Append(jobs, job)
      <4>1. CASE \E b \in Branches, id \in Ids(disk[conversationId]) :
                   jobs' = Append(jobs, [what |-> "fork", conv |-> conversationId, branch |-> b, from |-> id])
        BY <4>1
      <4>2. CASE \E b \in {Main} \cup Branches :
                   jobs' = Append(jobs, [what |-> "switch", conv |-> conversationId, branch |-> b])
        BY <4>2
      <4>3. CASE \E b \in Branches : jobs' = Append(jobs, [what |-> "remove", conv |-> conversationId, branch |-> b])
        BY <4>3
      <4> QED
        BY <2>2, <4>1, <4>2, <4>3 DEF ChangeBranch
    <3>2. IsList(jobs) /\ DOMAIN jobs = 1..Len(jobs) /\ Len(jobs) \in Nat
      BY ListFacts, SeqOfRange DEF RecordInv, StoreOK, IsList
    <3>3. DOMAIN jobs' = 1..(Len(jobs) + 1) /\ jobs'[Len(jobs) + 1] = job /\ \A i \in DOMAIN jobs : jobs'[i] = jobs[i]
      BY <3>1, <3>2, AppendList
    <3>4. \A i \in DOMAIN jobs' : i \in DOMAIN jobs \/ i = Len(jobs) + 1
      BY <3>2, <3>3
    <3> QED
      BY <2>2, <3>1, <3>3, <3>4 DEF ChangeBranch, JobsStay
  <2> QED
    BY <2>1, <2>2
<1>5. \A c : IssuedIn(c)' = IssuedIn(c) /\ Known(c)' = Known(c)
  BY <1>1, KnownStays
<1>6. Loaded' # None => Ids(Loaded') \subseteq Ids(disk'[load'.conv])
  BY <1>1, <1>3 DEF Loaded, KeptInv, IdsInv
<1>7. IdsInv'
  BY <1>1, <1>2, <1>4, <1>6, IdsStay DEF KeptInv, IdsInv
<1>8. StrayInv' /\ OnceInv'
  BY <1>1, <1>2, <1>4, StrayStays, OnceStays DEF KeptInv
<1>9. NextInv'
  BY <1>1, <1>5 DEF KeptInv, NextInv
<1>10. RoomInv'
  <2>1. \A c \in Conversations : Alive(c)' => Alive(c)
    BY <1>1, <1>4 DEF Alive
  <2> QED
    BY <1>1, <1>5, <2>1 DEF KeptInv, RoomInv
<1>11. ReadInFullInv'
  <2>1. CASE load' = load
    BY <1>1, <1>5, <2>1 DEF KeptInv, ReadInFullInv, Loaded
  <2>2. ASSUME NEW c \in Conversations, load' # None, load'.conv = c, load'.file = disk[c] PROVE ReadInFullInv'
    BY <1>1, <1>5, <2>2, LongEnough DEF KeptInv, ReadInFullInv, Loaded
  <2>3. CASE load' = None
    BY <2>3 DEF ReadInFullInv, Loaded
  <2> QED
    BY <1>3, <2>1, <2>2, <2>3
<1> QED
  BY <1>7, <1>8, <1>9, <1>10, <1>11 DEF KeptInv

\* A conversation is adopted: its file is as long as it was, or longer, and so is what it handed out.
LEMMA KeptAdopt ==
  ASSUME RecordInv, KeptInv, Adopt
  PROVE  KeptInv'
<1> DEFINE d == load.conv
           file == load.file
<1>1. /\ load # None /\ file # None /\ file \in Graphs /\ d \in Conversations /\ Loaded = file
      /\ conversationId' = d /\ turnOrdinal' = NextOrdinal(file) /\ load' = None
      /\ UNCHANGED <<disk, jobs, saving, issued>>
  BY DEF Adopt, RecordInv, StoreOK, Loaded
<1>2. /\ IssuedIn(d) \subseteq Ids(file) \/ d \in skipped'
      /\ skipped \subseteq skipped'
  BY DEF Adopt, IssuedIn
<1>3. Held \/ Over
  BY StepHands DEF Adopt, Next, Working, Send, AnswerFromRecord, Claim, Persist
<1>4. JobsStay /\ Loaded' = None
  BY <1>1 DEF JobsStay, Loaded
<1>5. \A c : IssuedIn(c)' = IssuedIn(c) /\ Known(c)' = Known(c) /\ (Alive(c)' <=> Alive(c))
  BY <1>1 DEF IssuedIn, Known, Alive
<1>6. conversationId' # None
  BY <1>1, NoneAssumption
<1>7. IdsInv'
  BY <1>1, <1>3, <1>4, <1>6, IdsStay DEF KeptInv
<1>8. StrayInv'
  <2>1. moved \subseteq moved' /\ pendingEvents' = <<>> /\ Left \subseteq moved'
    BY DEF Adopt, Leaving
  <2> QED
    BY <1>1, <1>3, <1>4, <2>1, StrayStays DEF KeptInv
<1>9. OnceInv'
  BY <1>1, <1>2, <1>3, <1>4, OnceStays DEF KeptInv
<1>10. RoomInv'
  BY <1>2, <1>5 DEF KeptInv, RoomInv
<1>11. ReadInFullInv'
  BY <1>4 DEF ReadInFullInv
<1>12. NextInv'
  <2> SUFFICES ASSUME d \notin skipped'
               PROVE  /\ \A id \in IssuedIn(d) : id[2] < NextOrdinal(file)
                      /\ NextOrdinal(file) <= Cardinality(Known(d))
    BY <1>1, <1>5 DEF NextInv
  <2>1. \A id \in IssuedIn(d) : id[2] < NextOrdinal(file)
    BY <1>1, <1>2 DEF KeptInv, ReadInFullInv
  <2>2. IsFile(file) /\ Ids(file) \subseteq Known(d)
    BY <1>1 DEF Graphs, IsGraph, KeptInv, IdsInv, Known
  <2>3. IsFiniteSet(Known(d)) /\ Cardinality(Known(d)) \in Nat
    BY <1>1, KnownIsFinite DEF KeptInv
  <2>4. NextOrdinal(file) = Cardinality(Ids(file))
    BY <1>1, <2>2, FileCounts
  <2>5. Cardinality(Ids(file)) <= Cardinality(Known(d))
    BY <2>2, <2>3, FS_Subset
  <2> QED
    BY <2>1, <2>4, <2>5
<1> QED
  BY <1>7, <1>8, <1>9, <1>10, <1>11, <1>12 DEF KeptInv

\* The host is in no conversation any more, or a conversation it is not in is deleted.
LEMMA KeptCleared ==
  ASSUME RecordInv, KeptInv, NewConversation \/ Rekey \/ DeleteConversation
  PROVE  KeptInv'
<1>1. load = None /\ UNCHANGED <<jobs, saving, load, issued>> /\ skipped \subseteq skipped'
  BY DEF NewConversation, Rekey, DeleteConversation, CanMove
<1>2. Held
  <2>1. UNCHANGED saving /\ (turn' = turn \/ turn' = Detached(turn))
    BY DEF NewConversation, Rekey, DeleteConversation
  <2>2. turn # None => turn \in Turns
    BY DEF RecordInv, WorkOK
  <2> QED
    BY <2>1, <2>2 DEF Held, From, Detached, Turns
<1>3. JobsStay /\ Loaded' = None
  BY <1>1 DEF JobsStay, Loaded
<1>4. \A c \in Conversations : disk'[c] = disk[c] \/ (disk'[c] = None /\ (c \in skipped' \/ \A i \in DOMAIN jobs : jobs[i].conv # c))
  <2>1. CASE NewConversation \/ Rekey
    BY <2>1 DEF NewConversation, Rekey
  <2>2. CASE DeleteConversation
    <3>1. PICK c \in Conversations :
             /\ disk' = [disk EXCEPT ![c] = None]
             /\ skipped' = IF \E j \in Range(jobs) : j.conv = c THEN skipped \cup {c} ELSE skipped
      BY <2>2 DEF DeleteConversation
    <3>2. \A i \in DOMAIN jobs : jobs[i] \in Range(jobs)
      BY DEF Range
    <3> QED
      BY <3>1, <3>2 DEF RecordInv, StoreOK
  <2> QED
    BY <2>1, <2>2
<1>5. \/ Cleared
      \/ UNCHANGED <<conversationId, turnOrdinal, pendingEvents, moved>> /\ disk'[conversationId] = disk[conversationId]
  <2>1. CASE DeleteConversation /\ ~Cleared
    <3>1. PICK c \in Conversations :
             disk' = [disk EXCEPT ![c] = None] /\ conversationId # c /\ UNCHANGED <<host, moved>>
      BY <2>1 DEF DeleteConversation
    <3> QED
      BY <3>1 DEF host, RecordInv, StoreOK
  <2> QED
    BY <2>1 DEF NewConversation, Rekey
<1>6. \A c \in Conversations : Stored(disk'[c]) \subseteq Stored(disk[c]) /\ Ids(disk'[c]) \subseteq Ids(disk[c])
  <2>1. Stored(None) = {} /\ Ids(None) = {}
    BY DEF Stored, Ids
  <2> QED
    BY <1>4, <2>1
<1>7. conversationId' = None => turnOrdinal' = 0
  BY <1>5 DEF Cleared, KeptInv, IdsInv
<1>8. IdsInv'
  BY <1>1, <1>2, <1>3, <1>6, <1>7, IdsStay DEF KeptInv
<1>9. StrayInv'
  <2>1. CASE Cleared
    <3>1. moved \subseteq moved' /\ pendingEvents' = <<>> /\ Left \subseteq moved'
      BY <2>1 DEF Cleared, Leaving
    <3> QED
      BY <1>2, <1>3, <1>6, <3>1, StrayStays DEF KeptInv
  <2>2. CASE UNCHANGED <<conversationId, pendingEvents, moved>>
    BY <1>2, <1>3, <1>6, <2>2, StrayStays DEF KeptInv
  <2> QED
    BY <1>5, <2>1, <2>2
<1>10. OnceInv'
  BY <1>1, <1>2, <1>3, <1>6, OnceStays DEF KeptInv
<1>11. NextInv'
  <2>1. CASE Cleared
    BY <2>1 DEF Cleared, NextInv
  <2>2. CASE UNCHANGED <<conversationId, turnOrdinal>> /\ disk'[conversationId] = disk[conversationId]
    <3>1. IssuedIn(conversationId)' = IssuedIn(conversationId) /\ Known(conversationId)' = Known(conversationId)
      BY <1>1, <2>2 DEF IssuedIn, Known
    <3> QED
      BY <1>1, <2>2, <3>1 DEF KeptInv, NextInv
  <2> QED
    BY <1>5, <2>1, <2>2
<1>12. RoomInv'
  <2> SUFFICES ASSUME NEW c \in Conversations \ skipped', Alive(c)'
               PROVE  \A id \in IssuedIn(c)' : id[2] < Cardinality(Known(c)')
    BY DEF RoomInv
  <2>1. disk'[c] = disk[c]
    BY <1>1, <1>4 DEF Alive
  <2>2. IssuedIn(c)' = IssuedIn(c) /\ Known(c)' = Known(c) /\ Alive(c)
    BY <1>1, <2>1 DEF IssuedIn, Known, Alive
  <2> QED
    BY <1>1, <2>2 DEF KeptInv, RoomInv
<1>13. ReadInFullInv'
  BY <1>3 DEF ReadInFullInv
<1> QED
  BY <1>8, <1>9, <1>10, <1>11, <1>12, <1>13 DEF KeptInv

\* The id that is claimed is new, unless the conversation skipped one, and there is room for it.
LEMMA ClaimIsNew ==
  ASSUME RecordInv, KeptInv, Claim
  PROVE  /\ Opened \in Conversations /\ conversationId' = Opened /\ turnOrdinal' = turnOrdinal + 1
         /\ turnOrdinal \in Nat /\ issued' = issued \cup {<<Opened, turnOrdinal>>}
         /\ conversationId # None => Opened = conversationId
         /\ conversationId = None => \A id \in issued : id[1] # Opened
         /\ Opened \notin skipped => /\ \A id \in IssuedIn(Opened) : id[2] < turnOrdinal
                                     /\ turnOrdinal <= Cardinality(Known(Opened))
                                     /\ <<Opened, turnOrdinal>> \notin issued
<1>1. Opened \in Conversations /\ turnOrdinal \in Nat
  BY OpenedType DEF RecordInv, HostOK, Claim
<1>2. ASSUME conversationId = None PROVE (\A id \in issued : id[1] # Opened) /\ turnOrdinal = 0
  <2>1. Fresh \in Unused
    BY <1>2 DEF Claim, Fresh
  <2> QED
    BY <1>2, <2>1 DEF Opened, Unused, KeptInv, IdsInv
<1>3. conversationId # None => Opened = conversationId
  BY DEF Opened
<1>4. ASSUME Opened \notin skipped
      PROVE  (\A id \in IssuedIn(Opened) : id[2] < turnOrdinal) /\ turnOrdinal <= Cardinality(Known(Opened))
  <2>1. CASE conversationId = None
    <3>1. IssuedIn(Opened) = {} /\ turnOrdinal = 0
      BY <1>2, <2>1 DEF IssuedIn
    <3>2. Cardinality(Known(Opened)) \in Nat
      BY <1>1, KnownIsFinite DEF KeptInv
    <3> QED
      BY <3>1, <3>2
  <2>2. CASE conversationId # None
    BY <1>3, <1>4, <2>2 DEF KeptInv, NextInv
  <2> QED
    BY <2>1, <2>2
<1>5. ASSUME Opened \notin skipped PROVE <<Opened, turnOrdinal>> \notin issued
  <2>1. ~(turnOrdinal < turnOrdinal)
    BY <1>1
  <2> QED
    BY <1>4, <1>5, <2>1 DEF IssuedIn
<1> QED
  BY <1>1, <1>2, <1>3, <1>4, <1>5 DEF Claim

\* A question: its id goes to the turn, or to the save at once.
LEMMA KeptAsk ==
  ASSUME RecordInv, KeptInv, Send \/ AnswerFromRecord
  PROVE  KeptInv'
<1>1. PICK d, n, new : d = Opened /\ n = turnOrdinal /\ new = <<d, n>>
  OBVIOUS
<1>2. /\ d \in Conversations /\ conversationId' = d /\ turnOrdinal' = n + 1 /\ n \in Nat
      /\ issued' = issued \cup {new} /\ new[1] = d /\ new[2] = n
      /\ conversationId # None => d = conversationId
      /\ conversationId = None => \A id \in issued : id[1] # d
      /\ d \notin skipped => /\ \A id \in IssuedIn(d) : id[2] < n
                             /\ n <= Cardinality(Known(d))
                             /\ new \notin issued
  <2>1. Claim
    BY DEF Send, AnswerFromRecord
  <2> QED
    BY <1>1, <2>1, ClaimIsNew
<1>3. /\ UNCHANGED <<disk, jobs, pendingEvents, load, moved, skipped>>
      /\ turn = None
      /\ \/ turn' # None => turn'.id = new
         \/ turn' = None
      /\ \/ UNCHANGED saving
         \/ saving = None /\ turn' = None /\ saving'.id = new
  BY <1>1 DEF Send, AnswerFromRecord, Claim
<1>4. conversationId' # None /\ turnOrdinal' \in Nat
  BY <1>2, NoneAssumption
<1>5. \A c : IssuedIn(c)' = (IF c = d THEN IssuedIn(c) \cup {new} ELSE IssuedIn(c))
  BY <1>2 DEF IssuedIn
<1>6. \A c : /\ c # d => Known(c)' = Known(c)
             /\ Known(d)' = Known(d) \cup {new} /\ (Alive(c)' <=> Alive(c)) /\ Loaded' = Loaded
  BY <1>3, <1>5 DEF Known, Alive, Loaded
<1>7. IsFiniteSet(issued)
  BY DEF KeptInv, IdsInv
<1>8. IsFiniteSet(issued')
  BY <1>2, <1>7, FS_AddElement
<1>9. IdsInv'
  <2>1. (turn' # None => turn'.id \in issued') /\ (saving' # None => saving'.id \in issued')
    BY <1>2, <1>3 DEF KeptInv, IdsInv
  <2>2. \A i \in DOMAIN jobs' : jobs'[i].what = "turn" => jobs'[i].id \in issued'
    BY <1>2, <1>3 DEF KeptInv, IdsInv
  <2>3. \A c \in Conversations : Ids(disk'[c]) \subseteq issued'
    BY <1>2, <1>3 DEF KeptInv, IdsInv
  <2>4. Loaded' # None => Ids(Loaded') \subseteq Ids(disk'[load'.conv])
    BY <1>3, <1>6 DEF KeptInv, IdsInv
  <2> QED
    BY <1>4, <1>8, <2>1, <2>2, <2>3, <2>4 DEF IdsInv
<1>10. StrayInv'
  <2>1. Waiting' = Waiting /\ \A i : Queued(i)' = Queued(i)
    BY <1>3 DEF Waiting, Queued
  <2>2. turn' # None => turn'.id[1] = conversationId'
    BY <1>2, <1>3
  <2>3. ASSUME saving' # None, saving'.id[1] # conversationId'
        PROVE  {saving'.e} \cup Waiting' \subseteq moved'
    <3>1. UNCHANGED saving
      BY <1>2, <1>3, <2>3
    <3>2. saving.id[1] # conversationId
      <4>1. saving.id[1] \in Conversations
        BY <2>3, <3>1 DEF RecordInv, WorkOK, Saves, TurnIds
      <4> QED
        BY <1>2, <2>3, <3>1, <4>1, NoneAssumption
    <3> QED
      BY <1>3, <2>1, <2>3, <3>1, <3>2 DEF KeptInv, StrayInv
  <2>4. \A i \in DOMAIN jobs' : jobs'[i].what = "turn" /\ jobs'[i].id[1] # jobs'[i].conv => Queued(i)' \subseteq moved'
    BY <1>3, <2>1 DEF KeptInv, StrayInv
  <2>5. \A c \in Conversations : \A t \in Stored(disk'[c]) : t.id[1] # c => Exchanges(t.events) \subseteq moved'
    BY <1>3 DEF KeptInv, StrayInv
  <2> QED
    BY <2>2, <2>3, <2>4, <2>5 DEF StrayInv
<1>11. ASSUME d \notin skipped PROVE Cardinality(Known(d)') = Cardinality(Known(d)) + 1 /\ Cardinality(Known(d)) \in Nat
  <2>1. Known(d) \subseteq issued /\ IsFiniteSet(Known(d)) /\ Cardinality(Known(d)) \in Nat
    BY <1>2, KnownIsFinite DEF KeptInv
  <2>2. new \notin Known(d)
    BY <1>2, <1>11, <2>1
  <2>3. Cardinality(Known(d) \cup {new}) = Cardinality(Known(d)) + 1
    BY <2>1, <2>2, FS_AddElement
  <2> QED
    BY <1>6, <2>1, <2>3
<1>12. ASSUME d \notin skipped PROVE \A id \in IssuedIn(d)' : id[2] < n + 1
  <2>1. \A id \in IssuedIn(d) : id[2] \in Nat
    BY DEF IssuedIn, RecordInv, PastOK, TurnIds
  <2> QED
    BY <1>2, <1>5, <1>12, <2>1
<1>13. NextInv'
  BY <1>2, <1>3, <1>11, <1>12 DEF NextInv
<1>14. RoomInv'
  <2> SUFFICES ASSUME NEW c \in Conversations \ skipped, Alive(c)'
               PROVE  \A id \in IssuedIn(c)' : id[2] < Cardinality(Known(c)')
    BY <1>3 DEF RoomInv
  <2>1. CASE c # d
    BY <1>5, <1>6, <2>1 DEF KeptInv, RoomInv
  <2>2. CASE c = d
    <3>1. n + 1 <= Cardinality(Known(d)') /\ Cardinality(Known(d)') \in Nat
      BY <1>2, <1>11, <2>2
    <3>2. \A id \in IssuedIn(d)' : id[2] \in Nat /\ id[2] < n + 1
      BY <1>2, <1>5, <1>12, <2>2 DEF IssuedIn, RecordInv, PastOK, TurnIds
    <3> QED
      BY <1>2, <2>2, <3>1, <3>2
  <2> QED
    BY <2>1, <2>2
<1>15. ReadInFullInv'
  <2> SUFFICES ASSUME NEW c, c = load.conv, Loaded # None, c \notin skipped, IssuedIn(c)' \subseteq Ids(Loaded)
               PROVE  \A id \in IssuedIn(c)' : id[2] < NextOrdinal(Loaded)
    BY <1>3, <1>6 DEF ReadInFullInv
  <2>1. c \in Conversations
    BY DEF Loaded, RecordInv, StoreOK
  <2>2. Ids(Loaded) \subseteq issued
    BY <2>1 DEF KeptInv, IdsInv
  <2>3. c # d
    <3>1. new \in IssuedIn(d)'
      BY <1>5
    <3> QED
      BY <1>2, <2>2, <3>1
  <2>4. IssuedIn(c)' = IssuedIn(c)
    BY <1>5, <2>3
  <2> QED
    BY <2>4 DEF KeptInv, ReadInFullInv
<1>16. OnceInv'
  <2> SUFFICES ASSUME NEW c \in Conversations \ skipped
               PROVE  /\ \A i \in Ahead(c)' : jobs'[i].id \notin Ids(disk'[c])
                      /\ \A i, k \in Ahead(c)' : jobs'[i].id = jobs'[k].id => i = k
                      /\ \A hand \in {turn', saving'} : hand # None /\ hand.id[1] = c =>
                             hand.id \notin Ids(disk'[c]) /\ \A i \in Ahead(c)' : jobs'[i].id # hand.id
                      /\ turn' # None /\ saving' # None /\ turn'.id[1] = c => turn'.id # saving'.id
    BY <1>3 DEF OnceInv
  <2>1. Ahead(c)' = Ahead(c)
    BY <1>3 DEF Ahead
  <2>2. /\ \A i \in Ahead(c) : jobs[i].id \notin Ids(disk[c])
        /\ \A i, k \in Ahead(c) : jobs[i].id = jobs[k].id => i = k
        /\ saving # None /\ saving.id[1] = c =>
               saving.id \notin Ids(disk[c]) /\ \A i \in Ahead(c) : jobs[i].id # saving.id
    BY DEF KeptInv, OnceInv
  <2>3. /\ Ids(disk[c]) \subseteq issued /\ \A i \in Ahead(c) : jobs[i].id \in issued
        /\ saving # None => saving.id \in issued
    BY DEF KeptInv, IdsInv, Ahead
  <2>4. c = d => new \notin issued
    BY <1>2
  <2>5. \A hand \in {turn', saving'} : hand # None /\ hand.id[1] = c =>
            \/ hand.id = new /\ new \notin issued
            \/ hand = saving /\ saving # None
    BY <1>2, <1>3, <2>4
  <2>6. \A hand \in {turn', saving'} : hand # None /\ hand.id[1] = c =>
            hand.id \notin Ids(disk[c]) /\ \A i \in Ahead(c) : jobs[i].id # hand.id
    BY <2>2, <2>3, <2>5
  <2>7. turn' # None /\ saving' # None /\ turn'.id[1] = c => turn'.id # saving'.id
    BY <1>2, <1>3, <2>3, <2>4
  <2> QED
    BY <1>3, <2>1, <2>2, <2>6, <2>7
<1> QED
  BY <1>9, <1>10, <1>13, <1>14, <1>15, <1>16 DEF KeptInv

\* What is saved goes to the queue under the conversation the host is in, or waits.
LEMMA KeptPersist ==
  ASSUME RecordInv, PlacesInv, KeptInv, Persist
  PROVE  KeptInv'
<1>1. /\ saving # None /\ saving' = None
      /\ UNCHANGED <<disk, turnOrdinal, turn, load, issued, moved, skipped>>
  BY DEF Persist, history
<1>2. saving \in Saves /\ saving.id \in TurnIds /\ saving.id[1] \in Conversations
  BY <1>1 DEF RecordInv, WorkOK, Saves, TurnIds
<1>3. /\ pendingEvents \o saving.events \in Seq(Tokens)
      /\ Exchanges(pendingEvents \o saving.events) \subseteq Waiting \cup InSaving
  <2>1. InSaving = {saving.e} /\ InHand(saving.e, saving.events)
    BY <1>1 DEF PlacesInv, HandsInv, InSaving
  <2> QED
    BY <2>1, ExchangesOfBoth DEF PlacesInv, HandsInv, InHand, Waiting
<1>4. /\ Waiting \cup InSaving \subseteq moved \/ saving.id[1] = conversationId
      /\ turn # None /\ turn.id[1] # conversationId => {turn.e} \cup InSaving \cup Waiting \subseteq moved
      /\ \A i \in DOMAIN jobs : jobs[i].what = "turn" /\ jobs[i].id[1] # jobs[i].conv => Queued(i) \subseteq moved
      /\ \A c \in Conversations : \A t \in Stored(disk[c]) : t.id[1] # c => Exchanges(t.events) \subseteq moved
  BY <1>1 DEF KeptInv, StrayInv, InSaving
<1>5. \A c : IssuedIn(c)' = IssuedIn(c) /\ Known(c)' = Known(c)
  BY <1>1, KnownStays
<1>6. ReadInFullInv'
  BY <1>1, <1>5 DEF KeptInv, ReadInFullInv, Loaded
<1>7. CASE session = None
  <2>1. UNCHANGED <<jobs, conversationId>> /\ Waiting' \subseteq Waiting \cup InSaving
    BY <1>3, <1>7 DEF Persist, HeldBack, Waiting
  <2>2. Held /\ JobsStay /\ InSaving' = {} /\ \A i : Queued(i)' = Queued(i)
    BY <1>1, <2>1 DEF Held, From, JobsStay, InSaving, Queued
  <2>3. IdsInv'
    BY <1>1, <2>1, <2>2, IdsStay DEF KeptInv, IdsInv, Loaded
  <2>4. StrayInv'
    BY <1>1, <1>4, <2>1, <2>2 DEF StrayInv
  <2>5. OnceInv'
    BY <1>1, <2>2, OnceStays DEF KeptInv
  <2>6. NextInv' /\ RoomInv'
    BY <1>1, <1>5, <2>1 DEF KeptInv, NextInv, RoomInv, Alive
  <2> QED
    BY <1>6, <2>3, <2>4, <2>5, <2>6 DEF KeptInv
<1>8. CASE session # None
  <2>1. PICK d, job : /\ d = Opened /\ job.what = "turn" /\ job.conv = d /\ job.id = saving.id
                      /\ job.events = pendingEvents \o saving.events /\ jobs' = Append(jobs, job)
    <3> DEFINE events == pendingEvents \o saving.events
               j == [what |-> "turn", conv |-> Opened, id |-> saving.id, events |-> events, delta |-> session.lastDelta]
    <3> HIDE DEF events
    <3>1. j.what = "turn" /\ j.conv = Opened /\ j.id = saving.id /\ j.events = events
      OBVIOUS
    <3>2. jobs' = Append(jobs, j)
      BY <1>8 DEF Persist, events
    <3> QED
      BY <3>1, <3>2 DEF events
  <2>2. /\ conversationId' = d /\ pendingEvents' = <<>> /\ d \in Conversations
        /\ conversationId # None => d = conversationId
        /\ conversationId = None => \A id \in issued : id[1] # d
    <3>1. conversationId' = Opened /\ pendingEvents' = <<>> /\ (conversationId # None \/ Unused # {})
      BY <1>8 DEF Persist, HeldBack
    <3>2. conversationId = None => Fresh \in Unused
      BY <3>1 DEF Fresh
    <3> QED
      BY <2>1, <3>1, <3>2, OpenedType DEF Opened, Unused, RecordInv
  <2>3. d # None /\ conversationId' # None
    BY <2>2, NoneAssumption
  <2>4. PICK m : m \notin DOMAIN jobs /\ DOMAIN jobs' = DOMAIN jobs \cup {m} /\ jobs'[m] = job
                 /\ \A i \in DOMAIN jobs : jobs'[i] = jobs[i]
    <3>1. IsList(jobs) /\ DOMAIN jobs = 1..Len(jobs) /\ Len(jobs) \in Nat
      BY ListFacts, SeqOfRange DEF RecordInv, StoreOK, IsList
    <3>2. DOMAIN jobs' = 1..(Len(jobs) + 1) /\ jobs'[Len(jobs) + 1] = job /\ \A i \in DOMAIN jobs : jobs'[i] = jobs[i]
      BY <2>1, <3>1, AppendList
    <3>3. Len(jobs) + 1 \notin DOMAIN jobs /\ DOMAIN jobs' = DOMAIN jobs \cup {Len(jobs) + 1}
      BY <3>1, <3>2
    <3> QED
      BY <3>2, <3>3
  <2>5. Waiting' = {} /\ InSaving' = {}
    BY <1>1, <2>2, ExchangesOfNone DEF Waiting, InSaving
  <2>6. saving.id[1] # d => Waiting \cup InSaving \subseteq moved
    BY <1>2, <1>4, <2>2, NoneAssumption
  <2>7. IdsInv'
    <3>1. \A i \in DOMAIN jobs' : jobs'[i].what = "turn" => jobs'[i].id \in issued
      BY <1>1, <2>1, <2>4 DEF KeptInv, IdsInv
    <3> QED
      BY <1>1, <2>3, <3>1 DEF KeptInv, IdsInv, Loaded
  <2>8. StrayInv'
    <3>1. ASSUME turn # None, turn.id[1] # d PROVE {turn.e} \subseteq moved
      <4>1. turn.id[1] \in Conversations
        BY <3>1 DEF RecordInv, WorkOK, Turns, TurnIds
      <4> QED
        BY <1>4, <2>2, <3>1, <4>1, NoneAssumption
    <3>2. Queued(m)' \subseteq Waiting \cup InSaving /\ \A i \in DOMAIN jobs : Queued(i)' = Queued(i)
      BY <1>3, <2>1, <2>4 DEF Queued
    <3>3. \A i \in DOMAIN jobs' : jobs'[i].what = "turn" /\ jobs'[i].id[1] # jobs'[i].conv => Queued(i)' \subseteq moved
      BY <1>4, <2>1, <2>4, <2>6, <3>2
    <3> QED
      BY <1>1, <1>4, <2>2, <2>5, <3>1, <3>3 DEF StrayInv
  <2>9. d \notin skipped => /\ \A id \in IssuedIn(d) : id[2] < turnOrdinal
                            /\ turnOrdinal <= Cardinality(Known(d))
    <3>1. CASE conversationId = None
      <4>1. IssuedIn(d) = {} /\ turnOrdinal = 0 /\ Cardinality(Known(d)) \in Nat
        BY <2>2, <3>1, KnownIsFinite DEF IssuedIn, KeptInv, IdsInv
      <4> QED
        BY <4>1
    <3>2. CASE conversationId # None
      BY <2>2, <3>2 DEF KeptInv, NextInv
    <3> QED
      BY <3>1, <3>2
  <2>10. NextInv'
    BY <1>1, <1>5, <2>2, <2>9 DEF NextInv
  <2>11. RoomInv'
    <3> SUFFICES ASSUME NEW c \in Conversations \ skipped, Alive(c)'
                 PROVE  \A id \in IssuedIn(c) : id[2] < Cardinality(Known(c))
      BY <1>1, <1>5 DEF RoomInv
    <3>1. CASE c # d
      <4>1. Alive(c)
        BY <1>1, <2>1, <2>4, <3>1 DEF Alive
      <4> QED
        BY <4>1 DEF KeptInv, RoomInv
    <3>2. CASE c = d
      <4>1. /\ \A id \in IssuedIn(d) : id[2] \in Nat
            /\ turnOrdinal \in Nat /\ Cardinality(Known(d)) \in Nat
        BY <2>2, KnownIsFinite DEF IssuedIn, RecordInv, PastOK, HostOK, TurnIds, KeptInv
      <4> QED
        BY <2>9, <3>2, <4>1
    <3> QED
      BY <3>1, <3>2
  <2>12. OnceInv'
    <3> SUFFICES ASSUME NEW c \in Conversations \ skipped
                 PROVE  /\ \A i \in Ahead(c)' : jobs'[i].id \notin Ids(disk[c])
                        /\ \A i, k \in Ahead(c)' : jobs'[i].id = jobs'[k].id => i = k
                        /\ turn # None /\ turn.id[1] = c =>
                               turn.id \notin Ids(disk[c]) /\ \A i \in Ahead(c)' : jobs'[i].id # turn.id
      BY <1>1 DEF OnceInv
    <3>1. \A i \in Ahead(c)' : \/ i \in Ahead(c) /\ jobs'[i] = jobs[i]
                               \/ i = m /\ jobs'[i].id = saving.id /\ saving.id[1] = c
      BY <2>1, <2>4 DEF Ahead
    <3>2. /\ \A i \in Ahead(c) : jobs[i].id \notin Ids(disk[c])
          /\ \A i, k \in Ahead(c) : jobs[i].id = jobs[k].id => i = k
          /\ saving.id[1] = c => saving.id \notin Ids(disk[c]) /\ \A i \in Ahead(c) : jobs[i].id # saving.id
          /\ turn # None /\ turn.id[1] = c =>
                 turn.id \notin Ids(disk[c]) /\ \A i \in Ahead(c) : jobs[i].id # turn.id
          /\ turn # None /\ turn.id[1] = c => turn.id # saving.id
      BY <1>1 DEF KeptInv, OnceInv
    <3> QED
      BY <3>1, <3>2
  <2> QED
    BY <1>6, <2>7, <2>8, <2>10, <2>11, <2>12 DEF KeptInv
<1> QED
  BY <1>7, <1>8

\* What a write of the job at i does to the queue, f saying where the others were, and to the files.
Wrote(i, f) ==
    /\ \A k \in DOMAIN jobs' : f[k] \in DOMAIN jobs \ {i} /\ jobs'[k] = jobs[f[k]]
    /\ \A k, m \in DOMAIN jobs' : k # m => f[k] # f[m]
    /\ jobs[i] \in Jobs /\ jobs[i].conv \in Conversations
    /\ \A c \in Conversations :
           disk'[c] # disk[c] =>
               /\ c = jobs[i].conv /\ Ids(disk[c]) \subseteq Ids(disk'[c])
               /\ \A t \in Stored(disk'[c]) : \/ t \in Stored(disk[c])
                                              \/ jobs[i].what = "turn" /\ t.id = jobs[i].id /\ t.events = jobs[i].events
               /\ \A t \in Stored(disk[c]) : t \in Stored(disk'[c]) \/ (jobs[i].what = "turn" /\ t.id = jobs[i].id)

\* A write is one of a job that waits.
LEMMA WriteKeeps ==
  ASSUME RecordInv, Write
  PROVE  \E i \in DOMAIN jobs : \E f : Wrote(i, f)
<1>1. PICK i \in DOMAIN jobs :
        /\ jobs' = RemoveAt(jobs, i)
        /\ \/ Accepted(jobs[i]) /\ disk' = [disk EXCEPT ![jobs[i].conv] = Result(jobs[i])]
           \/ disk' = disk
  BY DEF Write, NextJobs
<1> DEFINE f == [k \in DOMAIN jobs' |-> IF k < i THEN k ELSE k + 1]
<1>2. Len(jobs) \in Nat /\ DOMAIN jobs = 1..Len(jobs) /\ i \in 1..Len(jobs) /\ IsList(jobs)
  BY ListFacts, SeqOfRange DEF RecordInv, StoreOK, IsList
<1>3. /\ DOMAIN jobs' = 1..(Len(jobs) - 1)
      /\ \A k \in DOMAIN jobs' : jobs'[k] = (IF k < i THEN jobs[k] ELSE jobs[k + 1])
  BY <1>1, <1>2, RemoveList
<1>4. \A k \in DOMAIN jobs' : f[k] \in DOMAIN jobs \ {i} /\ jobs'[k] = jobs[f[k]]
  BY <1>2, <1>3
<1>5. \A k, m \in DOMAIN jobs' : k # m => f[k] # f[m]
  BY <1>2, <1>3
<1> HIDE DEF f
<1>6. jobs[i] \in Jobs /\ jobs[i].conv \in Conversations
  <2>1. jobs[i] \in Jobs
    BY JobType DEF RecordInv
  <2> QED
    BY <2>1 DEF Jobs
<1>7. ASSUME NEW c \in Conversations, disk'[c] # disk[c]
      PROVE  /\ c = jobs[i].conv /\ Ids(disk[c]) \subseteq Ids(disk'[c])
             /\ \A t \in Stored(disk'[c]) :
                    \/ t \in Stored(disk[c])
                    \/ jobs[i].what = "turn" /\ t.id = jobs[i].id /\ t.events = jobs[i].events
             /\ \A t \in Stored(disk[c]) :
                    \/ t \in Stored(disk'[c])
                    \/ jobs[i].what = "turn" /\ t.id = jobs[i].id
  <2>1. PICK job, new : job \in Jobs /\ job = jobs[i] /\ new = Result(job)
    BY <1>6
  <2>2. Accepted(job) /\ c = job.conv /\ disk'[c] = new
    BY <1>1, <1>7, <2>1 DEF RecordInv, StoreOK
  <2>3. /\ Ids(disk[job.conv]) \subseteq Ids(Result(job))
        /\ \A t \in Stored(Result(job)) : t \in Stored(disk[job.conv]) \/ (job.what = "turn" /\ t.id = job.id /\ t.events = job.events)
        /\ \A t \in Stored(disk[job.conv]) : t \in Stored(Result(job)) \/ (job.what = "turn" /\ t.id = job.id)
    BY <2>1, <2>2, ResultKeeps
  <2> QED
    BY <2>1, <2>2, <2>3
<1>8. Wrote(i, f)
  BY <1>4, <1>5, <1>6, <1>7 DEF Wrote
<1> QED
  BY <1>8

\* A write brings a turn to its file once.
LEMMA KeptWrite ==
  ASSUME RecordInv, KeptInv, Write
  PROVE  KeptInv'
<1>1. /\ UNCHANGED <<conversationId, turnOrdinal, pendingEvents, turn, saving, issued, moved, skipped>>
      /\ load' = load \/ Loaded' = None
  BY DEF Write, host, Loaded
<1>2. PICK i \in DOMAIN jobs : \E f : Wrote(i, f)
  BY WriteKeeps
<1>3. PICK job, f : job = jobs[i] /\ Wrote(i, f)
  BY <1>2
<1>4. \A c \in Conversations : /\ Ids(disk[c]) \subseteq Ids(disk'[c])
                               /\ \A id \in Ids(disk'[c]) : \/ id \in Ids(disk[c])
                                                            \/ c = job.conv /\ job.what = "turn" /\ id = job.id
  BY <1>3 DEF Ids, Wrote
<1>5. job.what = "turn" => job.id \in issued
  BY <1>3 DEF KeptInv, IdsInv
<1>6. \A c : IssuedIn(c)' = IssuedIn(c)
  BY <1>1 DEF IssuedIn
<1>7. IdsInv'
  <2>1. \A c \in Conversations : Ids(disk'[c]) \subseteq issued
    BY <1>4, <1>5 DEF KeptInv, IdsInv
  <2>2. \A k \in DOMAIN jobs' : jobs'[k].what = "turn" => jobs'[k].id \in issued
    BY <1>3 DEF KeptInv, IdsInv, Wrote
  <2>3. Loaded' # None => Ids(Loaded') \subseteq Ids(disk'[load'.conv])
    <3>1. Loaded # None => load.conv \in Conversations
      BY DEF Loaded, RecordInv, StoreOK
    <3> QED
      BY <1>1, <1>4, <3>1 DEF KeptInv, IdsInv, Loaded
  <2> QED
    BY <1>1, <2>1, <2>2, <2>3 DEF KeptInv, IdsInv
<1>8. \A c \in Conversations : /\ Cardinality(Known(c)) \in Nat /\ Cardinality(Known(c)') \in Nat
                               /\ Cardinality(Known(c)) <= Cardinality(Known(c)')
  <2> SUFFICES ASSUME NEW c \in Conversations
               PROVE  /\ Cardinality(Known(c)) \in Nat /\ Cardinality(Known(c)') \in Nat
                      /\ Cardinality(Known(c)) <= Cardinality(Known(c)')
    OBVIOUS
  <2>1. PICK old, new : old = Known(c) /\ new = Known(c)'
    OBVIOUS
  <2>2. old \subseteq new
    BY <1>4, <1>6, <2>1 DEF Known
  <2>3. IsFiniteSet(issued) /\ new \subseteq issued
    BY <1>1, <1>7, <2>1 DEF IdsInv, Known, IssuedIn
  <2>4. IsFiniteSet(new) /\ Cardinality(new) \in Nat
    BY <2>3, FS_Subset, FS_CardinalityType
  <2>5. IsFiniteSet(old) /\ Cardinality(old) <= Cardinality(new) /\ Cardinality(old) \in Nat
    BY <2>2, <2>4, FS_Subset, FS_CardinalityType
  <2> QED
    BY <2>1, <2>4, <2>5
<1>9. \A c \in Conversations : \A id \in IssuedIn(c) : id[2] \in Nat
  BY DEF IssuedIn, RecordInv, PastOK, TurnIds
<1>10. StrayInv'
  <2>1. \A k \in DOMAIN jobs' : Queued(k)' = Queued(f[k])
    BY <1>3 DEF Queued, Wrote
  <2>2. \A k \in DOMAIN jobs' : jobs'[k].what = "turn" /\ jobs'[k].id[1] # jobs'[k].conv => Queued(k)' \subseteq moved
    BY <1>3, <2>1 DEF KeptInv, StrayInv, Wrote
  <2>3. job.what = "turn" /\ job.id[1] # job.conv => Exchanges(job.events) \subseteq moved
    BY <1>3 DEF KeptInv, StrayInv, Queued
  <2>4. \A c \in Conversations : \A t \in Stored(disk'[c]) : t.id[1] # c => Exchanges(t.events) \subseteq moved
    BY <1>3, <2>3 DEF KeptInv, StrayInv, Wrote
  <2>5. Waiting' = Waiting /\ InSaving' = InSaving
    BY <1>1 DEF Waiting, InSaving
  <2> QED
    BY <1>1, <2>2, <2>4, <2>5 DEF KeptInv, StrayInv
<1>11. NextInv'
  <2> SUFFICES ASSUME conversationId # None, conversationId \notin skipped
               PROVE  /\ \A id \in IssuedIn(conversationId) : id[2] < turnOrdinal
                      /\ \A c : c = conversationId => turnOrdinal <= Cardinality(Known(c)')
    BY <1>1, <1>6 DEF NextInv
  <2>1. conversationId \in Conversations /\ turnOrdinal \in Nat
    BY DEF RecordInv, HostOK
  <2>2. /\ \A id \in IssuedIn(conversationId) : id[2] < turnOrdinal
        /\ turnOrdinal <= Cardinality(Known(conversationId))
    BY DEF KeptInv, NextInv
  <2> QED
    BY <1>8, <2>1, <2>2
<1>12. RoomInv'
  <2> SUFFICES ASSUME NEW c \in Conversations \ skipped, Alive(c)', NEW id \in IssuedIn(c)
               PROVE  id[2] < Cardinality(Known(c)')
    BY <1>1, <1>6 DEF RoomInv
  <2>1. Alive(c)
    BY <1>3 DEF Alive, Wrote
  <2>2. id[2] < Cardinality(Known(c)) /\ id[2] \in Nat
    BY <1>9, <2>1 DEF KeptInv, RoomInv
  <2> QED
    BY <1>8, <2>2
<1>13. ReadInFullInv'
  BY <1>1, <1>6 DEF KeptInv, ReadInFullInv, Loaded
<1>14. OnceInv'
  <2> SUFFICES ASSUME NEW c \in Conversations \ skipped
               PROVE  /\ \A k \in Ahead(c)' : jobs'[k].id \notin Ids(disk'[c])
                      /\ \A k, m \in Ahead(c)' : jobs'[k].id = jobs'[m].id => k = m
                      /\ \A hand \in {turn, saving} : hand # None /\ hand.id[1] = c =>
                             hand.id \notin Ids(disk'[c]) /\ \A k \in Ahead(c)' : jobs'[k].id # hand.id
                      /\ turn # None /\ saving # None /\ turn.id[1] = c => turn.id # saving.id
    BY <1>1 DEF OnceInv
  <2>1. \A k \in Ahead(c)' : f[k] \in Ahead(c) \ {i} /\ jobs'[k] = jobs[f[k]] /\ k \in DOMAIN jobs'
    BY <1>3 DEF Ahead, Wrote
  <2>2. /\ \A k \in Ahead(c) : jobs[k].id \notin Ids(disk[c]) /\ jobs[k].id[1] = c
        /\ \A k, m \in Ahead(c) : jobs[k].id = jobs[m].id => k = m
        /\ \A hand \in {turn, saving} : hand # None /\ hand.id[1] = c =>
               hand.id \notin Ids(disk[c]) /\ \A k \in Ahead(c) : jobs[k].id # hand.id
        /\ turn # None /\ saving # None /\ turn.id[1] = c => turn.id # saving.id
    BY DEF KeptInv, OnceInv, Ahead
  <2>3. \A id \in Ids(disk'[c]) : id \in Ids(disk[c]) \/ id[1] # c \/ (i \in Ahead(c) /\ id = jobs[i].id)
    BY <1>3, <1>4 DEF Ahead
  <2>4. \A k \in Ahead(c)' : jobs'[k].id \notin Ids(disk'[c])
    BY <2>1, <2>2, <2>3
  <2>5. \A k, m \in Ahead(c)' : jobs'[k].id = jobs'[m].id => k = m
    BY <1>3, <2>1, <2>2 DEF Wrote
  <2>6. \A hand \in {turn, saving} : hand # None /\ hand.id[1] = c =>
            hand.id \notin Ids(disk'[c]) /\ \A k \in Ahead(c)' : jobs'[k].id # hand.id
    BY <2>1, <2>2, <2>3
  <2> QED
    BY <2>2, <2>4, <2>5, <2>6
<1> QED
  BY <1>7, <1>10, <1>11, <1>12, <1>13, <1>14 DEF KeptInv

\* The ordinals are inductive.
LEMMA KeptStep ==
  ASSUME RecordInv, PlacesInv, KeptInv, [Next]_vars
  PROVE  KeptInv'
<1>1. CASE Route \/ Reuse \/ Refuse \/ Rebuild \/ OpenDone \/ OpenFails \/ Talk \/ UNCHANGED vars
  <2>1. UNCHANGED <<conversationId, turnOrdinal, pendingEvents, jobs, disk, load, issued, moved, skipped>>
    <3>1. CASE Route \/ Refuse \/ Rebuild \/ OpenFails \/ Talk
      BY <3>1 DEF Route, Refuse, Rebuild, OpenFails, Talk, host, history
    <3>2. CASE Reuse \/ OpenDone
      BY <3>2 DEF Reuse, OpenDone, Ready, history
    <3>3. CASE UNCHANGED vars
      BY <3>3 DEF vars, host, history
    <3> QED
      BY <1>1, <3>1, <3>2, <3>3
  <2>2. ~Send /\ ~AnswerFromRecord
    <3>1. asked \in Nat /\ asked + 1 # asked
      BY DEF RecordInv, PastOK
    <3>2. UNCHANGED asked
      <4>1. CASE Route \/ Refuse \/ Rebuild \/ OpenFails \/ Talk \/ UNCHANGED vars
        BY <4>1 DEF Route, Refuse, Rebuild, OpenFails, Talk, vars
      <4>2. CASE Reuse \/ OpenDone
        BY <4>2 DEF Reuse, OpenDone, Ready
      <4> QED
        BY <1>1, <4>1, <4>2
    <3> QED
      BY <3>1, <3>2 DEF Send, AnswerFromRecord, Claim
  <2>3. CASE Persist
    BY <2>3, KeptPersist
  <2>4. CASE ~Persist
    BY <2>1, <2>2, <2>4, StepHands, KeptStages
  <2> QED
    BY <2>3, <2>4
<1>2. CASE Moving
  BY <1>2, KeptLook, KeptCleared DEF Moving
<1> QED
  BY <1>1, <1>2, KeptLook, KeptAdopt, KeptAsk, KeptPersist, KeptWrite DEF Next, Working

\* Nothing was handed out at first.
LEMMA KeptInit == Init => KeptInv
<1> SUFFICES ASSUME Init PROVE KeptInv
  OBVIOUS
<1>1. /\ jobs = <<>> /\ turn = None /\ saving = None /\ load = None /\ conversationId = None /\ turnOrdinal = 0
      /\ issued = {} /\ disk = [c \in Conversations |-> None]
  BY DEF Init
<1>2. DOMAIN <<>> = {}
  OBVIOUS
<1>3. \A c \in Conversations : Stored(disk[c]) = {} /\ Ids(disk[c]) = {} /\ Ahead(c) = {} /\ IssuedIn(c) = {}
  BY <1>1, <1>2 DEF Stored, Ids, Ahead, IssuedIn
<1>4. IsFiniteSet({})
  BY FS_EmptySet
<1> QED
  BY <1>1, <1>2, <1>3, <1>4 DEF KeptInv, IdsInv, StrayInv, NextInv, RoomInv, ReadInFullInv, OnceInv, Loaded

\* What a write takes from a file is of a turn the user left.
LEMMA NothingLost ==
  ASSUME RecordInv, KeptInv, [Next]_vars, NEW c \in Conversations, disk[c] # None, disk'[c] # None, c \notin skipped,
         NEW token \in StoredEvents(disk[c]) \ StoredEvents(disk'[c])
  PROVE  token[1] \in moved
<1>1. disk'[c] # disk[c]
  OBVIOUS
<1>2. Write
  <2>1. CASE Moving
    <3>1. CASE DeleteConversation
      BY <1>1, <3>1 DEF DeleteConversation, RecordInv, StoreOK
    <3> QED
      BY <1>1, <2>1, <3>1 DEF Moving, Open, NewConversation, Rekey, ChangeBranch
  <2>2. CASE Send \/ AnswerFromRecord \/ Read \/ Adopt \/ Persist \/ UNCHANGED vars
    BY <1>1, <2>2 DEF Send, AnswerFromRecord, Read, Adopt, Persist, vars
  <2>3. CASE Route \/ Reuse \/ Refuse \/ Rebuild \/ OpenDone \/ OpenFails \/ Talk
    BY <1>1, <2>3 DEF Route, Reuse, Refuse, Rebuild, OpenDone, OpenFails, Talk, Ready
  <2> QED
    BY <2>1, <2>2, <2>3 DEF Next, Working
<1>3. PICK i \in DOMAIN jobs :
        /\ c = jobs[i].conv
        /\ \A t \in Stored(disk[c]) : t \in Stored(disk'[c]) \/ (jobs[i].what = "turn" /\ t.id = jobs[i].id)
  BY <1>1, <1>2, WriteKeeps DEF Wrote
<1>4. PICK t \in Stored(disk[c]) : token \in Range(t.events)
  BY DEF StoredEvents
<1>5. t \notin Stored(disk'[c])
  BY <1>4 DEF StoredEvents
<1>6. jobs[i].what = "turn" /\ t.id = jobs[i].id
  BY <1>3, <1>5
<1>7. t.id \in Ids(disk[c])
  BY DEF Ids
<1>8. t.id[1] # c
  <2>1. i \in Ahead(c) => jobs[i].id \notin Ids(disk[c])
    BY DEF KeptInv, OnceInv
  <2> QED
    BY <1>3, <1>6, <1>7, <2>1 DEF Ahead
<1>9. Exchanges(t.events) \subseteq moved
  BY <1>8 DEF KeptInv, StrayInv
<1> QED
  BY <1>4, <1>9 DEF Exchanges

\* agentHost.ts:1588: a file that is written keeps the events of the turns it had, whatever is forked,
\* switched and removed, except those of turns the user left, unless it was adopted with one of its turns
\* missing or deleted with one on its way.
THEOREM TheTurnsAreKept == Spec => TurnsKeptUnlessSkipped
<1> DEFINE Kept == \A c \in Conversations : disk[c] # None /\ disk'[c] # None /\ c \notin skipped =>
                       \A token \in StoredEvents(disk[c]) \ StoredEvents(disk'[c]) : token[1] \in moved
<1>1. Init => PlacesInv /\ ApartInv /\ RecordInv /\ KeptInv
  BY PlacesInit, RecordInit, KeptInit
<1>2. PlacesInv /\ ApartInv /\ RecordInv /\ KeptInv /\ [Next]_vars
      => PlacesInv' /\ ApartInv' /\ RecordInv' /\ KeptInv'
  BY PlacesStep, RecordStep, KeptStep
<1>3. RecordInv /\ KeptInv /\ [Next]_vars => [Kept]_vars
  BY NothingLost
<1> QED
  BY <1>1, <1>2, <1>3, PTL DEF Spec, TurnsKeptUnlessSkipped
===============================================================================
