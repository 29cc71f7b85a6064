------------------------- MODULE EventDeliveryProofs -------------------------
(***************************************************************************)
(* The composition of the event hub with its Home Assistant reader         *)
(* implements the feed, for every history limit, channel capacity, set of  *)
(* requests and bound: what one agent life delivers to one coordinator     *)
(* increases, and skips only what the history had lost.  The proof follows *)
(* the reader's cursor.                                                    *)
(***************************************************************************)
EXTENDS EventDelivery, EventStreamProofs

(* The oldest id that Subscribe can still replay. *)
Oldest == eventSequence - Len(eventHistory) + 1
LastDelivered == delivered[Len(delivered)]

ReaderTypes ==
  /\ stream \in {"closed", "open"}
  /\ conn \in Conns
  /\ lastEventId \in Ids \cup {None}
  /\ gapRetry \in (Ids \X Ids) \cup {None}
  /\ delivered \in Seq(1..MaxSequence)
  /\ losses \in 0..MaxLosses
  /\ restarts \in 0..MaxRestarts

(* The first task event of a stream, with which a gap closes or is known   *)
(* to be one that cannot be closed.                                        *)
FirstTask(s, i) == i \in Tasks(s) /\ \A j \in Tasks(s) : i <= j
ShowsGap(s, cursor, old) ==
  \E i \in Tasks(s) :
    /\ FirstTask(s, i)
    /\ s[i].sequence = cursor + 1 \/ s[i].sequence <= old

(* Once this agent life has delivered something to these listeners, the    *)
(* cursor is the last id delivered or, after a gap that a reconnect did    *)
(* not close, an id that the history has lost.  What an open stream still holds is after the     *)
(* cursor, and the reconnect for a gap starts where the cursor or the      *)
(* history does: it shows the missing ids, or that they are gone.          *)
CursorInv ==
  delivered # <<>> =>
    /\ lastEventId \in 0..eventSequence /\ LastDelivered <= lastEventId
    /\ lastEventId = LastDelivered \/ lastEventId < Oldest
    /\ gapRetry # None =>
         \E id \in (lastEventId + 1)..eventSequence : gapRetry = <<lastEventId, id>>
    /\ stream = "open" =>
         /\ \A id \in IdsOf(Stream(conn)) : id > lastEventId
         /\ gapRetry # None => ShowsGap(Stream(conn), lastEventId, Oldest)

DeliveryInv ==
  /\ IInv
  /\ IdsOrdered
  /\ ReaderTypes
  /\ CursorInv

-----------------------------------------------------------------------------
(* What the reader takes leaves the rest of the stream in order. *)
LEMMA TailStream ==
  ASSUME NEW w \in Seq(Messages), NEW s \in Seq(Messages), w # <<>>
  PROVE  Tail(w) \o s = Tail(w \o s) /\ Head(w \o s) = Head(w) /\ w \o s # <<>>
<1> DEFINE t == w \o s
           left == Tail(w) \o s
           right == Tail(t)
<1>1. /\ Len(w) \in Nat \ {0} /\ Len(s) \in Nat
      /\ Tail(w) \in Seq(Messages) /\ Len(Tail(w)) = Len(w) - 1
      /\ \A i \in 1..(Len(w) - 1) : Tail(w)[i] = w[i + 1]
  BY EmptySeq, LenProperties, HeadTailProperties
<1>2. /\ t \in Seq(Messages) /\ Len(t) = Len(w) + Len(s)
      /\ \A i \in 1..(Len(w) + Len(s)) :
           t[i] = IF i <= Len(w) THEN w[i] ELSE s[i - Len(w)]
  BY ConcatProperties
<1>3. t # <<>>
  BY <1>1, <1>2, EmptySeq
<1>4. /\ right \in Seq(Messages) /\ Len(right) = Len(w) + Len(s) - 1
      /\ \A i \in 1..(Len(w) + Len(s) - 1) : right[i] = t[i + 1]
  BY <1>2, <1>3, HeadTailProperties
<1>5. /\ left \in Seq(Messages) /\ Len(left) = Len(w) + Len(s) - 1
      /\ \A i \in 1..(Len(w) + Len(s) - 1) :
           left[i] = IF i <= Len(w) - 1 THEN Tail(w)[i] ELSE s[i - (Len(w) - 1)]
  <2>1. /\ left \in Seq(Messages) /\ Len(left) = Len(Tail(w)) + Len(s)
        /\ \A i \in 1..(Len(Tail(w)) + Len(s)) :
             left[i] = IF i <= Len(Tail(w)) THEN Tail(w)[i] ELSE s[i - Len(Tail(w))]
    BY <1>1, ConcatProperties
  <2>2. Len(Tail(w)) + Len(s) = Len(w) + Len(s) - 1
    BY <1>1
  <2> HIDE DEF left
  <2> QED
    BY <1>1, <2>1, <2>2
<1>6. Head(t) = Head(w)
  <2>1. Head(t) = t[1] /\ Head(w) = w[1]
    BY <1>2, <1>3
  <2>2. 1 \in 1..(Len(w) + Len(s)) /\ 1 <= Len(w)
    BY <1>1
  <2> HIDE DEF t
  <2> QED
    BY <1>2, <2>1, <2>2
<1> HIDE DEF t, left, right
<1>7. ASSUME NEW i \in 1..(Len(w) + Len(s) - 1) PROVE left[i] = right[i]
  <2>1. right[i] = t[i + 1] /\ i + 1 \in 1..(Len(w) + Len(s))
    BY <1>1, <1>4
  <2>2. CASE i <= Len(w) - 1
    <3>1. i \in 1..(Len(w) - 1) /\ i + 1 <= Len(w)
      BY <1>1, <2>2
    <3>2. left[i] = Tail(w)[i] /\ Tail(w)[i] = w[i + 1]
      BY <1>1, <1>5, <3>1
    <3> QED
      BY <1>2, <2>1, <3>1, <3>2
  <2>3. CASE ~(i <= Len(w) - 1)
    <3>1. ~(i + 1 <= Len(w)) /\ i + 1 - Len(w) = i - (Len(w) - 1)
      BY <1>1, <2>3
    <3>2. left[i] = s[i - (Len(w) - 1)] /\ t[i + 1] = s[i + 1 - Len(w)]
      BY <1>2, <1>5, <2>1, <2>3, <3>1
    <3> QED
      BY <2>1, <3>1, <3>2
  <2> QED
    BY <2>2, <2>3
<1>8. left = right
  BY <1>4, <1>5, <1>7, SeqEqual
<1> QED
  BY <1>3, <1>6, <1>8 DEF t, left, right

LEMMA TailTasks ==
  ASSUME NEW s \in Seq(Messages), s # <<>>
  PROVE  /\ Tail(s) \in Seq(Messages) /\ Head(s) \in Messages
         /\ Head(s) = s[1] /\ Len(s) \in Nat
         /\ \A i \in 1..Len(s) : i # 1 => i - 1 \in 1..Len(Tail(s))
         /\ Head(s).event = "task_activity" <=> 1 \in Tasks(s)
         /\ \A i \in Tasks(Tail(s)) :
              i \in Nat /\ i > 0 /\ i + 1 \in Tasks(s) /\ Tail(s)[i] = s[i + 1]
         /\ \A i \in Tasks(s) : i # 1 => i - 1 \in Tasks(Tail(s)) /\ Tail(s)[i - 1] = s[i]
<1>1. /\ Head(s) \in Messages /\ Tail(s) \in Seq(Messages) /\ Head(s) = s[1]
      /\ Len(Tail(s)) = Len(s) - 1
      /\ \A i \in 1..Len(Tail(s)) : Tail(s)[i] = s[i + 1]
  BY HeadTailProperties
<1>2. Len(s) \in Nat /\ Len(s) > 0
  BY EmptySeq
<1> DEFINE t == Tail(s)
<1> HIDE DEF t
<1>3. ASSUME NEW i \in Tasks(t)
      PROVE  i \in Nat /\ i > 0 /\ i + 1 \in Tasks(s) /\ t[i] = s[i + 1]
  BY <1>1, <1>2 DEF Tasks, t
<1>4. ASSUME NEW i \in 1..Len(s), i # 1
      PROVE  i - 1 \in 1..Len(t) /\ t[i - 1] = s[i]
  <2>1. i - 1 \in 1..Len(t) /\ i - 1 + 1 = i
    BY <1>1, <1>2, <1>4 DEF t
  <2>2. t[i - 1] = s[i - 1 + 1]
    BY <1>1, <2>1 DEF t
  <2> QED
    BY <2>1, <2>2
<1>5. ASSUME NEW i \in Tasks(s), i # 1
      PROVE  i - 1 \in Tasks(t) /\ t[i - 1] = s[i]
  BY <1>4, <1>5 DEF Tasks
<1>6. Head(s).event = "task_activity" <=> 1 \in Tasks(s)
  BY <1>1, <1>2 DEF Tasks
<1> QED
  BY <1>1, <1>2, <1>3, <1>4, <1>5, <1>6 DEF t

(* Of an ordered stream, the rest is ordered and after a task event taken. *)
LEMMA TailOrdered ==
  ASSUME NEW s \in Seq(Messages), s # <<>>, Increasing(s)
  PROVE  /\ Increasing(Tail(s)) /\ IdsOf(Tail(s)) \subseteq IdsOf(s)
         /\ Head(s).event = "task_activity" =>
              /\ Head(s).sequence \in IdsOf(s)
              /\ \A id \in IdsOf(Tail(s)) : Head(s).sequence < id
<1> DEFINE t == Tail(s)
<1>1. /\ Head(s) = s[1] /\ (Head(s).event = "task_activity" <=> 1 \in Tasks(s))
      /\ \A i \in Tasks(t) : i \in Nat /\ i > 0 /\ i + 1 \in Tasks(s) /\ t[i] = s[i + 1]
  BY TailTasks
<1> HIDE DEF t
<1>2. Increasing(t)
  <2> SUFFICES ASSUME NEW i \in Tasks(t), NEW j \in Tasks(t), i < j
               PROVE  t[i].sequence < t[j].sequence
    BY DEF Increasing
  <2>1. i + 1 < j + 1
    BY <1>1
  <2> QED
    BY <1>1, <2>1 DEF Increasing
<1>3. IdsOf(t) \subseteq IdsOf(s)
  BY <1>1 DEF IdsOf
<1>4. ASSUME 1 \in Tasks(s), NEW id \in IdsOf(t) PROVE s[1].sequence < id
  <2>1. PICK i \in Tasks(t) : id = t[i].sequence
    BY DEF IdsOf
  <2>2. 1 < i + 1
    BY <1>1
  <2> QED
    BY <1>1, <1>4, <2>1, <2>2 DEF Increasing
<1> QED
  BY <1>1, <1>2, <1>3, <1>4 DEF t, IdsOf

LEMMA PrefixOrdered ==
  ASSUME NEW w \in Seq(Messages), NEW s \in Seq(Messages), Increasing(w \o s)
  PROVE  Increasing(w) /\ IdsOf(w) \subseteq IdsOf(w \o s)
<1> DEFINE t == w \o s
<1>1. /\ Len(w) \in Nat /\ Len(s) \in Nat /\ Len(t) = Len(w) + Len(s)
      /\ \A i \in 1..(Len(w) + Len(s)) :
           t[i] = IF i <= Len(w) THEN w[i] ELSE s[i - Len(w)]
  BY LenProperties, ConcatProperties
<1> HIDE DEF t
<1>2. \A i \in Tasks(w) : i \in Tasks(t) /\ t[i] = w[i]
  BY <1>1 DEF Tasks
<1>3. Increasing(t)
  BY DEF t
<1> QED
  BY <1>2, <1>3 DEF Increasing, IdsOf, t

-----------------------------------------------------------------------------
(* The steps of the hub, as the reader sees them.                          *)

LEMMA OldestBound ==
  IInv => /\ eventSequence \in Nat /\ Oldest \in Nat /\ Oldest >= 1
          /\ Oldest <= eventSequence + 1
<1> SUFFICES ASSUME IInv
             PROVE  /\ eventSequence \in Nat /\ Oldest \in Nat /\ Oldest >= 1
                    /\ Oldest <= eventSequence + 1
  OBVIOUS
<1>1. eventSequence \in Nat /\ eventHistory \in Seq(1..MaxSequence) /\ HistoryIsSuffix
  BY DEF IInv, TypeOK
<1>2. Len(eventHistory) \in 0..eventSequence
  BY <1>1, RetainedIds
<1> QED
  BY <1>1, <1>2 DEF Oldest

(* An event is published: the history moves on and keeps the new event. *)
LEMMA EmitPublishes ==
  ASSUME IInv, EmitTaskEvent
  PROVE  eventSequence' = eventSequence + 1 /\ Oldest' \in Oldest..eventSequence'
<1> DEFINE n == Len(eventHistory)
           m == Len(eventHistory')
<1>1. eventSequence \in Nat /\ eventSequence' = eventSequence + 1 /\ IInv'
  BY NextIInv DEF IInv, TypeOK, EmitTaskEvent, Next, HubNext
<1>2. /\ n \in Nat /\ n = IF eventSequence < HistoryLimit THEN eventSequence ELSE HistoryLimit
      /\ m \in Nat /\ m = IF eventSequence' < HistoryLimit THEN eventSequence' ELSE HistoryLimit
  <2>1. eventHistory \in Seq(1..MaxSequence) /\ eventHistory' \in Seq(1..MaxSequence)
    BY <1>1 DEF IInv, TypeOK
  <2> QED
    BY <1>1, <2>1, LenProperties DEF IInv, HistoryIsSuffix
<1> HIDE DEF n, m
<1>3. eventSequence' - m + 1 \in (eventSequence - n + 1)..eventSequence'
  BY <1>1, <1>2, LimitsAssumption
<1> QED
  BY <1>1, <1>3 DEF Oldest, n, m

(* A stream goes on: nothing, or a snapshot, or the event just published. *)
GoesOn(d) ==
  \/ Stream(d)' = Stream(d)
  \/ \E m \in Messages :
       /\ Stream(d)' = Append(Stream(d), m)
       /\ m.event = "task_activity" => m.sequence = eventSequence + 1

LEMMA AgentStepEffect ==
  ASSUME IInv, AgentStep
  PROVE  /\ eventSequence' >= eventSequence /\ Oldest' >= Oldest
         /\ \A d \in Conns : GoesOn(d)
         /\ [Next]_vars
         /\ EmitTaskEvent \/ UNCHANGED <<eventSequence, eventHistory>>
<1> USE DEF IInv
<1>0. /\ eventSequence \in Nat /\ Oldest \in Nat
      /\ [Next]_vars
  BY OldestBound DEF AgentStep, Next
<1>1. ASSUME UNCHANGED <<eventSequence, eventHistory>>, \A d \in Conns : GoesOn(d)
      PROVE  /\ eventSequence' >= eventSequence /\ Oldest' >= Oldest
             /\ \A d \in Conns : GoesOn(d)
             /\ UNCHANGED <<eventSequence, eventHistory>>
  BY <1>0, <1>1 DEF Oldest
<1>2. CASE \/ \E content \in Contents, events \in 0..MaxBatch : BeginRebuild(content, events)
           \/ \E content \in Contents : RecordAccountResult(content)
  <2>1. UNCHANGED <<eventSequence, eventHistory, chan, wire>>
    BY <1>2 DEF BeginRebuild, RecordAccountResult, connVars
  <2> QED
    BY <1>0, <1>1, <2>1 DEF GoesOn, Stream
<1>3. CASE EmitTaskEvent
  <2> DEFINE m == TaskActivity(eventSequence + 1)
  <2>1. Offer(m) /\ wire' = wire
    BY <1>3 DEF EmitTaskEvent
  <2>2. eventSequence + 1 \in 1..MaxSequence
    BY <1>3, BoundsAssumption DEF EmitTaskEvent, TypeOK
  <2>3. m \in Messages /\ m.sequence = eventSequence + 1
    BY <2>2 DEF TaskActivity, Messages
  <2> HIDE DEF m
  <2>4. ASSUME NEW d \in Conns PROVE GoesOn(d)
    BY <2>1, <2>3, OfferStream DEF GoesOn
  <2>5. eventSequence' = eventSequence + 1 /\ Oldest' \in Oldest..eventSequence'
    BY <1>3, EmitPublishes
  <2> QED
    BY <1>0, <1>3, <2>4, <2>5
<1>4. CASE BroadcastSnapshot
  <2> DEFINE m == SnapshotMessage(snapshot)
  <2>1. m \in Messages /\ m.event # "task_activity"
    BY DEF TypeOK, SnapshotMessage, Messages
  <2>2. /\ wire' = wire /\ UNCHANGED <<eventSequence, eventHistory>>
        /\ chan' = chan \/ Offer(m)
    BY <1>4 DEF BroadcastSnapshot
  <2> HIDE DEF m
  <2>3. ASSUME NEW d \in Conns PROVE GoesOn(d)
    <3>1. CASE chan' = chan
      BY <2>2, <3>1 DEF GoesOn, Stream
    <3>2. CASE Offer(m)
      BY <2>1, <2>2, <3>2, OfferStream DEF GoesOn
    <3> QED
      BY <2>2, <3>1, <3>2
  <2> QED
    BY <1>0, <1>1, <2>2, <2>3
<1>5. ASSUME NEW c \in Conns, FinishSubscribe(c)
      PROVE  /\ UNCHANGED <<eventSequence, eventHistory>> /\ \A d \in Conns : GoesOn(d)
  <2>1. ASSUME NEW d \in Conns PROVE GoesOn(d)
    <3>1. SnapshotMessage(current[d]) \in Messages
      BY DEF SnapshotMessage, Messages, TypeOK
    <3>2. SnapshotMessage(current[d]).event # "task_activity"
      BY DEF SnapshotMessage
    <3> QED
      BY <1>5, <3>1, <3>2, FinishStream DEF GoesOn
  <2> QED
    BY <1>5, <2>1 DEF FinishSubscribe, hubVars
<1>6. ASSUME NEW c \in Conns, WriteMessage(c)
      PROVE  /\ UNCHANGED <<eventSequence, eventHistory>> /\ \A d \in Conns : GoesOn(d)
  BY <1>6, WriteStream DEF GoesOn, WriteMessage, hubVars
<1> QED
  BY <1>0, <1>1, <1>2, <1>3, <1>4, <1>5, <1>6 DEF AgentStep, HubNext

-----------------------------------------------------------------------------
(* The cursor.                                                             *)

(* A stream that goes on still shows the gap, and holds nothing older.     *)
LEMMA ShowsGapGrows ==
  ASSUME NEW s \in Seq(Messages), NEW m \in Messages, NEW cursor, NEW old,
         ShowsGap(s, cursor, old)
  PROVE  ShowsGap(Append(s, m), cursor, old)
<1> DEFINE t == Append(s, m)
<1>1. PICK i \in Tasks(s) : /\ FirstTask(s, i)
                            /\ s[i].sequence = cursor + 1 \/ s[i].sequence <= old
  BY DEF ShowsGap
<1>2. /\ m.event = "task_activity" => Tasks(t) = Tasks(s) \cup {Len(s) + 1}
      /\ m.event # "task_activity" => Tasks(t) = Tasks(s)
      /\ t[i] = s[i]
  BY AppendTasks
<1>3. Len(s) \in Nat /\ i \in 1..Len(s)
  BY LenProperties DEF Tasks
<1> HIDE DEF t
<1>4. i \in Tasks(t) /\ FirstTask(t, i)
  BY <1>1, <1>2, <1>3 DEF FirstTask
<1> QED
  BY <1>1, <1>2, <1>4 DEF ShowsGap, t

LEMMA ShowsGapOlder ==
  ASSUME NEW s \in Seq(Messages), NEW cursor, NEW old \in Nat, NEW older \in Nat, old <= older,
         ShowsGap(s, cursor, old)
  PROVE  ShowsGap(s, cursor, older)
<1>1. \A i \in Tasks(s) : s[i].sequence \in Nat
  BY TaskTypes
<1> QED
  BY <1>1 DEF ShowsGap

(* Steps that leave the reader alone, or close its stream. *)
LEMMA CursorKept ==
  ASSUME IInv, ReaderTypes, CursorInv, IInv',
         UNCHANGED <<conn, lastEventId, gapRetry, delivered>>,
         eventSequence' >= eventSequence, Oldest' >= Oldest,
         stream' = "open" => stream = "open" /\ GoesOn(conn)
  PROVE  CursorInv'
<1>1. /\ eventSequence \in Nat /\ Oldest \in Nat
      /\ eventSequence' \in Nat /\ Oldest' \in Nat
  <2>1. (IInv => /\ eventSequence \in Nat /\ Oldest \in Nat /\ Oldest >= 1
                 /\ Oldest <= eventSequence + 1)'
    BY OldestBound, PTL
  <2> QED
    BY <2>1, OldestBound
<1> SUFFICES ASSUME delivered # <<>> PROVE CursorInv'
  BY DEF CursorInv
<1>2. /\ lastEventId \in 0..eventSequence /\ LastDelivered <= lastEventId
      /\ lastEventId = LastDelivered \/ lastEventId < Oldest
      /\ gapRetry # None =>
           \E id \in (lastEventId + 1)..eventSequence : gapRetry = <<lastEventId, id>>
  BY DEF CursorInv
<1>3. LastDelivered' = LastDelivered
  BY DEF LastDelivered
<1>4. ASSUME stream' = "open"
      PROVE  /\ \A id \in IdsOf(Stream(conn)') : id > lastEventId
             /\ gapRetry # None => ShowsGap(Stream(conn)', lastEventId, Oldest')
  <2>1. /\ stream = "open" /\ GoesOn(conn) /\ Stream(conn) \in Seq(Messages)
        /\ \A id \in IdsOf(Stream(conn)) : id > lastEventId
        /\ gapRetry # None => ShowsGap(Stream(conn), lastEventId, Oldest)
    BY <1>4, StreamType DEF CursorInv, ReaderTypes, IInv
  <2>2. gapRetry # None => ShowsGap(Stream(conn), lastEventId, Oldest')
    BY <1>1, <2>1, ShowsGapOlder
  <2>3. CASE Stream(conn)' = Stream(conn)
    BY <2>1, <2>2, <2>3
  <2>4. ASSUME NEW m \in Messages, Stream(conn)' = Append(Stream(conn), m),
               m.event = "task_activity" => m.sequence = eventSequence + 1
        PROVE  /\ \A id \in IdsOf(Stream(conn)') : id > lastEventId
               /\ gapRetry # None => ShowsGap(Stream(conn)', lastEventId, Oldest')
    <3>1. \A id \in IdsOf(Append(Stream(conn), m)) :
            id \in IdsOf(Stream(conn)) \/ id = eventSequence + 1
      BY <2>1, <2>4, AppendIds
    <3>2. eventSequence + 1 > lastEventId
      BY <1>1, <1>2
    <3> QED
      BY <2>1, <2>2, <2>4, <3>1, <3>2, ShowsGapGrows
  <2> QED
    BY <2>1, <2>3, <2>4 DEF GoesOn
<1>5. lastEventId \in 0..eventSequence' /\ (lastEventId = LastDelivered \/ lastEventId < Oldest')
  BY <1>1, <1>2
<1>6. gapRetry # None =>
        \E id \in (lastEventId + 1)..eventSequence' : gapRetry = <<lastEventId, id>>
  BY <1>1, <1>2
<1> QED
  BY <1>2, <1>3, <1>4, <1>5, <1>6 DEF CursorInv

(* What a connection with the cursor shows first. *)
LEMMA OpenCursor ==
  ASSUME DeliveryInv, NEW c \in Conns, OpenStream(c), IInv'
  PROVE  CursorInv'
<1> DEFINE cursor == IF lastEventId = None THEN 0 ELSE lastEventId
<1> USE DEF DeliveryInv
<1>1. /\ UNCHANGED <<lastEventId, gapRetry, delivered, eventSequence, eventHistory>>
      /\ conn' = c /\ Subscribe(c, cursor)
  BY DEF OpenStream, Subscribe
<1>2. cursor \in 0..MaxSequence /\ cursor \in Nat
  BY BoundsAssumption DEF ReaderTypes, Ids
<1>3. Stream(c)' = Replay(cursor)
  BY <1>1, <1>2, SubscribeStream DEF IInv
<1>4. Stream(conn)' = Replay(cursor)
  BY <1>1, <1>3 DEF Stream
<1> SUFFICES ASSUME delivered # <<>> PROVE CursorInv'
  BY <1>1 DEF CursorInv
<1>5. /\ lastEventId \in 0..eventSequence /\ LastDelivered <= lastEventId
      /\ lastEventId = LastDelivered \/ lastEventId < Oldest
      /\ gapRetry # None =>
           \E id \in (lastEventId + 1)..eventSequence : gapRetry = <<lastEventId, id>>
  BY DEF CursorInv
<1>6. /\ eventSequence \in Nat /\ eventHistory \in Seq(1..MaxSequence) /\ HistoryIsSuffix
      /\ Oldest \in Nat
  BY OldestBound DEF IInv, TypeOK
<1>7. cursor = lastEventId
  <2>1. lastEventId \in 0..MaxSequence
    <3>1. eventSequence \in 0..MaxSequence
      BY DEF IInv, TypeOK
    <3> QED
      BY <1>5, <3>1, BoundsAssumption
  <2> QED
    BY <2>1, NoneAssumption
<1> HIDE DEF cursor
<1>8. PICK first \in 1..(eventSequence + 1) :
           /\ Len(Replay(cursor)) = eventSequence + 1 - first
           /\ \A i \in 1..(eventSequence + 1 - first) :
                Replay(cursor)[i] = TaskActivity(first + i - 1)
           /\ cursor >= eventSequence => first = eventSequence + 1
           /\ cursor < eventSequence =>
                /\ cursor < first /\ first <= eventSequence
                /\ first = cursor + 1 \/ first = Oldest
  BY <1>2, <1>6, ReplayContents DEF Oldest
<1>9. Tasks(Replay(cursor)) = 1..Len(Replay(cursor))
  BY <1>2, <1>6, ReplayIds
<1>10. \A id : TaskActivity(id).sequence = id
  BY DEF TaskActivity
<1>11. \A id \in IdsOf(Replay(cursor)) : id > lastEventId
  <2>1. ASSUME NEW i \in 1..Len(Replay(cursor))
        PROVE  Replay(cursor)[i].sequence > lastEventId
    <3>1. Replay(cursor)[i].sequence = first + i - 1 /\ i \in Nat /\ i >= 1
      BY <1>6, <1>8, <1>10
    <3>2. first > lastEventId
      BY <1>5, <1>6, <1>7, <1>8
    <3> QED
      BY <1>5, <1>6, <3>1, <3>2
  <2> QED
    BY <1>9, <2>1 DEF IdsOf
<1>12. ASSUME gapRetry # None PROVE ShowsGap(Replay(cursor), lastEventId, Oldest)
  <2>1. PICK id \in (lastEventId + 1)..eventSequence : gapRetry = <<lastEventId, id>>
    BY <1>5, <1>12
  <2>2. cursor < eventSequence
    BY <1>5, <1>6, <1>7, <2>1
  <2>3. 1 \in Tasks(Replay(cursor))
    BY <1>6, <1>8, <1>9, <2>2
  <2>4. Replay(cursor)[1].sequence = first
    <3>1. 1 \in 1..(eventSequence + 1 - first) /\ first + 1 - 1 = first
      BY <1>6, <1>8, <2>2
    <3> QED
      BY <1>8, <1>10, <3>1
  <2>5. FirstTask(Replay(cursor), 1)
    <3>1. Len(Replay(cursor)) \in Nat
      BY <1>6, <1>8
    <3> QED
      BY <1>9, <2>3, <3>1 DEF FirstTask
  <2> QED
    BY <1>6, <1>7, <1>8, <2>2, <2>3, <2>4, <2>5 DEF ShowsGap
<1>13. LastDelivered' = LastDelivered /\ Oldest' = Oldest
  BY <1>1 DEF LastDelivered, Oldest
<1> QED
  BY <1>1, <1>4, <1>5, <1>11, <1>12, <1>13 DEF CursorInv

(* One turn of the reader, by what it reads and what it makes of it.       *)
Reads(m) == /\ stream = "open" /\ wire[conn] # <<>> /\ m = Head(wire[conn])
            /\ wire' = [wire EXCEPT ![conn] = Tail(@)]
            /\ UNCHANGED <<hubVars, subs, chan, handler, after, current, lost,
                           conn, losses, restarts>>

ReadSnapshot(m) ==
  m.event = "snapshot" /\ UNCHANGED <<stream, lastEventId, gapRetry, delivered>>

Accept(m) ==
  /\ m.event = "task_activity"
  /\ lastEventId = None \/ m.sequence <= lastEventId + 1
  /\ lastEventId' = m.sequence /\ gapRetry' = None /\ stream' = "open"
  /\ delivered' = Append(delivered, m.sequence)

GiveUpGap(m) ==
  /\ m.event = "task_activity"
  /\ lastEventId # None /\ ~(m.sequence <= lastEventId + 1)
  /\ gapRetry = <<lastEventId, m.sequence>>
  /\ lastEventId' = m.sequence - 1 /\ gapRetry' = None /\ stream' = "closed"
  /\ delivered' = delivered

RetryGap(m) ==
  /\ m.event = "task_activity"
  /\ lastEventId # None /\ ~(m.sequence <= lastEventId + 1)
  /\ lastEventId' = lastEventId /\ gapRetry' = <<lastEventId, m.sequence>>
  /\ stream' = "closed" /\ delivered' = delivered

LEMMA ReadCases ==
  ASSUME IInv, ReaderTypes, ReadMessage
  PROVE  \E m \in Messages :
           Reads(m) /\ (ReadSnapshot(m) \/ Accept(m) \/ GiveUpGap(m) \/ RetryGap(m))
<1> DEFINE m == Head(wire[conn])
<1>1. m \in Messages /\ Reads(m)
  <2>1. wire[conn] \in Seq(Messages) /\ wire[conn] # <<>>
    BY DEF IInv, TypeOK, ReaderTypes, ReadMessage
  <2> QED
    BY <2>1, HeadTailProperties DEF ReadMessage, Reads
<1>2. m.event \in {"snapshot", "task_activity"}
  BY <1>1 DEF Messages
<1>3. IF m.event = "snapshot"
      THEN UNCHANGED <<stream, lastEventId, gapRetry, delivered>>
      ELSE LET step == AdvanceEventCursor(lastEventId, m.sequence, gapRetry)
           IN /\ lastEventId' = step.cursor
              /\ gapRetry' = step.retry
              /\ stream' = IF step.gap THEN "closed" ELSE "open"
              /\ delivered' = IF step.gap THEN delivered
                                          ELSE Append(delivered, m.sequence)
  BY DEF ReadMessage
<1> HIDE DEF m
<1>4. CASE m.event = "snapshot"
  BY <1>1, <1>3, <1>4 DEF ReadSnapshot
<1>5. CASE m.event = "task_activity"
  <2> DEFINE step == AdvanceEventCursor(lastEventId, m.sequence, gapRetry)
  <2>1. /\ lastEventId' = step.cursor
        /\ gapRetry' = step.retry
        /\ stream' = IF step.gap THEN "closed" ELSE "open"
        /\ delivered' = IF step.gap THEN delivered ELSE Append(delivered, m.sequence)
    BY <1>3, <1>5
  <2>2. CASE lastEventId = None \/ m.sequence <= lastEventId + 1
    <3>1. step = [cursor |-> m.sequence, retry |-> None, gap |-> FALSE]
      BY <2>2 DEF AdvanceEventCursor
    <3> HIDE DEF step
    <3> QED
      BY <1>1, <1>5, <2>1, <2>2, <3>1 DEF Accept
  <2>3. CASE /\ ~(lastEventId = None \/ m.sequence <= lastEventId + 1)
             /\ gapRetry = <<lastEventId, m.sequence>>
    <3>1. step = [cursor |-> m.sequence - 1, retry |-> None, gap |-> TRUE]
      BY <2>3 DEF AdvanceEventCursor
    <3> HIDE DEF step
    <3> QED
      BY <1>1, <1>5, <2>1, <2>3, <3>1 DEF GiveUpGap
  <2>4. CASE /\ ~(lastEventId = None \/ m.sequence <= lastEventId + 1)
             /\ gapRetry # <<lastEventId, m.sequence>>
    <3>1. step = [cursor |-> lastEventId, retry |-> <<lastEventId, m.sequence>>, gap |-> TRUE]
      BY <2>4 DEF AdvanceEventCursor
    <3> HIDE DEF step
    <3> QED
      BY <1>1, <1>5, <2>1, <2>4, <3>1 DEF RetryGap
  <2> QED
    BY <2>2, <2>3, <2>4
<1> QED
  BY <1>2, <1>4, <1>5

(* What is read leaves the stream of the reader's request, and no other.   *)
LEMMA ReadStream ==
  ASSUME IInv, IdsOrdered, ReaderTypes, NEW m \in Messages, Reads(m)
  PROVE  /\ Stream(conn) \in Seq(Messages) /\ Stream(conn) # <<>>
         /\ m = Head(Stream(conn)) /\ Increasing(Stream(conn))
         /\ Stream(conn)' = Tail(Stream(conn))
         /\ \A d \in Conns : d # conn => Stream(d)' = Stream(d)
<1>1. /\ wire \in [Conns -> Seq(Messages)] /\ chan \in [Conns -> Seq(Messages)]
      /\ conn \in Conns /\ conn' = conn /\ chan' = chan /\ wire[conn] # <<>>
  BY DEF IInv, TypeOK, ReaderTypes, Reads
<1>2. wire'[conn] = Tail(wire[conn]) /\ \A d \in Conns : d # conn => wire'[d] = wire[d]
  BY <1>1 DEF Reads
<1>3. wire[conn] \in Seq(Messages) /\ chan[conn] \in Seq(Messages)
  BY <1>1
<1>4. /\ Tail(wire[conn]) \o chan[conn] = Tail(wire[conn] \o chan[conn])
      /\ Head(wire[conn] \o chan[conn]) = Head(wire[conn])
      /\ wire[conn] \o chan[conn] # <<>>
  BY <1>1, <1>3, TailStream
<1>5. Stream(conn) \in Seq(Messages) /\ Increasing(Stream(conn))
  BY <1>1, StreamType DEF IdsOrdered, IInv
<1> QED
  BY <1>1, <1>2, <1>4, <1>5 DEF Stream, Reads

LEMMA ReadKeepsIInv ==
  ASSUME IInv, IdsOrdered, ReaderTypes, NEW m \in Messages, Reads(m)
  PROVE  IInv' /\ IdsOrdered'
<1>1. /\ Stream(conn) \in Seq(Messages) /\ Stream(conn) # <<>> /\ Increasing(Stream(conn))
      /\ Stream(conn)' = Tail(Stream(conn)) /\ conn' = conn
      /\ \A d \in Conns : d # conn => Stream(d)' = Stream(d)
      /\ eventSequence' = eventSequence
  BY ReadStream DEF Reads, hubVars
<1>2. Tail(wire[conn]) \in Seq(Messages)
  BY HeadTailProperties DEF Reads, IInv, TypeOK, ReaderTypes
<1>3. TypeOK'
  BY <1>2 DEF Reads, hubVars, IInv, TypeOK
<1>4. HistoryIsSuffix' /\ ReplayNeverBlocks'
  BY DEF Reads, hubVars, IInv, HistoryIsSuffix, ReplayNeverBlocks
<1>5. ASSUME NEW d \in Conns
      PROVE  Increasing(Stream(d)') /\ IdsOf(Stream(d)') \subseteq 1..eventSequence
  <2>1. Increasing(Stream(d)) /\ IdsOf(Stream(d)) \subseteq 1..eventSequence
    BY DEF IdsOrdered
  <2>2. CASE d = conn
    <3>1. Stream(d)' = Tail(Stream(d))
      BY <1>1, <2>2 DEF Stream
    <3> QED
      BY <1>1, <2>1, <2>2, <3>1, TailOrdered
  <2> QED
    BY <1>1, <2>1, <2>2
<1>6. IdsOrdered'
  BY <1>1, <1>5 DEF IdsOrdered, Increasing, IdsOf, Tasks
<1> QED
  BY <1>3, <1>4, <1>6 DEF IInv

(* A task event that is read is the first of what was left; the rest is    *)
(* after it.                                                               *)
LEMMA ReadTask ==
  ASSUME DeliveryInv, NEW m \in Messages, Reads(m), m.event = "task_activity"
  PROVE  /\ m.sequence \in 1..eventSequence
         /\ \A id \in IdsOf(Stream(conn)') : m.sequence < id
         /\ delivered # <<>> =>
              /\ m.sequence > lastEventId
              /\ gapRetry # None => m.sequence = lastEventId + 1 \/ m.sequence <= Oldest
<1> USE DEF DeliveryInv
<1>1. /\ Stream(conn) \in Seq(Messages) /\ Stream(conn) # <<>>
      /\ m = Head(Stream(conn)) /\ Increasing(Stream(conn))
      /\ Stream(conn)' = Tail(Stream(conn))
  BY ReadStream
<1>2. /\ m.sequence \in IdsOf(Stream(conn))
      /\ \A id \in IdsOf(Stream(conn)') : m.sequence < id
  BY <1>1, TailOrdered
<1>3. m = Stream(conn)[1] /\ 1 \in Tasks(Stream(conn))
  BY <1>1, TailTasks
<1>4. IdsOf(Stream(conn)) \subseteq 1..eventSequence
  BY DEF IdsOrdered, ReaderTypes
<1>5. ASSUME delivered # <<>>, gapRetry # None
      PROVE  m.sequence = lastEventId + 1 \/ m.sequence <= Oldest
  <2>1. ShowsGap(Stream(conn), lastEventId, Oldest)
    BY <1>5 DEF CursorInv, Reads
  <2>2. PICK i \in Tasks(Stream(conn)) :
             /\ FirstTask(Stream(conn), i)
             /\ \/ Stream(conn)[i].sequence = lastEventId + 1
                \/ Stream(conn)[i].sequence <= Oldest
    BY <2>1 DEF ShowsGap
  <2>3. i = 1
    <3>1. Len(Stream(conn)) \in Nat
      BY <1>1, LenProperties
    <3> QED
      BY <1>3, <2>2, <3>1 DEF FirstTask, Tasks
  <2> QED
    BY <1>3, <2>2, <2>3
<1> QED
  BY <1>2, <1>4, <1>5 DEF CursorInv, Reads

LEMMA ReadKeepsCursor ==
  ASSUME DeliveryInv, NEW m \in Messages, Reads(m),
         ReadSnapshot(m) \/ Accept(m) \/ GiveUpGap(m) \/ RetryGap(m)
  PROVE  ReaderTypes' /\ CursorInv'
<1> USE DEF DeliveryInv
<1>1. /\ eventSequence \in Nat /\ Oldest \in Nat /\ Oldest <= eventSequence + 1
      /\ eventSequence \in 0..MaxSequence /\ MaxSequence \in Nat
  BY OldestBound, BoundsAssumption DEF IInv, TypeOK
<1>2. /\ eventSequence' = eventSequence /\ Oldest' = Oldest /\ conn' = conn
      /\ stream = "open" /\ losses' = losses /\ restarts' = restarts
  BY DEF Reads, hubVars, Oldest
<1>3. CASE ReadSnapshot(m)
  <2>1. UNCHANGED <<stream, lastEventId, gapRetry, delivered>> /\ m.event # "task_activity"
    BY <1>3 DEF ReadSnapshot
  <2>2. /\ Stream(conn) \in Seq(Messages) /\ Stream(conn) # <<>>
        /\ m = Head(Stream(conn)) /\ Increasing(Stream(conn))
        /\ Stream(conn)' = Tail(Stream(conn))
    BY ReadStream
  <2>3. ReaderTypes'
    BY <1>2, <2>1 DEF ReaderTypes
  <2>4. ASSUME delivered # <<>>
        PROVE  /\ \A id \in IdsOf(Stream(conn)') : id > lastEventId
               /\ gapRetry # None => ShowsGap(Stream(conn)', lastEventId, Oldest)
    <3>1. /\ \A id \in IdsOf(Stream(conn)) : id > lastEventId
          /\ gapRetry # None => ShowsGap(Stream(conn), lastEventId, Oldest)
      BY <1>2, <2>4 DEF CursorInv
    <3>2. IdsOf(Tail(Stream(conn))) \subseteq IdsOf(Stream(conn))
      BY <2>2, TailOrdered
    <3> DEFINE s == Stream(conn)
    <3>3. /\ 1 \notin Tasks(s)
          /\ \A i \in Tasks(Tail(s)) : i \in Nat /\ i + 1 \in Tasks(s) /\ Tail(s)[i] = s[i + 1]
          /\ \A i \in Tasks(s) : i # 1 => i - 1 \in Tasks(Tail(s)) /\ Tail(s)[i - 1] = s[i]
      BY <2>1, <2>2, TailTasks
    <3>4. \A i \in Tasks(s) : i \in Nat
      BY DEF Tasks
    <3> HIDE DEF s
    <3>5. ASSUME NEW i \in Tasks(s), FirstTask(s, i)
          PROVE  FirstTask(Tail(s), i - 1) /\ Tail(s)[i - 1] = s[i]
      <4>1. i # 1 /\ i - 1 \in Tasks(Tail(s)) /\ Tail(s)[i - 1] = s[i]
        BY <3>3
      <4>2. ASSUME NEW j \in Tasks(Tail(s)) PROVE i - 1 <= j
        <5>1. j \in Nat /\ i <= j + 1
          BY <3>3, <3>5 DEF FirstTask
        <5> QED
          BY <3>4, <5>1
      <4> QED
        BY <4>1, <4>2 DEF FirstTask
    <3>6. ShowsGap(s, lastEventId, Oldest) => ShowsGap(Tail(s), lastEventId, Oldest)
      <4> SUFFICES ASSUME ShowsGap(s, lastEventId, Oldest)
                   PROVE  ShowsGap(Tail(s), lastEventId, Oldest)
        OBVIOUS
      <4>1. PICK i \in Tasks(s) : /\ FirstTask(s, i)
                                  /\ \/ s[i].sequence = lastEventId + 1
                                     \/ s[i].sequence <= Oldest
        BY DEF ShowsGap
      <4>2. FirstTask(Tail(s), i - 1) /\ Tail(s)[i - 1] = s[i]
        BY <3>5, <4>1
      <4>3. i - 1 \in Tasks(Tail(s))
        BY <4>2 DEF FirstTask
      <4> QED
        BY <4>1, <4>2, <4>3 DEF ShowsGap
    <3> QED
      BY <2>2, <3>1, <3>2, <3>6 DEF s
  <2>5. CursorInv'
    <3> SUFFICES ASSUME delivered # <<>> PROVE CursorInv'
      BY <2>1 DEF CursorInv
    <3>1. /\ lastEventId \in 0..eventSequence /\ LastDelivered <= lastEventId
          /\ lastEventId = LastDelivered \/ lastEventId < Oldest
          /\ gapRetry # None =>
               \E id \in (lastEventId + 1)..eventSequence : gapRetry = <<lastEventId, id>>
      BY DEF CursorInv
    <3>2. LastDelivered' = LastDelivered
      BY <2>1 DEF LastDelivered
    <3> QED
      BY <1>2, <2>1, <2>4, <3>1, <3>2 DEF CursorInv
  <2> QED
    BY <2>3, <2>5
<1>4. CASE Accept(m)
  <2>1. /\ lastEventId' = m.sequence /\ gapRetry' = None /\ stream' = "open"
        /\ delivered' = Append(delivered, m.sequence) /\ m.event = "task_activity"
    BY <1>4 DEF Accept
  <2>2. m.sequence \in 1..eventSequence /\ \A id \in IdsOf(Stream(conn)') : m.sequence < id
    BY <2>1, ReadTask
  <2>3. m.sequence \in 1..MaxSequence /\ m.sequence \in Ids
    BY <1>1, <2>2 DEF Ids
  <2>4. /\ delivered' \in Seq(1..MaxSequence) /\ Len(delivered') = Len(delivered) + 1
        /\ delivered'[Len(delivered) + 1] = m.sequence
    BY <2>1, <2>3, AppendProperties DEF ReaderTypes
  <2>5. LastDelivered' = m.sequence
    BY <2>4 DEF LastDelivered
  <2>6. ReaderTypes'
    BY <1>2, <2>1, <2>3, <2>4 DEF ReaderTypes
  <2>7. ASSUME NEW id \in IdsOf(Stream(conn)') PROVE id > m.sequence
    <3>1. IdsOf(Stream(conn)') \subseteq 1..eventSequence
      BY ReadStream, TailOrdered DEF IdsOrdered, ReaderTypes
    <3> QED
      BY <1>1, <2>2, <3>1
  <2>8. CursorInv'
    BY <1>1, <1>2, <2>1, <2>2, <2>5, <2>7 DEF CursorInv
  <2> QED
    BY <2>6, <2>8
<1>5. CASE GiveUpGap(m)
  <2>1. /\ lastEventId' = m.sequence - 1 /\ gapRetry' = None /\ stream' = "closed"
        /\ delivered' = delivered /\ m.event = "task_activity"
        /\ lastEventId # None /\ ~(m.sequence <= lastEventId + 1)
        /\ gapRetry = <<lastEventId, m.sequence>>
    BY <1>5 DEF GiveUpGap
  <2>2. m.sequence \in 1..eventSequence
    BY <2>1, ReadTask
  <2>3. m.sequence - 1 \in Ids /\ m.sequence - 1 \in 0..eventSequence
    BY <1>1, <2>2 DEF Ids
  <2>4. ReaderTypes'
    BY <1>2, <2>1, <2>3 DEF ReaderTypes
  <2>5. CursorInv'
    <3> SUFFICES ASSUME delivered # <<>> PROVE CursorInv'
      BY <2>1 DEF CursorInv
    <3>1. gapRetry # None
      <4>1. gapRetry \in Ids \X Ids \/ gapRetry = None
        BY DEF ReaderTypes
      <4>2. lastEventId \in Ids /\ m.sequence \in Ids
        BY <1>1, <2>1, <2>2 DEF ReaderTypes, Ids
      <4>3. <<lastEventId, m.sequence>> \in Ids \X Ids
        BY <4>2
      <4> QED
        BY <2>1, <4>3, NoneAssumption DEF Ids
    <3>2. /\ lastEventId \in 0..eventSequence /\ LastDelivered <= lastEventId
          /\ m.sequence <= Oldest
      BY <2>1, <3>1, ReadTask DEF CursorInv
    <3>3. LastDelivered' = LastDelivered /\ LastDelivered \in Nat
      <4>1. Len(delivered) \in 1..Len(delivered)
        BY EmptySeq DEF ReaderTypes
      <4>2. delivered[Len(delivered)] \in 1..MaxSequence
        BY <4>1, LenProperties DEF ReaderTypes
      <4> QED
        BY <2>1, <4>2 DEF LastDelivered
    <3>4. LastDelivered' <= lastEventId' /\ lastEventId' < Oldest
      BY <1>1, <2>1, <2>2, <3>2, <3>3
    <3> QED
      BY <1>2, <2>1, <2>3, <3>4 DEF CursorInv
  <2> QED
    BY <2>4, <2>5
<1>6. CASE RetryGap(m)
  <2>1. /\ lastEventId' = lastEventId /\ gapRetry' = <<lastEventId, m.sequence>>
        /\ stream' = "closed" /\ delivered' = delivered /\ m.event = "task_activity"
        /\ lastEventId # None /\ ~(m.sequence <= lastEventId + 1)
    BY <1>6 DEF RetryGap
  <2>2. m.sequence \in 1..eventSequence
    BY <2>1, ReadTask
  <2>3. m.sequence \in Ids /\ lastEventId \in Ids
    BY <1>1, <2>1, <2>2 DEF Ids, ReaderTypes
  <2>4. ReaderTypes'
    BY <1>2, <2>1, <2>3 DEF ReaderTypes
  <2>5. CursorInv'
    <3> SUFFICES ASSUME delivered # <<>> PROVE CursorInv'
      BY <2>1 DEF CursorInv
    <3>1. /\ lastEventId \in 0..eventSequence /\ LastDelivered <= lastEventId
          /\ lastEventId = LastDelivered \/ lastEventId < Oldest
          /\ m.sequence > lastEventId
      BY <2>1, ReadTask DEF CursorInv
    <3>2. m.sequence \in (lastEventId + 1)..eventSequence
      BY <1>1, <2>2, <3>1
    <3>3. LastDelivered' = LastDelivered
      BY <2>1 DEF LastDelivered
    <3> QED
      BY <1>2, <2>1, <3>1, <3>2, <3>3 DEF CursorInv
  <2> QED
    BY <2>4, <2>5
<1> QED
  BY <1>3, <1>4, <1>5, <1>6
-----------------------------------------------------------------------------
(* The steps of the composition.                                           *)
LEMMA InitDelivery == DeliveryInit => DeliveryInv
<1> SUFFICES ASSUME DeliveryInit PROVE DeliveryInv
  OBVIOUS
<1>1. IInv /\ IdsOrdered
  BY InitIInv, InitIdsOrdered DEF DeliveryInit
<1>2. ReaderTypes
  BY DeliveryBounds, EmptySeq DEF DeliveryInit, ReaderTypes
<1>3. CursorInv
  BY DEF DeliveryInit, CursorInv
<1> QED
  BY <1>1, <1>2, <1>3 DEF DeliveryInv

LEMMA ForgetKeeps ==
  ASSUME IInv, IdsOrdered, ReaderTypes, NEW c \in Conns, ForgetStuck(c)
  PROVE  /\ IInv' /\ IdsOrdered'
         /\ \A d \in Conns : d # c => Stream(d)' = Stream(d)
<1>1. /\ UNCHANGED <<hubVars, current, wire>>
      /\ handler' = [handler EXCEPT ![c] = "idle"] /\ subs' = subs \ {c}
      /\ chan' = [chan EXCEPT ![c] = <<>>] /\ after' = [after EXCEPT ![c] = 0]
      /\ lost' = lost \ {c}
  BY DEF ForgetStuck
<1>2. <<>> \in Seq(Messages) /\ 0 \in 0..MaxSequence
  BY EmptySeq, BoundsAssumption
<1>3. TypeOK'
  BY <1>1, <1>2 DEF hubVars, IInv, TypeOK
<1>4. HistoryIsSuffix' /\ ReplayNeverBlocks'
  BY <1>1 DEF hubVars, IInv, HistoryIsSuffix, ReplayNeverBlocks
<1>5. wire[c] \in Seq(Messages) /\ chan[c] \in Seq(Messages)
  BY DEF IInv, TypeOK
<1>6. \A d \in Conns : d # c => Stream(d)' = Stream(d)
  BY <1>1 DEF Stream, IInv, TypeOK
<1>7. Stream(c)' = wire[c]
  <2>1. wire'[c] = wire[c] /\ chan'[c] = <<>>
    BY <1>1 DEF IInv, TypeOK
  <2>2. wire[c] \o <<>> = wire[c]
    BY <1>5, ConcatEmptySeq
  <2> QED
    BY <2>1, <2>2 DEF Stream
<1>8. ASSUME NEW d \in Conns
      PROVE  Increasing(Stream(d)') /\ IdsOf(Stream(d)') \subseteq 1..eventSequence
  <2>1. Increasing(Stream(d)) /\ IdsOf(Stream(d)) \subseteq 1..eventSequence
    BY DEF IdsOrdered
  <2>2. CASE d = c
    <3>1. Increasing(wire[c]) /\ IdsOf(wire[c]) \subseteq IdsOf(wire[c] \o chan[c])
      BY <1>5, <2>1, <2>2, PrefixOrdered DEF Stream
    <3> QED
      BY <1>7, <2>1, <2>2, <3>1 DEF Stream
  <2> QED
    BY <1>6, <2>1, <2>2
<1>9. IdsOrdered'
  BY <1>1, <1>8 DEF hubVars, IdsOrdered, Increasing, IdsOf, Tasks
<1> QED
  BY <1>3, <1>4, <1>6, <1>9 DEF IInv

LEMMA RestartKeeps ==
  ASSUME IInv, RestartAgent
  PROVE  IInv' /\ IdsOrdered'
<1> USE LimitsAssumption, BoundsAssumption DEF IInv
<1>1. <<>> \in Seq(1..MaxSequence) /\ <<>> \in Seq(Messages) /\ Len(<<>>) = 0
  BY EmptySeq
<1>2. snapshot' \in Snapshots /\ snapshot.content \in Contents
  <2>1. /\ snapshot \in [generatedAt : 0..MaxRebuilds, content : Contents]
        /\ snapshot' = [snapshot EXCEPT !.generatedAt = 0] /\ 0 \in 0..MaxRebuilds
    BY DEF RestartAgent, TypeOK, Snapshots
  <2> QED
    BY <2>1 DEF Snapshots
<1>3. TypeOK'
  <2>1. /\ mu' = "free" /\ emitLeft' = 0 /\ eventSequence' = 0 /\ eventHistory' = <<>>
        /\ streamReady' = FALSE /\ streamSignature' = snapshot.content
        /\ subs' = {} /\ lost' = {} /\ chan' = [c \in Conns |-> <<>>]
        /\ handler' = [c \in Conns |-> "idle"] /\ after' = [c \in Conns |-> 0]
        /\ current' = [c \in Conns |-> snapshot'] /\ wire' = [c \in Conns |-> <<>>]
    BY DEF RestartAgent
  <2>2. chan' \in [Conns -> Seq(Messages)] /\ wire' \in [Conns -> Seq(Messages)]
    BY <1>1, <2>1
  <2>3. current' \in [Conns -> Snapshots] /\ after' \in [Conns -> 0..MaxSequence]
    BY <1>2, <2>1
  <2>4. handler' \in [Conns -> {"idle", "subscribing", "streaming"}]
    BY <2>1
  <2>5. emitLeft' \in 0..MaxBatch /\ eventSequence' + emitLeft' <= MaxSequence
        /\ eventSequence' \in 0..MaxSequence
    BY <2>1
  <2> QED
    BY <1>1, <1>2, <2>1, <2>2, <2>3, <2>4, <2>5 DEF TypeOK
<1>4. HistoryIsSuffix' /\ ReplayNeverBlocks'
  BY <1>1 DEF RestartAgent, HistoryIsSuffix, ReplayNeverBlocks
<1>5. \A c \in Conns : Stream(c)' = <<>>
  BY EmptySeq, ConcatEmptySeq DEF RestartAgent, Stream
<1>6. IdsOrdered'
  BY <1>5, EmptyIds DEF IdsOrdered, Increasing, IdsOf, Tasks
<1> QED
  BY <1>3, <1>4, <1>6

LEMMA NextDelivery == DeliveryInv /\ [DeliveryNext]_allVars => DeliveryInv'
<1> SUFFICES ASSUME DeliveryInv, [DeliveryNext]_allVars PROVE DeliveryInv'
  OBVIOUS
<1> USE DEF DeliveryInv
<1>0. eventSequence \in Nat /\ Oldest \in Nat
  BY OldestBound
<1>1. CASE AgentStep
  <2>1. /\ eventSequence' >= eventSequence /\ Oldest' >= Oldest
        /\ \A d \in Conns : GoesOn(d)
        /\ [Next]_vars
    BY <1>1, AgentStepEffect
  <2>2. IInv' /\ IdsOrdered'
    BY <2>1, NextIInv, NextIdsOrdered
  <2>3. UNCHANGED haVars
    BY <1>1 DEF AgentStep
  <2>4. ReaderTypes'
    BY <2>3 DEF haVars, ReaderTypes
  <2>5. CursorInv'
    BY <2>1, <2>2, <2>3, CursorKept DEF haVars, ReaderTypes
  <2> QED
    BY <2>2, <2>4, <2>5
<1>2. ASSUME NEW c \in Conns, OpenStream(c) PROVE DeliveryInv'
  <2> DEFINE cursor == IF lastEventId = None THEN 0 ELSE lastEventId
  <2>1. cursor \in 0..MaxSequence
    BY BoundsAssumption DEF ReaderTypes, Ids
  <2>2. Subscribe(c, cursor)
    BY <1>2 DEF OpenStream
  <2> HIDE DEF cursor
  <2>3. Next
    BY <2>1, <2>2 DEF Next
  <2>4. IInv' /\ IdsOrdered'
    BY <2>3, NextIInv, NextIdsOrdered
  <2>5. ReaderTypes'
    BY <1>2 DEF OpenStream, ReaderTypes
  <2>6. CursorInv'
    BY <1>2, <2>4, OpenCursor
  <2> QED
    BY <2>4, <2>5, <2>6
<1>3. ASSUME NEW c \in Conns, ClientGone(c) PROVE DeliveryInv'
  <2>1. Unsubscribe(c) /\ UNCHANGED haVars /\ (stream = "closed" \/ c # conn)
    BY <1>3 DEF ClientGone
  <2>2. IInv' /\ IdsOrdered'
    BY <2>1, NextIInv, NextIdsOrdered DEF Next
  <2>3. ReaderTypes'
    BY <2>1 DEF haVars, ReaderTypes
  <2>4. UNCHANGED <<eventSequence, eventHistory>>
    BY <2>1 DEF Unsubscribe, hubVars
  <2>5. stream' = "open" => stream = "open" /\ GoesOn(conn)
    <3>1. conn \in Conns /\ (c # conn => Stream(conn)' = Stream(conn))
      <4>1. conn \in Conns /\ TypeOK /\ conn' = conn
        BY <2>1 DEF ReaderTypes, IInv, haVars
      <4>2. chan'[conn] = (IF conn = c THEN <<>> ELSE chan[conn])
            /\ wire'[conn] = (IF conn = c THEN <<>> ELSE wire[conn])
        BY <2>1, <4>1 DEF Unsubscribe, TypeOK
      <4> QED
        BY <4>1, <4>2 DEF Stream
    <3> QED
      BY <2>1, <3>1 DEF haVars, GoesOn
  <2>6. Oldest' = Oldest
    BY <2>4 DEF Oldest
  <2>7. CursorInv'
    BY <1>0, <2>1, <2>2, <2>4, <2>5, <2>6, CursorKept DEF haVars
  <2> QED
    BY <2>2, <2>3, <2>7
<1>4. ASSUME NEW c \in Conns, ForgetStuck(c) PROVE DeliveryInv'
  <2>1. /\ IInv' /\ IdsOrdered' /\ \A d \in Conns : d # c => Stream(d)' = Stream(d)
    BY <1>4, ForgetKeeps
  <2>2. UNCHANGED <<hubVars, haVars>> /\ (stream = "closed" \/ c # conn)
    BY <1>4 DEF ForgetStuck
  <2>3. ReaderTypes'
    BY <2>2 DEF haVars, ReaderTypes
  <2>4. stream' = "open" => stream = "open" /\ GoesOn(conn)
    <3>1. c # conn => Stream(conn)' = Stream(conn)
      BY <2>1, <2>2 DEF ReaderTypes, haVars, Stream
    <3> QED
      BY <2>2, <3>1 DEF haVars, GoesOn
  <2>5. eventSequence' = eventSequence /\ Oldest' = Oldest
    BY <2>2 DEF hubVars, Oldest
  <2>6. CursorInv'
    BY <1>0, <2>1, <2>2, <2>4, <2>5, CursorKept DEF haVars
  <2> QED
    BY <2>1, <2>3, <2>6
<1>5. CASE ReadMessage
  <2>1. PICK m \in Messages :
             Reads(m) /\ (ReadSnapshot(m) \/ Accept(m) \/ GiveUpGap(m) \/ RetryGap(m))
    BY <1>5, ReadCases
  <2>2. IInv' /\ IdsOrdered'
    BY <2>1, ReadKeepsIInv
  <2>3. ReaderTypes' /\ CursorInv'
    BY <2>1, ReadKeepsCursor
  <2> QED
    BY <2>2, <2>3
<1>6. CASE LoseStream \/ SilenceTimeout
  <2>1. /\ UNCHANGED <<vars, conn, lastEventId, gapRetry, delivered, restarts>>
        /\ stream' = "closed" /\ losses' \in 0..MaxLosses
    <3>1. losses \in 0..MaxLosses /\ MaxLosses \in Nat
      BY DeliveryBounds DEF ReaderTypes
    <3> QED
      BY <1>6, <3>1 DEF LoseStream, SilenceTimeout
  <2>2. IInv' /\ IdsOrdered'
    BY <2>1, NextIInv, NextIdsOrdered
  <2>3. ReaderTypes'
    BY <2>1 DEF ReaderTypes
  <2>4. eventSequence' = eventSequence /\ Oldest' = Oldest
    BY <2>1 DEF vars, hubVars, Oldest
  <2>5. CursorInv'
    BY <1>0, <2>1, <2>2, <2>4, CursorKept
  <2> QED
    BY <2>2, <2>3, <2>5
<1>7. CASE RestartAgent
  <2>1. IInv' /\ IdsOrdered'
    BY <1>7, RestartKeeps
  <2>2. restarts' \in 0..MaxRestarts
    <3>1. restarts \in 0..MaxRestarts /\ MaxRestarts \in Nat
      BY DeliveryBounds DEF ReaderTypes
    <3> QED
      BY <1>7, <3>1 DEF RestartAgent
  <2>3. ReaderTypes'
    BY <1>7, <2>2, EmptySeq DEF RestartAgent, ReaderTypes
  <2>4. CursorInv'
    BY <1>7 DEF RestartAgent, CursorInv
  <2> QED
    BY <2>1, <2>3, <2>4
<1>8. CASE UNCHANGED allVars
  <2>1. UNCHANGED <<vars, haVars>>
    BY <1>8 DEF allVars
  <2>2. IInv' /\ IdsOrdered'
    BY <2>1, NextIInv, NextIdsOrdered
  <2>3. ReaderTypes'
    BY <2>1 DEF haVars, ReaderTypes
  <2>4. eventSequence' = eventSequence /\ Oldest' = Oldest
    BY <2>1 DEF vars, hubVars, Oldest
  <2>5. stream' = "open" => stream = "open" /\ GoesOn(conn)
    BY <2>1 DEF vars, connVars, haVars, GoesOn, Stream
  <2>6. CursorInv'
    BY <1>0, <2>1, <2>2, <2>4, <2>5, CursorKept DEF haVars
  <2> QED
    BY <2>2, <2>3, <2>6
<1>9. CASE ReloadEntry
  <2>1. /\ UNCHANGED <<vars, conn, restarts>> /\ stream' = "closed" /\ lastEventId' = None
        /\ gapRetry' = None /\ delivered' = <<>> /\ losses' \in 0..MaxLosses
    <3>1. losses \in 0..MaxLosses /\ MaxLosses \in Nat
      BY DeliveryBounds DEF ReaderTypes
    <3> QED
      BY <1>9, <3>1 DEF ReloadEntry
  <2>2. IInv' /\ IdsOrdered'
    BY <2>1, NextIInv, NextIdsOrdered
  <2>3. ReaderTypes'
    BY <2>1, EmptySeq DEF ReaderTypes
  <2>4. CursorInv'
    BY <2>1 DEF CursorInv
  <2> QED
    BY <2>2, <2>3, <2>4
<1> QED
  BY <1>1, <1>2, <1>3, <1>4, <1>5, <1>6, <1>7, <1>8, <1>9 DEF DeliveryNext

LEMMA SpecDelivery == DeliverySpec => []DeliveryInv
BY InitDelivery, NextDelivery, PTL DEF DeliverySpec

(* The types of the composition: whatever is lost or restarted, the cursor *)
(* and the retry mark of the reader hold ids the agent can have sent.      *)
THEOREM DeliveryTypes == DeliverySpec => []DeliveryTypeOK
<1>1. DeliveryInv => DeliveryTypeOK
  BY DEF DeliveryInv, IInv, ReaderTypes, DeliveryTypeOK
<1> QED
  BY <1>1, SpecDelivery, PTL

-----------------------------------------------------------------------------
(* The refinement, step by step.                                           *)

(* What is accepted is after the last delivery, and what lies between them *)
(* is gone: the cursor skipped it only after a gap that could not close.   *)
LEMMA AcceptDelivers ==
  ASSUME DeliveryInv, NEW m \in Messages, Reads(m), Accept(m)
  PROVE  \E id \in 1..eventSequence : Feed!Deliver(id)
<1> USE DEF DeliveryInv
<1>1. /\ lastEventId = None \/ m.sequence <= lastEventId + 1
      /\ delivered' = Append(delivered, m.sequence) /\ m.event = "task_activity"
  BY DEF Accept
<1>2. /\ m.sequence \in 1..eventSequence
      /\ delivered # <<>> => m.sequence > lastEventId
  BY <1>1, ReadTask
<1>3. UNCHANGED <<eventSequence, eventHistory>>
  BY DEF Reads, hubVars
<1>4. eventSequence \in 0..MaxSequence /\ eventSequence \in Nat /\ Oldest \in Nat
  BY OldestBound DEF IInv, TypeOK
<1>5. ASSUME delivered # <<>>
      PROVE  /\ m.sequence > LastDelivered
             /\ \A skipped \in (LastDelivered + 1)..(m.sequence - 1) : skipped < Oldest
  <2>1. /\ lastEventId \in 0..eventSequence /\ LastDelivered <= lastEventId
        /\ lastEventId = LastDelivered \/ lastEventId < Oldest
    BY <1>5 DEF CursorInv
  <2>2. lastEventId # None
    BY <1>4, <2>1, NoneAssumption, BoundsAssumption
  <2>3. LastDelivered \in Nat
    <3>1. Len(delivered) \in 1..Len(delivered)
      BY <1>5, EmptySeq DEF ReaderTypes
    <3>2. delivered[Len(delivered)] \in 1..MaxSequence
      BY <3>1, LenProperties DEF ReaderTypes
    <3> QED
      BY <3>2 DEF LastDelivered
  <2>4. m.sequence = lastEventId + 1
    BY <1>1, <1>2, <1>4, <1>5, <2>1, <2>2
  <2> QED
    BY <1>4, <2>1, <2>3, <2>4
<1>6. Feed!Deliver(m.sequence)
  BY <1>1, <1>3, <1>5 DEF Feed!Deliver, LastDelivered, Oldest
<1> QED
  BY <1>2, <1>6

LEMMA StepFeeds ==
  DeliveryInv /\ [DeliveryNext]_allVars => [Feed!Next]_(Feed!vars)
<1> SUFFICES ASSUME DeliveryInv, [DeliveryNext]_allVars PROVE [Feed!Next]_(Feed!vars)
  OBVIOUS
<1>1. ASSUME UNCHANGED <<eventSequence, eventHistory, delivered>>
      PROVE  UNCHANGED Feed!vars
  BY <1>1 DEF Feed!vars
<1>2. CASE AgentStep
  <2>1. delivered' = delivered
    BY <1>2 DEF AgentStep, haVars
  <2>2. CASE EmitTaskEvent
    <3>1. eventSequence' = eventSequence + 1 /\ Oldest' \in Oldest..eventSequence'
      BY <2>2, EmitPublishes DEF DeliveryInv
    <3>2. Feed!Publish
      BY <2>1, <3>1 DEF Feed!Publish, Oldest
    <3> QED
      BY <3>2 DEF Feed!Next
  <2>3. CASE UNCHANGED <<eventSequence, eventHistory>>
    BY <1>1, <2>1, <2>3
  <2> QED
    BY <1>2, <2>2, <2>3, AgentStepEffect DEF DeliveryInv
<1>3. ASSUME NEW c \in Conns, OpenStream(c) \/ ClientGone(c) \/ ForgetStuck(c)
      PROVE  UNCHANGED Feed!vars
  <2>1. UNCHANGED <<eventSequence, eventHistory, delivered>>
    BY <1>3 DEF OpenStream, Subscribe, ClientGone, Unsubscribe, ForgetStuck, hubVars, haVars
  <2> QED
    BY <1>1, <2>1
<1>4. CASE ReadMessage
  <2>1. PICK m \in Messages :
             Reads(m) /\ (ReadSnapshot(m) \/ Accept(m) \/ GiveUpGap(m) \/ RetryGap(m))
    BY <1>4, ReadCases DEF DeliveryInv
  <2>2. CASE Accept(m)
    BY <2>1, <2>2, AcceptDelivers DEF Feed!Next
  <2>3. CASE ReadSnapshot(m) \/ GiveUpGap(m) \/ RetryGap(m)
    <3>1. UNCHANGED <<eventSequence, eventHistory, delivered>>
      BY <2>1, <2>3 DEF Reads, hubVars, ReadSnapshot, GiveUpGap, RetryGap
    <3> QED
      BY <1>1, <3>1
  <2> QED
    BY <2>1, <2>2, <2>3
<1>5. CASE LoseStream \/ SilenceTimeout \/ UNCHANGED allVars
  <2>1. UNCHANGED <<eventSequence, eventHistory, delivered>>
    BY <1>5 DEF LoseStream, SilenceTimeout, allVars, vars, hubVars, haVars
  <2> QED
    BY <1>1, <2>1
<1>6. CASE RestartAgent
  <2>1. eventSequence' = 0 /\ eventHistory' = <<>> /\ delivered' = <<>> /\ Len(<<>>) = 0
    BY <1>6, EmptySeq DEF RestartAgent
  <2>2. Feed!RestartAgent
    BY <2>1 DEF Feed!RestartAgent
  <2> QED
    BY <2>2 DEF Feed!Next
<1>7. CASE ReloadEntry
  <2>1. UNCHANGED <<eventSequence, eventHistory>> /\ delivered' = <<>>
    BY <1>7 DEF ReloadEntry, vars, hubVars
  <2>2. Feed!NewListeners
    BY <2>1 DEF Feed!NewListeners
  <2> QED
    BY <2>2 DEF Feed!Next
<1> QED
  BY <1>2, <1>3, <1>4, <1>5, <1>6, <1>7 DEF DeliveryNext

(* The hub and its reader implement the feed: the ids of one agent life    *)
(* are delivered by one coordinator in increasing order, and an id is passed over only when   *)
(* the agent has it no more (emitTaskEventLocked, Subscribe, handleEvents  *)
(* and _advance_event_cursor together).                                    *)
THEOREM DeliveryImplementsFeed == DeliverySpec => FeedSpec
<1>1. DeliveryInit => Feed!Init
  <2> SUFFICES ASSUME DeliveryInit PROVE Feed!Init
    OBVIOUS
  <2>1. eventSequence = 0 /\ eventHistory = <<>> /\ delivered = <<>> /\ Len(<<>>) = 0
    BY EmptySeq DEF DeliveryInit, Init, HubInit
  <2> QED
    BY <2>1 DEF Feed!Init
<1> QED
  BY <1>1, StepFeeds, SpecDelivery, PTL DEF DeliverySpec, FeedSpec, Feed!Spec
=============================================================================
