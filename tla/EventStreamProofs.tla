------------------------- MODULE EventStreamProofs -------------------------
(***************************************************************************)
(* What holds of the event hub for every history limit, channel capacity,  *)
(* set of requests and bound: the types, the shape of the history, and     *)
(* that Subscribe never blocks while it holds the agent's lock.            *)
(***************************************************************************)
EXTENDS EventStream, TLAPS, SequenceTheorems, FiniteSetTheorems

(* A function on 1..n is a sequence of length n. *)
LEMMA FunctionIsSeq ==
  ASSUME NEW S, NEW n \in Nat, NEW f \in [1..n -> S]
  PROVE  f \in Seq(S) /\ Len(f) = n
<1>1. f \in Seq(S)
  BY SeqDef
<1>2. Len(f) \in Nat /\ DOMAIN f = 1..Len(f)
  BY <1>1, LenProperties
<1>3. DOMAIN f = 1..n
  OBVIOUS
<1>4. 1..n = 1..Len(f)
  BY <1>2, <1>3
<1>5. n = Len(f)
  BY <1>2, <1>4
<1> QED
  BY <1>1, <1>5

(* The ids up to a cursor are some of the history. *)
LEMMA SeenBounded ==
  ASSUME NEW n \in Nat, NEW seen \in SUBSET (1..n)
  PROVE  Cardinality(seen) \in 0..n
<1>1. IsFiniteSet(1..n) /\ Cardinality(1..n) = IF 1 > n THEN 0 ELSE n - 1 + 1
  BY FS_Interval
<1>2. Cardinality(1..n) = n
  BY <1>1
<1>3. IsFiniteSet(seen) /\ Cardinality(seen) <= Cardinality(1..n)
  BY <1>1, FS_Subset
<1>4. Cardinality(seen) \in Nat
  BY <1>3, FS_CardinalityType
<1> QED
  BY <1>2, <1>3, <1>4

(* Subscribe replays at most the history, as task_activity messages. *)
LEMMA ReplayBounded ==
  ASSUME NEW cursor, eventHistory \in Seq(1..MaxSequence)
  PROVE  /\ Replay(cursor) \in Seq(Messages)
         /\ Len(Replay(cursor)) <= Len(eventHistory)
<1> DEFINE h == eventHistory
           n == Len(h)
           seen == Cardinality({i \in 1..n : h[i] <= cursor})
           missed == SubSeq(h, seen + 1, n)
<1>1. n \in Nat /\ \A i \in 1..n : h[i] \in 1..MaxSequence
  BY LenProperties
<1>2. seen \in 0..n
  BY <1>1, SeenBounded
<1> HIDE DEF seen, n
<1>3. /\ missed \in Seq(1..MaxSequence)
      /\ Len(missed) = IF seen + 1 <= n THEN n - (seen + 1) + 1 ELSE 0
  <2>1. seen + 1 \in Int /\ n \in Int
    BY <1>1, <1>2
  <2>2. \A i \in (seen + 1)..n : h[i] \in 1..MaxSequence
    BY <1>1, <1>2
  <2> QED
    BY <2>1, <2>2, SubSeqProperties
<1> HIDE DEF missed
<1>4. Len(missed) \in Nat /\ Len(missed) <= n
  BY <1>1, <1>2, <1>3
<1>5. Replay(cursor) = [i \in 1..Len(missed) |-> TaskActivity(missed[i])]
  BY DEF Replay, missed, seen, n
<1>6. \A i \in 1..Len(missed) : missed[i] \in 1..MaxSequence
  BY <1>3, LenProperties
<1>7. \A i \in 1..Len(missed) : TaskActivity(missed[i]) \in Messages
  BY <1>6 DEF TaskActivity, Messages
<1>8. Replay(cursor) \in [1..Len(missed) -> Messages]
  BY <1>5, <1>7
<1>9. Replay(cursor) \in Seq(Messages) /\ Len(Replay(cursor)) = Len(missed)
  BY <1>4, <1>8, FunctionIsSeq
<1> QED
  BY <1>4, <1>9 DEF n

(* Trimming after the append keeps the newest ids and loses the oldest. *)
LEMMA RememberSuffix ==
  ASSUME eventHistory \in Seq(1..MaxSequence),
         eventSequence \in Nat, eventSequence + 1 <= MaxSequence,
         HistoryIsSuffix,
         eventSequence' = eventSequence + 1,
         eventHistory' = Remember(eventSequence + 1)
  PROVE  eventHistory' \in Seq(1..MaxSequence) /\ HistoryIsSuffix'
<1> DEFINE n == Len(eventHistory)
           longer == Append(eventHistory, eventSequence + 1)
<1>0. MaxSequence \in Nat /\ HistoryLimit \in Nat /\ HistoryLimit > 0
  BY LimitsAssumption, BoundsAssumption
<1>1. n \in Nat
  BY LenProperties
<1>2. /\ longer \in Seq(1..MaxSequence)
      /\ Len(longer) = n + 1
      /\ \A i \in 1..n : longer[i] = eventHistory[i]
      /\ longer[n + 1] = eventSequence + 1
  <2>1. eventSequence + 1 \in 1..MaxSequence
    BY <1>0
  <2> QED
    BY <2>1, AppendProperties
<1>3. /\ n = IF eventSequence < HistoryLimit THEN eventSequence ELSE HistoryLimit
      /\ \A i \in 1..n : eventHistory[i] = eventSequence - n + i
  BY DEF HistoryIsSuffix
<1> HIDE DEF longer, n
<1>4. \A i \in 1..(n + 1) : longer[i] = eventSequence - n + i
  <2> SUFFICES ASSUME NEW i \in 1..(n + 1)
               PROVE  longer[i] = eventSequence - n + i
    OBVIOUS
  <2>1. CASE i \in 1..n
    BY <2>1, <1>2, <1>3
  <2>2. CASE i = n + 1
    BY <2>2, <1>1, <1>2
  <2> QED
    BY <1>1, <2>1, <2>2
<1>5. eventHistory' = IF Len(longer) > HistoryLimit
                      THEN SubSeq(longer, Len(longer) - HistoryLimit + 1, Len(longer))
                      ELSE longer
  BY DEF Remember, longer
<1>6. CASE n + 1 > HistoryLimit
  <2> DEFINE first == Len(longer) - HistoryLimit + 1
             last == Len(longer)
  <2>1. n = HistoryLimit /\ eventSequence >= HistoryLimit /\ first = 2 /\ last = n + 1
    BY <1>0, <1>1, <1>2, <1>3, <1>6
  <2> HIDE DEF first, last
  <2>2. first \in Int /\ last \in Int /\ \A i \in first..last : longer[i] \in 1..MaxSequence
    <3>1. \A i \in 1..(n + 1) : longer[i] \in 1..MaxSequence
      BY <1>2, LenProperties
    <3> QED
      BY <1>1, <2>1, <3>1
  <2>3. /\ SubSeq(longer, first, last) \in Seq(1..MaxSequence)
        /\ Len(SubSeq(longer, first, last)) = IF first <= last THEN last - first + 1 ELSE 0
        /\ \A i \in 1..(last - first + 1) : SubSeq(longer, first, last)[i] = longer[first + i - 1]
    BY <2>2, SubSeqProperties
  <2>4. eventHistory' = SubSeq(longer, first, last)
    BY <1>2, <1>5, <1>6 DEF first, last
  <2>5. Len(eventHistory') = HistoryLimit
    BY <1>0, <1>1, <2>1, <2>3, <2>4
  <2>6. \A i \in 1..HistoryLimit : eventHistory'[i] = longer[i + 1]
    BY <1>0, <1>1, <2>1, <2>3, <2>4
  <2>7. \A i \in 1..HistoryLimit : eventHistory'[i] = eventSequence + 1 - HistoryLimit + i
    BY <1>0, <1>4, <2>1, <2>6
  <2>8. eventHistory' \in Seq(1..MaxSequence)
    BY <2>3, <2>4
  <2>9. HistoryIsSuffix'
    <3>1. Len(eventHistory') = IF eventSequence' < HistoryLimit THEN eventSequence'
                                                                ELSE HistoryLimit
      BY <1>0, <2>1, <2>5
    <3>2. \A i \in 1..Len(eventHistory') :
            eventHistory'[i] = eventSequence' - Len(eventHistory') + i
      BY <1>0, <2>5, <2>7
    <3> QED
      BY <3>1, <3>2 DEF HistoryIsSuffix
  <2> QED
    BY <2>8, <2>9
<1>7. CASE n + 1 <= HistoryLimit
  <2>1. eventHistory' = longer /\ n = eventSequence
    BY <1>0, <1>1, <1>2, <1>3, <1>5, <1>7
  <2>2. Len(eventHistory') = eventSequence + 1
    BY <1>2, <2>1
  <2>3. \A i \in 1..(eventSequence + 1) : eventHistory'[i] = i
    BY <1>4, <2>1
  <2> QED
    BY <1>0, <1>2, <1>3, <1>7, <2>1, <2>2, <2>3 DEF HistoryIsSuffix
<1> QED
  BY <1>0, <1>1, <1>6, <1>7

(* A non-blocking send keeps the channels well formed. *)
LEMMA OfferType ==
  ASSUME TypeOK, NEW message \in Messages, Offer(message)
  PROVE  chan' \in [Conns -> Seq(Messages)] /\ lost' \subseteq Conns
<1>1. chan \in [Conns -> Seq(Messages)] /\ subs \subseteq Conns /\ lost \subseteq Conns
  BY DEF TypeOK
<1>2. \A c \in Conns : Append(chan[c], message) \in Seq(Messages)
  BY <1>1, AppendProperties
<1> QED
  BY <1>1, <1>2 DEF Offer

(* The inductive invariant.  A replay fits because a history of at most    *)
(* HistoryLimit ids is all that can be replayed.                           *)
IInv ==
  /\ TypeOK
  /\ HistoryIsSuffix
  /\ ReplayNeverBlocks

LEMMA InitIInv == Init => IInv
<1> SUFFICES ASSUME Init PROVE IInv
  OBVIOUS
<1> USE LimitsAssumption, BoundsAssumption
<1>1. <<>> \in Seq(1..MaxSequence) /\ <<>> \in Seq(Messages) /\ Len(<<>>) = 0
  BY EmptySeq
<1>2. snapshot \in Snapshots /\ snapshot.content \in Contents
  BY DEF Init, HubInit, Snapshots
<1>3. TypeOK
  <2>1. /\ mu = "free" /\ emitLeft = 0 /\ eventSequence = 0 /\ eventHistory = <<>>
        /\ streamReady = FALSE /\ streamSignature = snapshot.content
    BY DEF Init, HubInit
  <2>2. /\ subs = {} /\ lost = {}
        /\ chan \in [Conns -> Seq(Messages)]
        /\ handler \in [Conns -> {"idle", "subscribing", "streaming"}]
        /\ after \in [Conns -> 0..MaxSequence]
        /\ current \in [Conns -> Snapshots]
        /\ wire \in [Conns -> Seq(Messages)]
    BY <1>1, <1>2 DEF Init
  <2>3. streamReady \in BOOLEAN
    BY <2>1
  <2>4. /\ emitLeft \in 0..MaxBatch /\ eventSequence \in 0..MaxSequence
        /\ eventSequence + emitLeft <= MaxSequence
    BY <2>1
  <2>5. eventHistory \in Seq(1..MaxSequence)
    BY <1>1, <2>1
  <2>6. mu \in {"free", "rebuild", "replay"} /\ subs \subseteq Conns /\ lost \subseteq Conns
    BY <2>1, <2>2
  <2>7. streamSignature \in Contents
    BY <1>2, <2>1
  <2> QED
    BY <1>2, <2>2, <2>3, <2>4, <2>5, <2>6, <2>7 DEF TypeOK
<1>4. HistoryIsSuffix
  BY <1>1 DEF Init, HubInit, HistoryIsSuffix
<1>5. ReplayNeverBlocks
  BY DEF Init, HubInit, ReplayNeverBlocks
<1> QED
  BY <1>3, <1>4, <1>5 DEF IInv

LEMMA NextIInv == IInv /\ [Next]_vars => IInv'
<1> SUFFICES ASSUME IInv, [Next]_vars PROVE IInv'
  OBVIOUS
<1> USE LimitsAssumption, BoundsAssumption DEF IInv
<1>1. ASSUME NEW content \in Contents, NEW events \in 0..MaxBatch,
             BeginRebuild(content, events)
      PROVE  IInv'
  <2>1. snapshot' \in Snapshots
    BY <1>1 DEF BeginRebuild, TypeOK, Snapshots
  <2>2. TypeOK'
    BY <1>1, <2>1 DEF BeginRebuild, TypeOK, connVars
  <2>3. HistoryIsSuffix'
    BY <1>1 DEF BeginRebuild, HistoryIsSuffix
  <2>4. ReplayNeverBlocks'
    BY <1>1 DEF BeginRebuild, ReplayNeverBlocks
  <2> QED
    BY <2>2, <2>3, <2>4
<1>2. ASSUME NEW content \in Contents, RecordAccountResult(content)
      PROVE  IInv'
  <2>1. snapshot' \in Snapshots
    BY <1>2 DEF RecordAccountResult, TypeOK, Snapshots
  <2>2. TypeOK'
    BY <1>2, <2>1 DEF RecordAccountResult, TypeOK, connVars
  <2>3. HistoryIsSuffix' /\ ReplayNeverBlocks'
    BY <1>2 DEF RecordAccountResult, HistoryIsSuffix, ReplayNeverBlocks
  <2> QED
    BY <2>2, <2>3
<1>3. CASE EmitTaskEvent
  <2>1. /\ eventSequence \in Nat /\ emitLeft \in 0..MaxBatch /\ emitLeft > 0
        /\ eventSequence + emitLeft <= MaxSequence
    BY <1>3 DEF EmitTaskEvent, TypeOK
  <2>2. eventSequence + 1 <= MaxSequence
    BY <2>1
  <2>3. eventHistory' \in Seq(1..MaxSequence) /\ HistoryIsSuffix'
    BY <1>3, <2>1, <2>2, RememberSuffix DEF EmitTaskEvent, TypeOK
  <2>4. TaskActivity(eventSequence + 1) \in Messages
    BY <2>1, <2>2 DEF TaskActivity, Messages
  <2>5. chan' \in [Conns -> Seq(Messages)] /\ lost' \subseteq Conns
    BY <1>3, <2>4, OfferType DEF EmitTaskEvent
  <2>6. /\ eventSequence' \in 0..MaxSequence /\ emitLeft' \in 0..MaxBatch
        /\ eventSequence' + emitLeft' <= MaxSequence
    BY <1>3, <2>1, <2>2 DEF EmitTaskEvent
  <2>7. TypeOK'
    BY <1>3, <2>3, <2>5, <2>6 DEF EmitTaskEvent, TypeOK
  <2>8. ReplayNeverBlocks'
    BY <1>3 DEF EmitTaskEvent, ReplayNeverBlocks
  <2> QED
    BY <2>3, <2>7, <2>8
<1>4. CASE BroadcastSnapshot
  <2>1. SnapshotMessage(snapshot) \in Messages
    BY DEF SnapshotMessage, Messages, TypeOK
  <2>2. chan' \in [Conns -> Seq(Messages)] /\ lost' \subseteq Conns
    BY <1>4, <2>1, OfferType DEF BroadcastSnapshot, TypeOK
  <2>3. streamReady' \in BOOLEAN /\ streamSignature' \in Contents
    BY <1>4 DEF BroadcastSnapshot, TypeOK, Signature, Snapshots
  <2>4. TypeOK'
    BY <1>4, <2>2, <2>3 DEF BroadcastSnapshot, TypeOK
  <2>5. HistoryIsSuffix' /\ ReplayNeverBlocks'
    BY <1>4 DEF BroadcastSnapshot, HistoryIsSuffix, ReplayNeverBlocks
  <2> QED
    BY <2>4, <2>5
<1>5. ASSUME NEW c \in Conns, NEW cursor \in 0..MaxSequence, Subscribe(c, cursor)
      PROVE  IInv'
  <2>1. Replay(cursor) \in Seq(Messages) /\ Len(Replay(cursor)) <= Len(eventHistory)
    BY ReplayBounded DEF TypeOK
  <2>2. Len(eventHistory) \in Nat /\ Len(eventHistory) <= HistoryLimit
    BY DEF HistoryIsSuffix, TypeOK
  <2>3. Len(Replay(cursor)) \in Nat
    BY <2>1, LenProperties
  <2>4. ~(Len(Replay(cursor)) > ChannelCap)
    BY <2>1, <2>2, <2>3
  <2>5. mu' = "free"
    BY <1>5, <2>4 DEF Subscribe
  <2>6. <<>> \in Seq(Messages)
    BY EmptySeq
  <2>7. TypeOK'
    BY <1>5, <2>1, <2>5, <2>6 DEF Subscribe, TypeOK
  <2>8. HistoryIsSuffix' /\ ReplayNeverBlocks'
    BY <1>5, <2>5 DEF Subscribe, HistoryIsSuffix, ReplayNeverBlocks
  <2> QED
    BY <2>7, <2>8
<1>6. ASSUME NEW c \in Conns, FinishSubscribe(c)
      PROVE  IInv'
  <2>1. SnapshotMessage(current[c]) \in Messages
    BY DEF SnapshotMessage, Messages, TypeOK
  <2>2. Append(chan[c], SnapshotMessage(current[c])) \in Seq(Messages)
    BY <2>1, AppendProperties DEF TypeOK
  <2>3. TypeOK'
    BY <1>6, <2>2 DEF FinishSubscribe, TypeOK, hubVars
  <2>4. HistoryIsSuffix' /\ ReplayNeverBlocks'
    BY <1>6 DEF FinishSubscribe, hubVars, HistoryIsSuffix, ReplayNeverBlocks
  <2> QED
    BY <2>3, <2>4
<1>7. ASSUME NEW c \in Conns, WriteMessage(c)
      PROVE  IInv'
  <2>1. chan[c] \in Seq(Messages) /\ chan[c] # <<>> /\ wire[c] \in Seq(Messages)
    BY <1>7 DEF WriteMessage, TypeOK
  <2>2. Head(chan[c]) \in Messages /\ Tail(chan[c]) \in Seq(Messages)
    BY <2>1, HeadTailProperties
  <2>3. Append(wire[c], Head(chan[c])) \in Seq(Messages)
    BY <2>1, <2>2, AppendProperties
  <2>4. TypeOK'
    BY <1>7, <2>2, <2>3 DEF WriteMessage, TypeOK, hubVars
  <2>5. HistoryIsSuffix' /\ ReplayNeverBlocks'
    BY <1>7 DEF WriteMessage, hubVars, HistoryIsSuffix, ReplayNeverBlocks
  <2> QED
    BY <2>4, <2>5
<1>8. ASSUME NEW c \in Conns, Unsubscribe(c)
      PROVE  IInv'
  <2>1. <<>> \in Seq(Messages)
    BY EmptySeq
  <2>2. TypeOK'
    BY <1>8, <2>1 DEF Unsubscribe, TypeOK, hubVars
  <2>3. HistoryIsSuffix' /\ ReplayNeverBlocks'
    BY <1>8 DEF Unsubscribe, hubVars, HistoryIsSuffix, ReplayNeverBlocks
  <2> QED
    BY <2>2, <2>3
<1>9. CASE UNCHANGED vars
  <2>1. TypeOK'
    BY <1>9 DEF vars, hubVars, connVars, TypeOK
  <2>2. HistoryIsSuffix' /\ ReplayNeverBlocks'
    BY <1>9 DEF vars, hubVars, HistoryIsSuffix, ReplayNeverBlocks
  <2> QED
    BY <2>1, <2>2
<1> QED
  BY <1>1, <1>2, <1>3, <1>4, <1>5, <1>6, <1>7, <1>8, <1>9 DEF Next, HubNext

LEMMA SpecIInv == Spec => []IInv
<1>1. Init /\ [][Next]_vars => []IInv
  BY InitIInv, NextIInv, PTL
<1> QED
  BY <1>1, PTL DEF Spec

(* Every variable of the hub keeps its type, whatever the readers do. *)
THEOREM TypeCorrect == Spec => []TypeOK
<1>1. IInv => TypeOK
  BY DEF IInv
<1> QED
  BY <1>1, SpecIInv, PTL

(* eventHistory is always the newest ids without a hole: what              *)
(* emitTaskEventLocked trims is exactly the oldest.                        *)
THEOREM HistoryComplete == Spec => []HistoryIsSuffix
<1>1. IInv => HistoryIsSuffix
  BY DEF IInv
<1> QED
  BY <1>1, SpecIInv, PTL

(* Subscribe never waits for channel space with the lock held, for any     *)
(* history limit that a channel can hold (256 and 300 in the code).        *)
THEOREM ReplayFits == Spec => []ReplayNeverBlocks
<1>1. IInv => ReplayNeverBlocks
  BY DEF IInv
<1> QED
  BY <1>1, SpecIInv, PTL

-----------------------------------------------------------------------------
(* What each step does to the stream of a request: nothing, one message    *)
(* more at its end, a replay, or an end.                                   *)

(* A message that is sent goes to the end of what is sent already. *)
LEMMA StreamAppend ==
  ASSUME NEW w \in Seq(Messages), NEW s \in Seq(Messages), NEW m \in Messages
  PROVE  w \o Append(s, m) = Append(w \o s, m)
<1>1. <<m>> \in Seq(Messages)
  OBVIOUS
<1>2. w \o s \in Seq(Messages)
  BY ConcatProperties
<1>3. Append(s, m) = s \o <<m>> /\ Append(w \o s, m) = (w \o s) \o <<m>>
  BY <1>2, AppendIsConcat
<1>4. (w \o s) \o <<m>> = w \o (s \o <<m>>)
  BY <1>1, ConcatAssociative
<1> QED
  BY <1>3, <1>4

LEMMA StreamType ==
  ASSUME TypeOK
  PROVE  \A c \in Conns : Stream(c) \in Seq(Messages)
BY ConcatProperties DEF TypeOK, Stream

LEMMA OfferStream ==
  ASSUME TypeOK, NEW message \in Messages, Offer(message), wire' = wire, NEW c \in Conns
  PROVE  /\ Stream(c)' = Stream(c) \/ Stream(c)' = Append(Stream(c), message)
         /\ c \in subs \ lost' => c \notin lost /\ Stream(c)' = Append(Stream(c), message)
<1>1. wire[c] \in Seq(Messages) /\ chan[c] \in Seq(Messages)
  BY DEF TypeOK
<1>2. Stream(c)' = wire[c] \o chan'[c]
  BY DEF Stream
<1>3. CASE c \in subs /\ Len(chan[c]) < ChannelCap
  <2>1. chan'[c] = Append(chan[c], message)
    BY <1>3 DEF Offer
  <2>2. Stream(c)' = Append(Stream(c), message)
    BY <1>1, <1>2, <2>1, StreamAppend DEF Stream
  <2> QED
    BY <2>2 DEF Offer
<1>4. CASE ~(c \in subs /\ Len(chan[c]) < ChannelCap)
  <2>1. chan'[c] = chan[c]
    BY <1>4 DEF Offer
  <2>2. Stream(c)' = Stream(c)
    BY <1>2, <2>1 DEF Stream
  <2>3. Len(chan[c]) \in Nat /\ ChannelCap \in Nat
    BY <1>1, LenProperties, LimitsAssumption
  <2>4. c \in subs => c \in lost'
    BY <1>4, <2>3 DEF Offer
  <2> QED
    BY <2>2, <2>4
<1> QED
  BY <1>3, <1>4

LEMMA FinishStream ==
  ASSUME TypeOK, NEW c \in Conns, FinishSubscribe(c), NEW d \in Conns
  PROVE  Stream(d)' = IF d = c THEN Append(Stream(d), SnapshotMessage(current[d]))
                               ELSE Stream(d)
<1>1. SnapshotMessage(current[c]) \in Messages
  BY DEF SnapshotMessage, Messages, TypeOK
<1>2. wire[d] \in Seq(Messages) /\ chan[d] \in Seq(Messages)
  BY DEF TypeOK
<1>3. chan'[d] = IF d = c THEN Append(chan[d], SnapshotMessage(current[d])) ELSE chan[d]
  BY DEF FinishSubscribe, TypeOK
<1>4. Stream(d)' = wire[d] \o chan'[d]
  BY DEF FinishSubscribe, Stream
<1>5. CASE d = c
  BY <1>1, <1>2, <1>3, <1>4, <1>5, StreamAppend DEF Stream
<1>6. CASE d # c
  BY <1>3, <1>4, <1>6 DEF Stream
<1> QED
  BY <1>5, <1>6

(* What is written to the body was the next of the channel. *)
LEMMA MoveHead ==
  ASSUME NEW w \in Seq(Messages), NEW s \in Seq(Messages), s # <<>>
  PROVE  Append(w, Head(s)) \o Tail(s) = w \o s
<1> DEFINE left == Append(w, Head(s)) \o Tail(s)
           right == w \o s
<1>1. /\ Head(s) \in Messages /\ Tail(s) \in Seq(Messages) /\ Head(s) = s[1]
      /\ Len(Tail(s)) = Len(s) - 1
      /\ \A i \in 1..(Len(s) - 1) : Tail(s)[i] = s[i + 1]
  BY HeadTailProperties
<1>2. Len(s) \in Nat \ {0} /\ Len(w) \in Nat
  BY EmptySeq, LenProperties
<1>3. /\ Append(w, Head(s)) \in Seq(Messages)
      /\ Len(Append(w, Head(s))) = Len(w) + 1
      /\ \A i \in 1..Len(w) : Append(w, Head(s))[i] = w[i]
      /\ Append(w, Head(s))[Len(w) + 1] = s[1]
  BY <1>1, AppendProperties
<1>4. /\ left \in Seq(Messages) /\ Len(left) = Len(w) + Len(s)
      /\ \A i \in 1..(Len(w) + Len(s)) :
           left[i] = IF i <= Len(w) + 1 THEN Append(w, Head(s))[i]
                     ELSE Tail(s)[i - (Len(w) + 1)]
  BY <1>1, <1>2, <1>3, ConcatProperties
<1>5. /\ right \in Seq(Messages) /\ Len(right) = Len(w) + Len(s)
      /\ \A i \in 1..(Len(w) + Len(s)) :
           right[i] = IF i <= Len(w) THEN w[i] ELSE s[i - Len(w)]
  BY ConcatProperties
<1> HIDE DEF left, right
<1>6. ASSUME NEW i \in 1..(Len(w) + Len(s)) PROVE left[i] = right[i]
  <2>1. CASE i <= Len(w)
    <3>1. i \in 1..Len(w) /\ i <= Len(w) + 1
      BY <1>2, <2>1
    <3>2. left[i] = Append(w, Head(s))[i] /\ right[i] = w[i]
      BY <1>4, <1>5, <3>1
    <3> QED
      BY <1>3, <3>1, <3>2
  <2>2. CASE i = Len(w) + 1
    BY <1>2, <1>3, <1>4, <1>5, <2>2
  <2>3. CASE i > Len(w) + 1
    <3>1. i - (Len(w) + 1) \in 1..(Len(s) - 1)
      BY <1>2, <2>3
    <3>2. left[i] = Tail(s)[i - (Len(w) + 1)]
      BY <1>2, <1>4, <2>3
    <3>3. PICK k \in 1..(Len(s) - 1) : k = i - (Len(w) + 1)
      BY <3>1
    <3>4. left[i] = s[k + 1]
      BY <1>1, <3>2, <3>3
    <3>5. k + 1 = i - Len(w) /\ ~(i <= Len(w))
      BY <1>2, <2>3, <3>3
    <3>6. right[i] = s[k + 1]
      BY <1>5, <3>5
    <3> QED
      BY <3>4, <3>6
  <2> QED
    BY <1>2, <2>1, <2>2, <2>3
<1>7. left = right
  BY <1>4, <1>5, <1>6, SeqEqual
<1> QED
  BY <1>7 DEF left, right

LEMMA WriteStream ==
  ASSUME TypeOK, NEW c \in Conns, WriteMessage(c), NEW d \in Conns
  PROVE  Stream(d)' = Stream(d)
<1>1. CASE d # c
  BY <1>1 DEF WriteMessage, TypeOK, Stream
<1>2. CASE d = c
  <2>1. wire[c] \in Seq(Messages) /\ chan[c] \in Seq(Messages) /\ chan[c] # <<>>
    BY DEF TypeOK, WriteMessage
  <2>2. Stream(d)' = Append(wire[c], Head(chan[c])) \o Tail(chan[c])
    BY <1>2 DEF WriteMessage, TypeOK, Stream
  <2> QED
    BY <1>2, <2>1, <2>2, MoveHead DEF Stream
<1> QED
  BY <1>1, <1>2

LEMMA SubscribeStream ==
  ASSUME TypeOK, NEW c \in Conns, NEW cursor \in 0..MaxSequence, Subscribe(c, cursor),
         NEW d \in Conns
  PROVE  Stream(d)' = IF d = c THEN Replay(cursor) ELSE Stream(d)
<1>1. Replay(cursor) \in Seq(Messages)
  BY ReplayBounded DEF TypeOK
<1>2. <<>> \o Replay(cursor) = Replay(cursor)
  BY <1>1, ConcatEmptySeq
<1>3. /\ chan'[d] = IF d = c THEN Replay(cursor) ELSE chan[d]
      /\ wire'[d] = IF d = c THEN <<>> ELSE wire[d]
  BY DEF Subscribe, TypeOK
<1> QED
  BY <1>2, <1>3 DEF Stream

LEMMA UnsubscribeStream ==
  ASSUME TypeOK, NEW c \in Conns, Unsubscribe(c), NEW d \in Conns
  PROVE  Stream(d)' = IF d = c THEN <<>> ELSE Stream(d)
<1>1. <<>> \o <<>> = <<>>
  BY EmptySeq, ConcatEmptySeq
<1>2. /\ chan'[d] = IF d = c THEN <<>> ELSE chan[d]
      /\ wire'[d] = IF d = c THEN <<>> ELSE wire[d]
  BY DEF Unsubscribe, TypeOK
<1> QED
  BY <1>1, <1>2 DEF Stream

-----------------------------------------------------------------------------
(* The task events of a stream.                                            *)
Tasks(s) == {i \in 1..Len(s) : s[i].event = "task_activity"}
IdsOf(s) == {s[i].sequence : i \in Tasks(s)}
Increasing(s) == \A i, j \in Tasks(s) : i < j => s[i].sequence < s[j].sequence

LEMMA TaskTypes ==
  ASSUME NEW s \in Seq(Messages)
  PROVE  /\ \A i \in Tasks(s) : s[i].sequence \in 1..MaxSequence
         /\ IdsOf(s) \subseteq 1..MaxSequence
<1>1. \A i \in 1..Len(s) : s[i] \in Messages
  BY LenProperties
<1>2. \A m \in Messages : m.event = "task_activity" => m.sequence \in 1..MaxSequence
  BY DEF Messages
<1> QED
  BY <1>1, <1>2 DEF Tasks, IdsOf

(* One more message: its id is added, above the others if it is a new one. *)
LEMMA AppendTasks ==
  ASSUME NEW s \in Seq(Messages), NEW m \in Messages
  PROVE  /\ m.event = "task_activity" => Tasks(Append(s, m)) = Tasks(s) \cup {Len(s) + 1}
         /\ m.event # "task_activity" => Tasks(Append(s, m)) = Tasks(s)
         /\ \A i \in Tasks(s) : Append(s, m)[i] = s[i]
         /\ Append(s, m)[Len(s) + 1] = m
<1>1. /\ Len(s) \in Nat /\ Len(Append(s, m)) = Len(s) + 1
      /\ \A i \in 1..Len(s) : Append(s, m)[i] = s[i]
      /\ Append(s, m)[Len(s) + 1] = m
  BY LenProperties, AppendProperties
<1>2. 1..(Len(s) + 1) = 1..Len(s) \cup {Len(s) + 1}
  BY <1>1
<1> QED
  BY <1>1, <1>2 DEF Tasks

LEMMA AppendIds ==
  ASSUME NEW s \in Seq(Messages), NEW m \in Messages
  PROVE  /\ m.event = "task_activity" => IdsOf(Append(s, m)) = IdsOf(s) \cup {m.sequence}
         /\ m.event # "task_activity" => IdsOf(Append(s, m)) = IdsOf(s)
<1> DEFINE t == Append(s, m)
<1>1. /\ m.event = "task_activity" => Tasks(t) = Tasks(s) \cup {Len(s) + 1}
      /\ m.event # "task_activity" => Tasks(t) = Tasks(s)
      /\ \A i \in Tasks(s) : t[i] = s[i]
      /\ t[Len(s) + 1] = m
  BY AppendTasks
<1> HIDE DEF t
<1>2. {t[i].sequence : i \in Tasks(s)} = IdsOf(s)
  BY <1>1 DEF IdsOf
<1>3. CASE m.event = "task_activity"
  <2>1. IdsOf(t) = {t[i].sequence : i \in Tasks(s)} \cup {t[Len(s) + 1].sequence}
    BY <1>1, <1>3 DEF IdsOf
  <2> QED
    BY <1>1, <1>2, <1>3, <2>1 DEF t
<1>4. CASE m.event # "task_activity"
  BY <1>1, <1>2, <1>4 DEF IdsOf, t
<1> QED
  BY <1>3, <1>4

LEMMA AppendIncreasing ==
  ASSUME NEW s \in Seq(Messages), NEW m \in Messages, Increasing(s),
         m.event = "task_activity" => \A id \in IdsOf(s) : id < m.sequence
  PROVE  Increasing(Append(s, m))
<1> DEFINE t == Append(s, m)
<1>0. /\ m.event = "task_activity" => Tasks(t) = Tasks(s) \cup {Len(s) + 1}
      /\ m.event # "task_activity" => Tasks(t) = Tasks(s)
      /\ \A i \in Tasks(s) : t[i] = s[i]
      /\ t[Len(s) + 1] = m
  BY AppendTasks
<1> HIDE DEF t
<1> SUFFICES ASSUME NEW i \in Tasks(t), NEW j \in Tasks(t), i < j
             PROVE  t[i].sequence < t[j].sequence
  BY DEF Increasing, t
<1>1. Len(s) \in Nat /\ \A k \in Tasks(s) : k \in 1..Len(s)
  BY LenProperties DEF Tasks
<1>2. CASE j \in Tasks(s)
  <2>1. i \in Tasks(s)
    BY <1>0, <1>1, <1>2
  <2> QED
    BY <1>0, <1>2, <2>1 DEF Increasing
<1>3. CASE j \notin Tasks(s)
  <2>1. m.event = "task_activity" /\ j = Len(s) + 1
    BY <1>0, <1>3
  <2>2. i \in Tasks(s)
    BY <1>0, <1>1, <2>1
  <2>3. t[i] = s[i] /\ s[i].sequence \in IdsOf(s)
    BY <1>0, <2>2 DEF IdsOf
  <2> QED
    BY <1>0, <2>1, <2>3
<1> QED
  BY <1>2, <1>3

(* The retained ids are the newest ones, up to the newest of all. *)
LEMMA RetainedIds ==
  ASSUME eventHistory \in Seq(1..MaxSequence), eventSequence \in Nat, HistoryIsSuffix
  PROVE  /\ Len(eventHistory) \in 0..eventSequence
         /\ eventSequence > 0 => Len(eventHistory) > 0
         /\ Elements(eventHistory) = (eventSequence - Len(eventHistory) + 1)..eventSequence
<1> DEFINE n == Len(eventHistory)
<1>1. n \in Nat /\ HistoryLimit \in Nat \ {0}
  BY LenProperties, LimitsAssumption
<1>2. /\ n = IF eventSequence < HistoryLimit THEN eventSequence ELSE HistoryLimit
      /\ \A i \in 1..n : eventHistory[i] = eventSequence - n + i
  BY DEF HistoryIsSuffix
<1>3. Elements(eventHistory) = {eventHistory[i] : i \in 1..n}
  BY DEF Elements
<1> HIDE DEF n
<1>4. n \in 0..eventSequence /\ (eventSequence > 0 => n > 0)
  BY <1>1, <1>2
<1>5. \A id \in (eventSequence - n + 1)..eventSequence :
        id - (eventSequence - n) \in 1..n
  BY <1>4
<1>6. {eventHistory[i] : i \in 1..n} = (eventSequence - n + 1)..eventSequence
  <2>1. ASSUME NEW i \in 1..n
        PROVE  eventHistory[i] \in (eventSequence - n + 1)..eventSequence
    BY <1>1, <1>2, <1>4
  <2>2. ASSUME NEW id \in (eventSequence - n + 1)..eventSequence
        PROVE  \E i \in 1..n : eventHistory[i] = id
    <3>1. PICK i \in 1..n : i = id - (eventSequence - n)
      BY <1>5
    <3>2. eventHistory[i] = eventSequence - n + i
      BY <1>2
    <3> QED
      BY <1>4, <3>1, <3>2
  <2> QED
    BY <2>1, <2>2
<1> QED
  BY <1>3, <1>4, <1>6 DEF n

(* What Subscribe replays to a cursor: the retained ids after it, each     *)
(* once and in order, and nothing to a cursor that has seen the newest.    *)
LEMMA ReplayContents ==
  ASSUME eventHistory \in Seq(1..MaxSequence), eventSequence \in Nat, HistoryIsSuffix,
         NEW cursor \in Nat
  PROVE  \E first \in 1..(eventSequence + 1) :
           /\ Len(Replay(cursor)) = eventSequence + 1 - first
           /\ \A i \in 1..(eventSequence + 1 - first) :
                Replay(cursor)[i] = TaskActivity(first + i - 1)
           /\ cursor >= eventSequence => first = eventSequence + 1
           /\ cursor < eventSequence =>
                /\ cursor < first /\ first <= eventSequence
                /\ first = cursor + 1 \/ first = eventSequence - Len(eventHistory) + 1
<1> DEFINE h == eventHistory
           n == Len(h)
           places == {i \in 1..n : h[i] <= cursor}
           seen == Cardinality(places)
           missed == SubSeq(h, seen + 1, n)
           before == eventSequence - n
           k == IF cursor <= before THEN 0
                ELSE IF cursor >= eventSequence THEN n ELSE cursor - before
<1>1. /\ n \in 0..eventSequence /\ (eventSequence > 0 => n > 0)
      /\ \A i \in 1..n : h[i] = eventSequence - n + i
  BY RetainedIds DEF HistoryIsSuffix
<1>2. \A i \in 1..n : h[i] \in 1..MaxSequence
  BY LenProperties
<1>3. before \in Nat /\ k \in 0..n
  BY <1>1
<1>4. \A i \in 1..n : h[i] <= cursor <=> i <= k
  BY <1>1
<1>5. places = 1..k
  BY <1>3, <1>4
<1>6. seen = k
  <2> HIDE DEF k
  <2>1. Cardinality(1..k) = IF 1 > k THEN 0 ELSE k - 1 + 1
    BY <1>3, FS_Interval
  <2>2. Cardinality(1..k) = k
    BY <1>3, <2>1
  <2> QED
    BY <1>5, <2>2
<1>7. Replay(cursor) = [i \in 1..Len(missed) |-> TaskActivity(missed[i])]
  BY DEF Replay
<1>8. /\ cursor >= eventSequence => k = n
      /\ cursor < eventSequence => /\ k < n /\ cursor < before + k + 1
                                   /\ before + k = cursor \/ k = 0
  <2>1. CASE cursor <= before
    BY <1>1, <2>1
  <2>2. CASE cursor > before /\ cursor < eventSequence
    BY <1>1, <2>2
  <2>3. CASE cursor >= eventSequence
    BY <1>1, <2>3
  <2> QED
    BY <1>1, <2>1, <2>2, <2>3
<1>9. \A i \in 1..n : h[i] = before + i
  BY <1>1
<1> HIDE DEF seen, places, k
<1>10. /\ Len(missed) = n - k
       /\ \A i \in 1..(n - k) : missed[i] = h[k + i]
  <2>1. seen + 1 \in Int /\ n \in Int /\ \A i \in (seen + 1)..n : h[i] \in 1..MaxSequence
    BY <1>1, <1>2, <1>3, <1>6
  <2>2. /\ Len(missed) = IF seen + 1 <= n THEN n - (seen + 1) + 1 ELSE 0
        /\ \A i \in 1..(n - (seen + 1) + 1) : missed[i] = h[seen + 1 + i - 1]
    BY <2>1, SubSeqProperties
  <2> HIDE DEF missed, n, h
  <2> QED
    BY <1>1, <1>3, <1>6, <2>2
<1> HIDE DEF missed
<1> DEFINE first == before + k + 1
<1>11. first \in 1..(eventSequence + 1) /\ eventSequence + 1 - first = n - k
  BY <1>1, <1>3
<1>12. \A i \in 1..(n - k) : missed[i] = first + i - 1
  <2> SUFFICES ASSUME NEW i \in 1..(n - k) PROVE missed[i] = first + i - 1
    OBVIOUS
  <2>1. k + i \in 1..n /\ missed[i] = h[k + i]
    BY <1>1, <1>3, <1>10
  <2>2. h[k + i] = before + (k + i)
    BY <1>9, <2>1
  <2> HIDE DEF h, before
  <2> QED
    BY <1>1, <1>3, <2>1, <2>2
<1>13. \A i \in 1..(n - k) : Replay(cursor)[i] = TaskActivity(first + i - 1)
  BY <1>7, <1>10, <1>12
<1>14. Len(Replay(cursor)) = n - k
  <2>1. n - k \in Nat /\ \A i \in 1..Len(missed) : missed[i] \in Nat
    BY <1>1, <1>3, <1>10, <1>11, <1>12
  <2>2. Replay(cursor) \in [1..(n - k) -> {Replay(cursor)[i] : i \in 1..(n - k)}]
    BY <1>7, <1>10
  <2> QED
    BY <2>1, <2>2, FunctionIsSeq
<1>15. /\ cursor >= eventSequence => first = eventSequence + 1
       /\ cursor < eventSequence =>
            /\ cursor < first /\ first <= eventSequence
            /\ first = cursor + 1 \/ first = eventSequence - n + 1
  <2> HIDE DEF n
  <2>1. cursor >= eventSequence => first = eventSequence + 1
    BY <1>1, <1>3, <1>8
  <2>2. ASSUME cursor < eventSequence
        PROVE  /\ cursor < first /\ first <= eventSequence
               /\ first = cursor + 1 \/ first = eventSequence - n + 1
    BY <1>1, <1>3, <1>8, <2>2
  <2> QED
    BY <2>1, <2>2
<1> HIDE DEF first, n
<1> WITNESS first \in 1..(eventSequence + 1)
<1> QED
  BY <1>11, <1>13, <1>14, <1>15 DEF n

LEMMA ReplayIds ==
  ASSUME eventHistory \in Seq(1..MaxSequence), eventSequence \in Nat, HistoryIsSuffix,
         NEW cursor \in Nat
  PROVE  /\ Replay(cursor) \in Seq(Messages)
         /\ Tasks(Replay(cursor)) = 1..Len(Replay(cursor))
         /\ Increasing(Replay(cursor))
         /\ \E first \in 1..(eventSequence + 1) :
              /\ IdsOf(Replay(cursor)) = first..eventSequence
              /\ \A id \in Elements(eventHistory) : id > cursor => id >= first
<1> DEFINE r == Replay(cursor)
<1>1. r \in Seq(Messages)
  BY ReplayBounded
<1>2. PICK first \in 1..(eventSequence + 1) :
           /\ Len(r) = eventSequence + 1 - first
           /\ \A i \in 1..(eventSequence + 1 - first) : r[i] = TaskActivity(first + i - 1)
           /\ cursor >= eventSequence => first = eventSequence + 1
           /\ cursor < eventSequence =>
                /\ cursor < first /\ first <= eventSequence
                /\ first = cursor + 1 \/ first = eventSequence - Len(eventHistory) + 1
  BY ReplayContents
<1> HIDE DEF r
<1>3. \A i \in 1..Len(r) : r[i].event = "task_activity" /\ r[i].sequence = first + i - 1
  <2>1. \A i \in 1..Len(r) : r[i] = TaskActivity(first + i - 1)
    BY <1>2
  <2>2. \A id : TaskActivity(id).event = "task_activity" /\ TaskActivity(id).sequence = id
    BY DEF TaskActivity
  <2> QED
    BY <2>1, <2>2
<1>4. Tasks(r) = 1..Len(r)
  BY <1>3 DEF Tasks
<1>5. Increasing(r)
  <2> SUFFICES ASSUME NEW i \in 1..Len(r), NEW j \in 1..Len(r), i < j
               PROVE  r[i].sequence < r[j].sequence
    BY <1>4 DEF Increasing
  <2> QED
    BY <1>2, <1>3
<1>6. IdsOf(r) = first..eventSequence
  <2>1. IdsOf(r) = {r[i].sequence : i \in 1..Len(r)}
    BY <1>4 DEF IdsOf
  <2>2. ASSUME NEW i \in 1..Len(r) PROVE r[i].sequence \in first..eventSequence
    BY <1>2, <1>3
  <2>3. ASSUME NEW id \in first..eventSequence
        PROVE  \E i \in 1..Len(r) : r[i].sequence = id
    <3>1. id - first + 1 \in 1..Len(r)
      BY <1>2
    <3>2. PICK i \in 1..Len(r) : i = id - first + 1
      BY <3>1
    <3>3. r[i].sequence = first + i - 1
      BY <1>3
    <3>4. first + i - 1 = id
      BY <3>2
    <3> QED
      BY <3>3, <3>4
  <2> QED
    BY <2>1, <2>2, <2>3
<1>7. \A id \in Elements(eventHistory) : id > cursor => id >= first
  BY <1>2, RetainedIds
<1> QED
  BY <1>1, <1>4, <1>5, <1>6, <1>7 DEF r

(* Every id of a stream has been emitted, and they increase. *)
IdsOrdered ==
  \A c \in Conns : Increasing(Stream(c)) /\ IdsOf(Stream(c)) \subseteq 1..eventSequence

LEMMA EmptyIds == Tasks(<<>>) = {} /\ IdsOf(<<>>) = {} /\ Increasing(<<>>)
BY DEF Tasks, IdsOf, Increasing

LEMMA InitIdsOrdered == Init => IdsOrdered
<1> SUFFICES ASSUME Init PROVE IdsOrdered
  OBVIOUS
<1>1. \A c \in Conns : Stream(c) = <<>>
  BY EmptySeq, ConcatEmptySeq DEF Init, Stream
<1> QED
  BY <1>1, EmptyIds DEF IdsOrdered

LEMMA NextIdsOrdered == IInv /\ IdsOrdered /\ [Next]_vars => IdsOrdered'
<1> SUFFICES ASSUME IInv, IdsOrdered, [Next]_vars, NEW d \in Conns
             PROVE  Increasing(Stream(d)') /\ IdsOf(Stream(d)') \subseteq 1..eventSequence'
  BY DEF IdsOrdered, Increasing, IdsOf, Tasks
<1> USE DEF IInv
<1>0. /\ Stream(d) \in Seq(Messages) /\ eventSequence \in Nat
      /\ Increasing(Stream(d)) /\ IdsOf(Stream(d)) \subseteq 1..eventSequence
  BY StreamType DEF TypeOK, IdsOrdered
<1>1. ASSUME eventSequence' = eventSequence,
             \/ Stream(d)' = Stream(d)
             \/ \E m \in Messages : /\ Stream(d)' = Append(Stream(d), m)
                                   /\ m.event # "task_activity"
      PROVE  Increasing(Stream(d)') /\ IdsOf(Stream(d)') \subseteq 1..eventSequence'
  <2>1. CASE Stream(d)' = Stream(d)
    BY <1>0, <1>1, <2>1
  <2>2. ASSUME NEW m \in Messages, Stream(d)' = Append(Stream(d), m),
               m.event # "task_activity"
        PROVE  Increasing(Stream(d)') /\ IdsOf(Stream(d)') \subseteq 1..eventSequence'
    BY <1>0, <1>1, <2>2, AppendIncreasing, AppendIds
  <2>3. CASE \E m \in Messages : /\ Stream(d)' = Append(Stream(d), m)
                                /\ m.event # "task_activity"
    BY <2>2, <2>3
  <2> QED
    BY <1>1, <2>1, <2>3
<1>2. CASE \/ \E content \in Contents, events \in 0..MaxBatch : BeginRebuild(content, events)
           \/ \E content \in Contents : RecordAccountResult(content)
           \/ UNCHANGED vars
  <2>1. Stream(d)' = Stream(d) /\ eventSequence' = eventSequence
    BY <1>2 DEF BeginRebuild, RecordAccountResult, vars, hubVars, connVars, Stream
  <2> QED
    BY <1>1, <2>1
<1>3. CASE EmitTaskEvent
  <2> DEFINE m == TaskActivity(eventSequence + 1)
  <2>1. /\ m \in Messages /\ m.event = "task_activity" /\ m.sequence = eventSequence + 1
        /\ Offer(m) /\ wire' = wire /\ eventSequence' = eventSequence + 1
    <3>1. Offer(m) /\ wire' = wire /\ eventSequence' = eventSequence + 1
      BY <1>3 DEF EmitTaskEvent
    <3>2. eventSequence + 1 \in 1..MaxSequence
      BY <1>3, BoundsAssumption DEF EmitTaskEvent, TypeOK
    <3> QED
      BY <3>1, <3>2 DEF TaskActivity, Messages
  <2> HIDE DEF m
  <2>2. Stream(d)' = Stream(d) \/ Stream(d)' = Append(Stream(d), m)
    BY <2>1, OfferStream
  <2>3. CASE Stream(d)' = Stream(d)
    BY <1>0, <2>1, <2>3
  <2>4. CASE Stream(d)' = Append(Stream(d), m)
    <3>1. Increasing(Append(Stream(d), m))
      BY <1>0, <2>1, AppendIncreasing
    <3>2. IdsOf(Append(Stream(d), m)) \subseteq 1..(eventSequence + 1)
      BY <1>0, <2>1, AppendIds
    <3> QED
      BY <2>1, <2>4, <3>1, <3>2
  <2> QED
    BY <2>2, <2>3, <2>4
<1>4. CASE BroadcastSnapshot
  <2> DEFINE m == SnapshotMessage(snapshot)
  <2>1. m \in Messages /\ m.event # "task_activity" /\ wire' = wire
    BY <1>4 DEF BroadcastSnapshot, TypeOK, SnapshotMessage, Messages
  <2>2. (chan' = chan) \/ Offer(m)
    BY <1>4 DEF BroadcastSnapshot
  <2> HIDE DEF m
  <2>3. Stream(d)' = Stream(d) \/ Stream(d)' = Append(Stream(d), m)
    <3>1. CASE chan' = chan
      BY <2>1, <3>1 DEF Stream
    <3> QED
      BY <2>1, <2>2, <3>1, OfferStream
  <2>4. eventSequence' = eventSequence
    BY <1>4 DEF BroadcastSnapshot
  <2> QED
    BY <1>1, <2>1, <2>3, <2>4
<1>5. ASSUME NEW c \in Conns, NEW cursor \in 0..MaxSequence, Subscribe(c, cursor)
      PROVE  Increasing(Stream(d)') /\ IdsOf(Stream(d)') \subseteq 1..eventSequence'
  <2>1. /\ eventSequence' = eventSequence
        /\ Stream(d)' = IF d = c THEN Replay(cursor) ELSE Stream(d)
    BY <1>5, SubscribeStream DEF Subscribe
  <2>2. cursor \in Nat /\ eventHistory \in Seq(1..MaxSequence)
    BY BoundsAssumption DEF TypeOK
  <2>3. Increasing(Replay(cursor)) /\ IdsOf(Replay(cursor)) \subseteq 1..eventSequence
    <3>1. /\ Increasing(Replay(cursor))
          /\ \E first \in 1..(eventSequence + 1) : IdsOf(Replay(cursor)) = first..eventSequence
      BY <1>0, <2>2, ReplayIds
    <3> QED
      BY <1>0, <3>1
  <2>4. CASE d = c
    BY <2>1, <2>3, <2>4
  <2> QED
    BY <1>1, <2>1, <2>4
<1>6. ASSUME NEW c \in Conns, FinishSubscribe(c)
      PROVE  Increasing(Stream(d)') /\ IdsOf(Stream(d)') \subseteq 1..eventSequence'
  <2>1. SnapshotMessage(current[d]) \in Messages
    BY DEF SnapshotMessage, Messages, TypeOK
  <2>2. SnapshotMessage(current[d]).event # "task_activity"
    BY DEF SnapshotMessage
  <2>3. eventSequence' = eventSequence
    BY <1>6 DEF FinishSubscribe, hubVars
  <2> QED
    BY <1>1, <1>6, <2>1, <2>2, <2>3, FinishStream
<1>7. ASSUME NEW c \in Conns, WriteMessage(c)
      PROVE  Increasing(Stream(d)') /\ IdsOf(Stream(d)') \subseteq 1..eventSequence'
  BY <1>1, <1>7, WriteStream DEF WriteMessage, hubVars
<1>8. ASSUME NEW c \in Conns, Unsubscribe(c)
      PROVE  Increasing(Stream(d)') /\ IdsOf(Stream(d)') \subseteq 1..eventSequence'
  <2>1. eventSequence' = eventSequence /\ Stream(d)' = IF d = c THEN <<>> ELSE Stream(d)
    BY <1>8, UnsubscribeStream DEF Unsubscribe, hubVars
  <2>2. CASE d = c
    BY <2>1, <2>2, EmptyIds
  <2> QED
    BY <1>1, <2>1, <2>2
<1> QED
  BY <1>2, <1>3, <1>4, <1>5, <1>6, <1>7, <1>8 DEF Next, HubNext

LEMMA SpecIdsOrdered == Spec => [](IInv /\ IdsOrdered)
<1>1. Init => IInv /\ IdsOrdered
  BY InitIInv, InitIdsOrdered
<1>2. IInv /\ IdsOrdered /\ [Next]_vars => (IInv /\ IdsOrdered)'
  BY NextIInv, NextIdsOrdered
<1> QED
  BY <1>1, <1>2, PTL DEF Spec

(* A request sees each task event at most once and in increasing order,    *)
(* for every interleaving of its replay with the live sends.               *)
THEOREM StreamOrdered == Spec => []StreamIdsIncrease
<1>1. IdsOrdered => StreamIdsIncrease
  BY DEF IdsOrdered, StreamIdsIncrease, Sent, Increasing, Tasks
<1> QED
  BY <1>1, SpecIdsOrdered, PTL

(* A new id is retained, and nothing that was not. *)
LEMMA EmitRetains ==
  ASSUME IInv, EmitTaskEvent, NEW id \in Elements(eventHistory)'
  PROVE  id = eventSequence + 1 \/ id \in Elements(eventHistory)
<1> DEFINE n == Len(eventHistory)
           m == Len(eventHistory')
<1>1. /\ eventSequence \in Nat /\ eventSequence' = eventSequence + 1
      /\ eventHistory \in Seq(1..MaxSequence) /\ HistoryIsSuffix
  BY DEF IInv, TypeOK, EmitTaskEvent
<1>2. eventSequence + 1 <= MaxSequence
  BY <1>1, BoundsAssumption DEF IInv, TypeOK, EmitTaskEvent
<1>3. eventHistory' \in Seq(1..MaxSequence) /\ HistoryIsSuffix'
  BY <1>1, <1>2, RememberSuffix DEF EmitTaskEvent
<1>4. n \in 0..eventSequence /\ Elements(eventHistory) = (eventSequence - n + 1)..eventSequence
  BY <1>1, RetainedIds
<1>5. /\ m \in Nat
      /\ m = IF eventSequence' < HistoryLimit THEN eventSequence' ELSE HistoryLimit
      /\ \A i \in 1..m : eventHistory'[i] = eventSequence' - m + i
  BY <1>3, LenProperties DEF HistoryIsSuffix
<1>6. n = IF eventSequence < HistoryLimit THEN eventSequence ELSE HistoryLimit
  BY <1>1 DEF HistoryIsSuffix
<1>7. PICK i \in 1..m : id = eventHistory'[i]
  BY DEF Elements
<1> HIDE DEF n, m
<1>8. id \in (eventSequence' - m + 1)..eventSequence'
  BY <1>1, <1>5, <1>7
<1>9. eventSequence' - m + 1 >= eventSequence - n + 1
  BY <1>1, <1>4, <1>5, <1>6, LimitsAssumption
<1>10. id \in Int /\ id <= eventSequence + 1 /\ id >= eventSequence - n + 1
  <2>1. eventSequence \in Nat /\ eventSequence' = eventSequence + 1 /\ m \in Nat /\ n \in Nat
    BY <1>1, <1>4, <1>5
  <2>2. id \in Int /\ id <= eventSequence' /\ id >= eventSequence' - m + 1
    BY <1>8, <2>1
  <2> QED
    BY <1>9, <2>1, <2>2
<1>11. id # eventSequence + 1 => id \in (eventSequence - n + 1)..eventSequence
  BY <1>1, <1>4, <1>10
<1> QED
  BY <1>4, <1>11

LEMMA InitNoHole == Init => NoHoleWithoutDrop
BY DEF Init, NoHoleWithoutDrop

LEMMA NextNoHole == IInv /\ NoHoleWithoutDrop /\ [Next]_vars => NoHoleWithoutDrop'
<1> DEFINE Complete(d) ==
      /\ \E first \in 1..(eventSequence + 1) : IdsOf(Stream(d)) = first..eventSequence
      /\ \A id \in Elements(eventHistory) : id > after[d] => id \in IdsOf(Stream(d))
<1>a. \A d : TaskIds(d) = IdsOf(Stream(d)) /\ TaskIds(d)' = IdsOf(Stream(d)')
  BY DEF TaskIds, Sent, IdsOf, Tasks
<1>b. NoHoleWithoutDrop <=> \A d \in subs \ lost : Complete(d)
  BY <1>a DEF NoHoleWithoutDrop
<1>c. ASSUME \A d \in subs' \ lost' :
        /\ \E first \in 1..(eventSequence' + 1) : IdsOf(Stream(d)') = first..eventSequence'
        /\ \A id \in Elements(eventHistory)' : id > after'[d] => id \in IdsOf(Stream(d)')
      PROVE NoHoleWithoutDrop'
  BY <1>a, <1>c DEF NoHoleWithoutDrop
<1> SUFFICES ASSUME IInv, NoHoleWithoutDrop, [Next]_vars, NEW d \in subs' \ lost'
             PROVE
        /\ \E first \in 1..(eventSequence' + 1) : IdsOf(Stream(d)') = first..eventSequence'
        /\ \A id \in Elements(eventHistory)' : id > after'[d] => id \in IdsOf(Stream(d)')
  BY <1>c
<1> DEFINE Goal ==
        /\ \E first \in 1..(eventSequence' + 1) : IdsOf(Stream(d)') = first..eventSequence'
        /\ \A id \in Elements(eventHistory)' : id > after'[d] => id \in IdsOf(Stream(d)')
<1> USE DEF IInv
<1>0. /\ eventSequence \in Nat /\ eventHistory \in Seq(1..MaxSequence)
      /\ \A c \in Conns : Stream(c) \in Seq(Messages)
      /\ subs \subseteq Conns
  BY StreamType DEF TypeOK
<1>1. ASSUME d \in subs \ lost, UNCHANGED <<eventSequence, eventHistory>>,
             after'[d] = after[d],
             \/ Stream(d)' = Stream(d)
             \/ \E m \in Messages : /\ Stream(d)' = Append(Stream(d), m)
                                   /\ m.event # "task_activity"
      PROVE  Goal
  <2>1. Complete(d)
    BY <1>b, <1>1
  <2>2. IdsOf(Stream(d)') = IdsOf(Stream(d))
    <3>1. ASSUME NEW m \in Messages, Stream(d)' = Append(Stream(d), m),
                 m.event # "task_activity"
          PROVE  IdsOf(Stream(d)') = IdsOf(Stream(d))
      BY <1>0, <1>1, <3>1, AppendIds
    <3> QED
      BY <1>1, <3>1
  <2>3. Elements(eventHistory)' = Elements(eventHistory)
    BY <1>1 DEF Elements
  <2> QED
    BY <1>1, <2>1, <2>2, <2>3
<1>2. CASE \/ \E content \in Contents, events \in 0..MaxBatch : BeginRebuild(content, events)
           \/ \E content \in Contents : RecordAccountResult(content)
           \/ UNCHANGED vars
  <2>1. /\ d \in subs \ lost /\ UNCHANGED <<eventSequence, eventHistory, after>>
        /\ Stream(d)' = Stream(d)
    BY <1>2 DEF BeginRebuild, RecordAccountResult, vars, hubVars, connVars, Stream
  <2> QED
    BY <1>1, <2>1
<1>3. CASE EmitTaskEvent
  <2> DEFINE m == TaskActivity(eventSequence + 1)
  <2>1. /\ Offer(m) /\ wire' = wire /\ eventSequence' = eventSequence + 1
        /\ d \in subs \ lost' /\ after' = after
    BY <1>3 DEF EmitTaskEvent
  <2>2. eventSequence + 1 \in 1..MaxSequence
    BY <1>3, BoundsAssumption DEF EmitTaskEvent, TypeOK
  <2>3. m \in Messages /\ m.event = "task_activity" /\ m.sequence = eventSequence + 1
    BY <2>2 DEF TaskActivity, Messages
  <2> HIDE DEF m
  <2>4. d \notin lost /\ Stream(d)' = Append(Stream(d), m)
    BY <1>0, <2>1, <2>3, OfferStream
  <2>5. IdsOf(Stream(d)') = IdsOf(Stream(d)) \cup {eventSequence + 1}
    BY <1>0, <2>1, <2>3, <2>4, AppendIds
  <2>6. Complete(d)
    BY <1>b, <2>1, <2>4
  <2>7. PICK first \in 1..(eventSequence + 1) : IdsOf(Stream(d)) = first..eventSequence
    BY <2>6
  <2>8. first \in 1..(eventSequence' + 1) /\ IdsOf(Stream(d)') = first..eventSequence'
    BY <1>0, <2>1, <2>5, <2>7
  <2>9. ASSUME NEW id \in Elements(eventHistory)', id > after'[d]
        PROVE  id \in IdsOf(Stream(d)')
    BY <1>3, <2>1, <2>5, <2>6, <2>9, EmitRetains
  <2> QED
    BY <2>8, <2>9
<1>4. CASE BroadcastSnapshot
  <2> DEFINE m == SnapshotMessage(snapshot)
  <2>1. m \in Messages /\ m.event # "task_activity"
    BY DEF TypeOK, SnapshotMessage, Messages
  <2>2. /\ wire' = wire /\ after' = after /\ subs' = subs
        /\ UNCHANGED <<eventSequence, eventHistory>>
        /\ (chan' = chan /\ lost' = lost) \/ Offer(m)
    BY <1>4 DEF BroadcastSnapshot
  <2> HIDE DEF m
  <2>3. CASE chan' = chan /\ lost' = lost
    BY <1>1, <2>2, <2>3 DEF Stream
  <2>4. CASE Offer(m)
    <3>1. d \notin lost /\ Stream(d)' = Append(Stream(d), m)
      BY <1>0, <2>1, <2>2, <2>4, OfferStream
    <3> QED
      BY <1>1, <2>1, <2>2, <3>1
  <2> QED
    BY <2>2, <2>3, <2>4
<1>5. ASSUME NEW c \in Conns, NEW cursor \in 0..MaxSequence, Subscribe(c, cursor)
      PROVE  Goal
  <2>1. d \in Conns /\ Stream(d)' = IF d = c THEN Replay(cursor) ELSE Stream(d)
    BY <1>0, <1>5, SubscribeStream DEF Subscribe
  <2>2. /\ UNCHANGED <<eventSequence, eventHistory>>
        /\ after'[d] = IF d = c THEN cursor ELSE after[d]
        /\ d # c => d \in subs \ lost
    BY <1>5, <2>1 DEF Subscribe, TypeOK
  <2>3. CASE d = c
    <3>1. cursor \in Nat
      BY BoundsAssumption
    <3>2. PICK first \in 1..(eventSequence + 1) :
               /\ IdsOf(Replay(cursor)) = first..eventSequence
               /\ \A id \in Elements(eventHistory) : id > cursor => id >= first
      BY <1>0, <3>1, ReplayIds
    <3>3. Elements(eventHistory) = (eventSequence - Len(eventHistory) + 1)..eventSequence
      BY <1>0, RetainedIds
    <3>4. Len(eventHistory) \in Nat
      BY <1>0, LenProperties
    <3>5. Elements(eventHistory)' = Elements(eventHistory)
      BY <2>2 DEF Elements
    <3>6. ASSUME NEW id \in Elements(eventHistory)', id > after'[d]
          PROVE  id \in IdsOf(Stream(d)')
      <4>1. id >= first
        BY <2>2, <2>3, <3>2, <3>5, <3>6
      <4>2. id \in first..eventSequence
        BY <1>0, <3>3, <3>4, <3>5, <4>1
      <4> QED
        BY <2>1, <2>3, <3>2, <4>2
    <3> QED
      BY <2>1, <2>2, <2>3, <3>2, <3>6
  <2> QED
    BY <1>1, <2>1, <2>2, <2>3
<1>6. ASSUME NEW c \in Conns, FinishSubscribe(c)
      PROVE  Goal
  <2>1. /\ d \in subs \ lost /\ UNCHANGED <<eventSequence, eventHistory, after>>
    BY <1>6 DEF FinishSubscribe, hubVars
  <2>2. SnapshotMessage(current[d]) \in Messages
    BY <1>0, <2>1 DEF SnapshotMessage, Messages, TypeOK
  <2>3. SnapshotMessage(current[d]).event # "task_activity"
    BY DEF SnapshotMessage
  <2> QED
    BY <1>0, <1>1, <1>6, <2>1, <2>2, <2>3, FinishStream
<1>7. ASSUME NEW c \in Conns, WriteMessage(c)
      PROVE  Goal
  <2>1. d \in subs \ lost /\ UNCHANGED <<eventSequence, eventHistory, after>>
    BY <1>7 DEF WriteMessage, hubVars
  <2> QED
    BY <1>0, <1>1, <1>7, <2>1, WriteStream
<1>8. ASSUME NEW c \in Conns, Unsubscribe(c)
      PROVE  Goal
  <2>1. /\ UNCHANGED <<eventSequence, eventHistory>>
        /\ d # c /\ d \in subs \ lost /\ d \in Conns
    BY <1>0, <1>8 DEF Unsubscribe, hubVars
  <2>2. after'[d] = after[d]
    BY <1>8, <2>1 DEF Unsubscribe, TypeOK
  <2>3. Stream(d)' = Stream(d)
    BY <1>8, <2>1, UnsubscribeStream
  <2> QED
    BY <1>1, <2>1, <2>2, <2>3
<1> QED
  BY <1>2, <1>3, <1>4, <1>5, <1>6, <1>7, <1>8 DEF Next, HubNext

(* A subscriber none of whose sends was dropped has every retained event   *)
(* after its cursor and no hole up to the newest, whatever Subscribe was   *)
(* interleaved with.                                                       *)
THEOREM NoHole == Spec => []NoHoleWithoutDrop
<1>1. Init => IInv /\ NoHoleWithoutDrop
  BY InitIInv, InitNoHole
<1>2. IInv /\ NoHoleWithoutDrop /\ [Next]_vars => (IInv /\ NoHoleWithoutDrop)'
  BY NextIInv, NextNoHole
<1> QED
  BY <1>1, <1>2, PTL DEF Spec

-----------------------------------------------------------------------------
(* The snapshots of a stream: how it ends, and with which signature.       *)
Shots(s) == {i \in 1..Len(s) : s[i].event = "snapshot"}

EndsWith(s, signature) ==
  \E i \in Shots(s) : IsNewest(i, Shots(s)) /\ Signature(s[i].snapshot) = signature

(* The last snapshot is a copy, the one before it has the signature. *)
CopyAfter(s, copy, signature) ==
  \E i, j \in Shots(s) :
    /\ IsNewest(i, Shots(s)) /\ s[i].snapshot = copy
    /\ IsNewest(j, Shots(s) \ {i}) /\ Signature(s[j].snapshot) = signature

OnlyCopy(s, copy) == \E i \in Shots(s) : Shots(s) = {i} /\ s[i].snapshot = copy

LEMMA AppendShots ==
  ASSUME NEW s \in Seq(Messages), NEW m \in Messages
  PROVE  /\ m.event = "snapshot" => Shots(Append(s, m)) = Shots(s) \cup {Len(s) + 1}
         /\ m.event # "snapshot" => Shots(Append(s, m)) = Shots(s)
         /\ \A i \in Shots(s) : Append(s, m)[i] = s[i]
         /\ Append(s, m)[Len(s) + 1] = m
         /\ \A i \in Shots(s) : i \in Nat /\ i < Len(s) + 1
         /\ Len(s) \in Nat
<1>1. /\ Len(s) \in Nat /\ Len(Append(s, m)) = Len(s) + 1
      /\ \A i \in 1..Len(s) : Append(s, m)[i] = s[i]
      /\ Append(s, m)[Len(s) + 1] = m
  BY LenProperties, AppendProperties
<1>2. 1..(Len(s) + 1) = 1..Len(s) \cup {Len(s) + 1}
  BY <1>1
<1> QED
  BY <1>1, <1>2 DEF Shots

(* A task event leaves the end as it was. *)
LEMMA AppendTaskShots ==
  ASSUME NEW s \in Seq(Messages), NEW m \in Messages, m.event # "snapshot",
         NEW copy, NEW signature
  PROVE  /\ Shots(Append(s, m)) = Shots(s)
         /\ EndsWith(s, signature) => EndsWith(Append(s, m), signature)
         /\ CopyAfter(s, copy, signature) => CopyAfter(Append(s, m), copy, signature)
         /\ OnlyCopy(s, copy) => OnlyCopy(Append(s, m), copy)
<1> DEFINE t == Append(s, m)
<1>1. Shots(t) = Shots(s) /\ \A i \in Shots(s) : t[i] = s[i]
  BY AppendShots
<1> HIDE DEF t
<1> QED
  BY <1>1 DEF EndsWith, CopyAfter, OnlyCopy, t

(* A snapshot becomes the end. *)
LEMMA AppendSnapshotShots ==
  ASSUME NEW s \in Seq(Messages), NEW sent \in Snapshots, NEW signature
  PROVE  /\ EndsWith(Append(s, SnapshotMessage(sent)), Signature(sent))
         /\ Shots(s) = {} => OnlyCopy(Append(s, SnapshotMessage(sent)), sent)
         /\ EndsWith(s, signature) =>
              CopyAfter(Append(s, SnapshotMessage(sent)), sent, signature)
<1> DEFINE m == SnapshotMessage(sent)
           t == Append(s, m)
           last == Len(s) + 1
<1>1. m \in Messages /\ m.event = "snapshot" /\ m.snapshot = sent
  BY DEF SnapshotMessage, Messages
<1> HIDE DEF m
<1>2. /\ Shots(t) = Shots(s) \cup {last}
      /\ \A i \in Shots(s) : t[i] = s[i] /\ i \in Nat /\ i < last
      /\ t[last] = m /\ last \in Nat
  <2>1. /\ m.event = "snapshot" => Shots(t) = Shots(s) \cup {last}
        /\ \A i \in Shots(s) : t[i] = s[i]
        /\ t[last] = m
        /\ \A i \in Shots(s) : i \in Nat /\ i < last
        /\ Len(s) \in Nat
    BY <1>1, AppendShots
  <2>2. last \in Nat
    BY <2>1
  <2> HIDE DEF t, last
  <2> QED
    BY <1>1, <2>1, <2>2
<1> HIDE DEF t, last
<1>3. IsNewest(last, Shots(t))
  BY <1>2 DEF IsNewest
<1>4. EndsWith(t, Signature(sent))
  BY <1>1, <1>2, <1>3 DEF EndsWith
<1>5. Shots(s) = {} => OnlyCopy(t, sent)
  BY <1>1, <1>2 DEF OnlyCopy
<1>6. ASSUME EndsWith(s, signature) PROVE CopyAfter(t, sent, signature)
  <2>1. PICK j \in Shots(s) : IsNewest(j, Shots(s)) /\ Signature(s[j].snapshot) = signature
    BY <1>6 DEF EndsWith
  <2>2. Shots(t) \ {last} = Shots(s)
    BY <1>2
  <2>3. t[j] = s[j] /\ j \in Shots(t) /\ last \in Shots(t)
    BY <1>2
  <2> QED
    BY <1>1, <1>2, <1>3, <2>1, <2>2, <2>3 DEF CopyAfter
<1> QED
  BY <1>4, <1>5, <1>6 DEF t, m

(* A change is published and not broadcast yet: it will be, for what       *)
(* recordAccountResult changed is not changed back.                        *)
Unsent == streamReady /\ Signature(snapshot) # streamSignature

(* Where the stream of a request stands against the last broadcast. *)
Follows(c) ==
  LET s == Stream(c)
  IN /\ handler[c] = "subscribing" =>
          \/ Shots(s) = {} /\ (Signature(current[c]) = streamSignature \/ Unsent)
          \/ EndsWith(s, streamSignature)
     /\ handler[c] = "streaming" =>
          \/ EndsWith(s, streamSignature)
          \/ CopyAfter(s, current[c], streamSignature)
          \/ OnlyCopy(s, current[c]) /\ Unsent

SnapshotsInv ==
  /\ ~streamReady /\ mu = "free" => Signature(snapshot) = streamSignature
  /\ \A c \in subs \ lost : Follows(c)

LEMMA InitSnapshots == Init => SnapshotsInv
BY DEF Init, HubInit, SnapshotsInv, Signature

LEMMA NextSnapshots == IInv /\ SnapshotsInv /\ [Next]_vars => SnapshotsInv'
<1> SUFFICES ASSUME IInv, SnapshotsInv, [Next]_vars PROVE SnapshotsInv'
  OBVIOUS
<1> USE DEF IInv
<1>0. /\ \A c \in Conns : Stream(c) \in Seq(Messages)
      /\ subs \subseteq Conns /\ snapshot \in Snapshots
      /\ \A c \in Conns : current[c] \in Snapshots
      /\ mu \in {"free", "rebuild"}
  BY StreamType DEF TypeOK, ReplayNeverBlocks
(* A step that neither broadcasts nor touches the request. *)
<1>1. ASSUME NEW d \in subs \ lost, streamSignature' = streamSignature, Unsent => Unsent',
             handler'[d] = handler[d], current'[d] = current[d], Stream(d)' = Stream(d)
      PROVE  Follows(d)'
  <2>1. Follows(d)
    BY DEF SnapshotsInv
  <2> QED
    BY <1>1, <2>1 DEF Follows
<1>2. ASSUME NEW content \in Contents, NEW events \in 0..MaxBatch,
             BeginRebuild(content, events)
      PROVE  SnapshotsInv'
  <2>1. Unsent => Unsent'
    BY <1>2 DEF BeginRebuild, Unsent, Signature, TypeOK
  <2>2. ASSUME NEW d \in subs' \ lost' PROVE Follows(d)'
    BY <1>1, <1>2, <2>1, <2>2 DEF BeginRebuild, connVars, Stream
  <2>3. mu' # "free"
    BY <1>2 DEF BeginRebuild
  <2> QED
    BY <2>2, <2>3 DEF SnapshotsInv
<1>3. ASSUME NEW content \in Contents, RecordAccountResult(content)
      PROVE  SnapshotsInv'
  <2>1. (Unsent => Unsent') /\ streamReady'
    BY <1>3 DEF RecordAccountResult, Unsent, Signature
  <2>2. ASSUME NEW d \in subs' \ lost' PROVE Follows(d)'
    BY <1>1, <1>3, <2>1, <2>2 DEF RecordAccountResult, connVars, Stream
  <2> QED
    BY <2>1, <2>2 DEF SnapshotsInv
<1>4. CASE EmitTaskEvent
  <2> DEFINE m == TaskActivity(eventSequence + 1)
  <2>1. /\ Offer(m) /\ wire' = wire /\ mu' = "rebuild"
        /\ UNCHANGED <<subs, handler, current, streamReady, snapshot, streamSignature>>
    BY <1>4 DEF EmitTaskEvent
  <2>2. eventSequence + 1 \in 1..MaxSequence
    BY <1>4, BoundsAssumption DEF EmitTaskEvent, TypeOK
  <2>3. m \in Messages /\ m.event # "snapshot"
    BY <2>2 DEF TaskActivity, Messages
  <2> HIDE DEF m
  <2>4. ASSUME NEW d \in subs' \ lost' PROVE Follows(d)'
    <3>1. d \in subs \ lost /\ Stream(d)' = Append(Stream(d), m) /\ d \in Conns
      BY <1>0, <2>1, <2>3, OfferStream
    <3>2. Follows(d)
      BY <3>1 DEF SnapshotsInv
    <3>3. Unsent' = Unsent
      BY <2>1 DEF Unsent
    <3> QED
      BY <1>0, <2>1, <2>3, <3>1, <3>2, <3>3, AppendTaskShots DEF Follows
  <2> QED
    BY <2>1, <2>4 DEF SnapshotsInv
<1>5. CASE BroadcastSnapshot
  <2> DEFINE m == SnapshotMessage(snapshot)
  <2>1. /\ wire' = wire /\ UNCHANGED <<subs, handler, current, snapshot>>
    BY <1>5 DEF BroadcastSnapshot
  <2>2. CASE streamReady /\ Signature(snapshot) = streamSignature
    <3>1. UNCHANGED <<streamReady, streamSignature, chan, lost>>
      BY <1>5, <2>2 DEF BroadcastSnapshot
    <3>2. ASSUME NEW d \in subs' \ lost' PROVE Follows(d)'
      BY <1>1, <2>1, <3>1 DEF Stream, Unsent
    <3> QED
      BY <2>2, <3>1, <3>2 DEF SnapshotsInv
  <2>3. CASE ~(streamReady /\ Signature(snapshot) = streamSignature)
    <3>1. streamReady' = TRUE /\ streamSignature' = Signature(snapshot) /\ Offer(m)
      BY <1>5, <2>3 DEF BroadcastSnapshot
    <3>2. m \in Messages
      BY <1>0 DEF SnapshotMessage, Messages
    <3>3. ASSUME NEW d \in subs' \ lost' PROVE Follows(d)'
      <4>1. d \in subs \ lost /\ Stream(d)' = Append(Stream(d), m) /\ d \in Conns
        BY <1>0, <2>1, <3>1, <3>2, OfferStream
      <4>2. EndsWith(Stream(d)', streamSignature')
        BY <1>0, <3>1, <4>1, AppendSnapshotShots
      <4> QED
        BY <4>2 DEF Follows, EndsWith, Shots
    <3> QED
      BY <3>1, <3>3 DEF SnapshotsInv
  <2> QED
    BY <2>2, <2>3
<1>6. ASSUME NEW c \in Conns, NEW cursor \in 0..MaxSequence, Subscribe(c, cursor)
      PROVE  SnapshotsInv'
  <2>1. /\ UNCHANGED <<streamReady, snapshot, streamSignature>> /\ mu = "free"
        /\ subs' = subs \cup {c} /\ lost' = lost \ {c}
    BY <1>6 DEF Subscribe
  <2>2. ASSUME NEW d \in subs' \ lost' PROVE Follows(d)'
    <3>1. d \in Conns /\ Stream(d)' = IF d = c THEN Replay(cursor) ELSE Stream(d)
      BY <1>0, <1>6, <2>1, SubscribeStream
    <3>2. CASE d = c
      <4>1. cursor \in Nat /\ eventHistory \in Seq(1..MaxSequence) /\ eventSequence \in Nat
        BY BoundsAssumption DEF TypeOK
      <4>2. Tasks(Replay(cursor)) = 1..Len(Replay(cursor))
        BY <4>1, ReplayIds
      <4>3. Shots(Replay(cursor)) = {}
        BY <4>2 DEF Tasks, Shots
      <4>4. handler'[d] = "subscribing" /\ current'[d] = snapshot
        BY <1>6, <3>1, <3>2 DEF Subscribe, TypeOK
      <4>5. Signature(snapshot) = streamSignature \/ Unsent'
        BY <1>0, <2>1 DEF SnapshotsInv, Unsent, TypeOK
      <4>6. Shots(Stream(d))' = {}
        BY <3>1, <3>2, <4>3 DEF Shots
      <4> QED
        BY <2>1, <4>4, <4>5, <4>6 DEF Follows
    <3>3. CASE d # c
      <4>1. d \in subs \ lost /\ handler'[d] = handler[d] /\ current'[d] = current[d]
        BY <1>6, <2>1, <3>1, <3>3 DEF Subscribe, TypeOK
      <4> QED
        BY <1>1, <2>1, <3>1, <3>3, <4>1 DEF Unsent
    <3> QED
      BY <3>2, <3>3
  <2> QED
    BY <2>1, <2>2 DEF SnapshotsInv
<1>7. ASSUME NEW c \in Conns, FinishSubscribe(c)
      PROVE  SnapshotsInv'
  <2>1. UNCHANGED <<mu, streamReady, snapshot, streamSignature, subs, lost, current>>
    BY <1>7 DEF FinishSubscribe, hubVars
  <2>2. ASSUME NEW d \in subs' \ lost' PROVE Follows(d)'
    <3>1. /\ d \in Conns /\ d \in subs \ lost
          /\ Stream(d)' = IF d = c THEN Append(Stream(d), SnapshotMessage(current[d]))
                                   ELSE Stream(d)
      BY <1>0, <1>7, <2>1, FinishStream
    <3>2. Unsent' = Unsent
      BY <2>1 DEF Unsent
    <3>3. CASE d = c
      <4>1. handler[d] = "subscribing" /\ handler'[d] = "streaming"
        BY <1>7, <3>1, <3>3 DEF FinishSubscribe, TypeOK
      <4>2. \/ Shots(Stream(d)) = {} /\ (Signature(current[d]) = streamSignature \/ Unsent)
            \/ EndsWith(Stream(d), streamSignature)
        BY <3>1, <4>1 DEF SnapshotsInv, Follows
      <4> DEFINE t == Append(Stream(d), SnapshotMessage(current[d]))
      <4>3. /\ EndsWith(t, Signature(current[d]))
            /\ Shots(Stream(d)) = {} => OnlyCopy(t, current[d])
            /\ EndsWith(Stream(d), streamSignature) =>
                 CopyAfter(t, current[d], streamSignature)
        BY <1>0, <3>1, AppendSnapshotShots
      <4>4. Stream(d)' = t
        BY <3>1, <3>3
      <4> HIDE DEF t
      <4>5. \/ EndsWith(t, streamSignature)
            \/ CopyAfter(t, current[d], streamSignature)
            \/ OnlyCopy(t, current[d]) /\ Unsent
        BY <4>2, <4>3
      <4> QED
        BY <2>1, <3>2, <4>1, <4>4, <4>5 DEF Follows, EndsWith, CopyAfter, OnlyCopy, Shots
    <3>4. CASE d # c
      <4>1. handler'[d] = handler[d]
        BY <1>7, <3>1, <3>4 DEF FinishSubscribe, TypeOK
      <4> QED
        BY <1>1, <2>1, <3>1, <3>2, <3>4, <4>1
    <3> QED
      BY <3>3, <3>4
  <2> QED
    BY <2>1, <2>2 DEF SnapshotsInv
<1>8. ASSUME NEW c \in Conns, WriteMessage(c)
      PROVE  SnapshotsInv'
  <2>1. UNCHANGED <<mu, streamReady, snapshot, streamSignature, subs, lost, current, handler>>
    BY <1>8 DEF WriteMessage, hubVars
  <2>2. ASSUME NEW d \in subs' \ lost' PROVE Follows(d)'
    BY <1>0, <1>1, <1>8, <2>1, WriteStream DEF Unsent
  <2> QED
    BY <2>1, <2>2 DEF SnapshotsInv
<1>9. ASSUME NEW c \in Conns, Unsubscribe(c)
      PROVE  SnapshotsInv'
  <2>1. /\ UNCHANGED <<mu, streamReady, snapshot, streamSignature, current>>
        /\ subs' = subs \ {c} /\ lost' = lost \ {c}
    BY <1>9 DEF Unsubscribe, hubVars
  <2>2. ASSUME NEW d \in subs' \ lost' PROVE Follows(d)'
    <3>1. d \in Conns /\ d # c /\ d \in subs \ lost
      BY <1>0, <2>1
    <3>2. handler'[d] = handler[d] /\ Stream(d)' = Stream(d)
      BY <1>9, <3>1, UnsubscribeStream DEF Unsubscribe, TypeOK
    <3> QED
      BY <1>1, <2>1, <3>1, <3>2 DEF Unsent
  <2> QED
    BY <2>1, <2>2 DEF SnapshotsInv
<1>10. CASE UNCHANGED vars
  <2>1. ASSUME NEW d \in subs' \ lost' PROVE Follows(d)'
    BY <1>1, <1>10 DEF vars, hubVars, connVars, Unsent, Stream
  <2> QED
    BY <1>10, <2>1 DEF SnapshotsInv, vars, hubVars
<1> QED
  BY <1>2, <1>3, <1>4, <1>5, <1>6, <1>7, <1>8, <1>9, <1>10 DEF Next, HubNext

(* A drained stream is stale only by the copy that Subscribe took under    *)
(* the lock and sent after a broadcast that overtook it, never because a   *)
(* change was not broadcast.                                               *)
THEOREM StaleOnlyByCopy == Spec => []StaleOnlyBySubscribeCopy
<1>1. Init => IInv /\ SnapshotsInv
  BY InitIInv, InitSnapshots
<1>2. IInv /\ SnapshotsInv /\ [Next]_vars => (IInv /\ SnapshotsInv)'
  BY NextIInv, NextSnapshots
<1>3. IInv /\ SnapshotsInv => StaleOnlyBySubscribeCopy
  <2> SUFFICES ASSUME IInv, SnapshotsInv, NEW c \in Conns, Drained(c)
               PROVE  LET sent == Shots(Stream(c))
                          IsCurrent(i) == Signature(Stream(c)[i].snapshot) = Signature(snapshot)
                      IN \E i \in sent :
                           /\ IsNewest(i, sent)
                           /\ \/ IsCurrent(i)
                              \/ /\ Stream(c)[i].snapshot = current[c]
                                 /\ \E j \in sent : IsNewest(j, sent \ {i}) /\ IsCurrent(j)
    BY DEF StaleOnlyBySubscribeCopy, Sent, Shots
  <2>1. ~Unsent /\ streamSignature = Signature(snapshot)
    BY DEF Drained, SnapshotsInv, Unsent, IInv, TypeOK
  <2>2. \/ EndsWith(Stream(c), streamSignature)
        \/ CopyAfter(Stream(c), current[c], streamSignature)
    BY <2>1 DEF Drained, SnapshotsInv, Follows
  <2> QED
    BY <2>1, <2>2 DEF EndsWith, CopyAfter
<1> QED
  BY <1>1, <1>2, <1>3, PTL DEF Spec
=============================================================================
