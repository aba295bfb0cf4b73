-------------------------- MODULE EventBrokerProofs --------------------------
(***************************************************************************)
(* Proofs about EventBroker, for any dialogs, subscriptions, events and    *)
(* any positive queue size.                                                *)
(***************************************************************************)
EXTENDS EventBroker, SequenceTheorems, TLAPS

-----------------------------------------------------------------------------
(* What closing leaves in a queue.                                         *)

(* close() with discard_pending leaves the sentinel alone.                 *)
LEMMA DiscardedQueue ==
  /\ Discarded \in Seq(Items)
  /\ Len(Discarded) = 1
  /\ Discarded[1] = CLOSED
  BY DEF Discarded, Items

(* close() without it appends the sentinel and stays within the capacity.  *)
LEMMA DrainedQueue ==
  ASSUME NEW q \in Seq(Events), Len(q) <= QueueSize
  PROVE  /\ Drained(q) \in Seq(Items)
         /\ Len(Drained(q)) \in 1..QueueSize
         /\ Drained(q)[Len(Drained(q))] = CLOSED
         /\ \A i \in 1..(Len(Drained(q)) - 1) : Drained(q)[i] \in Events
<1> DEFINE kept == IF IsFull(q) THEN Tail(q) ELSE q
<1>1. kept \in Seq(Events) /\ Len(kept) + 1 <= QueueSize
  BY QueueSizeAssumption DEF IsFull
<1>2. kept \in Seq(Items)
  BY <1>1, SeqMonotonic DEF Items
<1>3. Drained(q) = Append(kept, CLOSED)
  BY DEF Drained
<1> HIDE DEF kept
<1>4. CLOSED \in Items
  BY DEF Items
<1>5. /\ Drained(q) \in Seq(Items)
      /\ Len(Drained(q)) = Len(kept) + 1
      /\ Drained(q)[Len(kept) + 1] = CLOSED
      /\ \A i \in 1..Len(kept) : Drained(q)[i] = kept[i]
  BY <1>2, <1>3, <1>4
<1>6. \A i \in 1..Len(kept) : kept[i] \in Events
  BY <1>1
<1> QED
  BY <1>1, <1>5, <1>6, QueueSizeAssumption

-----------------------------------------------------------------------------
(* Types.                                                                  *)

LEMMA TypeInit == Init => TypeOK
<1> SUFFICES ASSUME Init PROVE TypeOK
  OBVIOUS
<1>1. <<>> \in Seq(Items) /\ <<>> \in Seq(Events)
  OBVIOUS
<1>2. ended \in [Subs -> BOOLEAN]
  BY Zenon DEF Init
<1> QED
  BY <1>1, <1>2 DEF Init, TypeOK

LEMMA DrainedType ==
  ASSUME NEW q \in Seq(Items)
  PROVE  Drained(q) \in Seq(Items)
<1>1. CASE IsFull(q)
  <2>1. q # <<>>
    BY <1>1, QueueSizeAssumption DEF IsFull
  <2>2. Tail(q) \in Seq(Items) /\ CLOSED \in Items
    BY <2>1 DEF Items
  <2> QED
    BY <1>1, <2>2 DEF Drained
<1>2. CASE ~IsFull(q)
  BY <1>2 DEF Drained, Items
<1> QED
  BY <1>1, <1>2

LEMMA TypeStep == TypeOK /\ [Next]_brokerVars => TypeOK'
<1> SUFFICES ASSUME TypeOK, [Next]_brokerVars PROVE TypeOK'
  OBVIOUS
<1> USE DEF TypeOK
<1>1. ASSUME NEW s \in Subs, NEW d \in Dialogs, Subscribe(s, d) PROVE TypeOK'
  BY <1>1 DEF Subscribe
<1>2. ASSUME NEW s \in Subs, Unsubscribe(s) PROVE TypeOK'
  BY <1>2, DiscardedQueue DEF Unsubscribe, Close, CloseReasons
<1>3. ASSUME NEW d \in Dialogs, CloseDialog(d) PROVE TypeOK'
  BY <1>3, DrainedType DEF CloseDialog, Close, CloseReasons
<1>4. CASE Shutdown
  BY <1>4, DrainedType DEF Shutdown, Close, CloseReasons
<1>5. ASSUME NEW s \in Subs, Receive(s) PROVE TypeOK'
  <2>1. queue[s] \in Seq(Items) /\ queue[s] # <<>>
    BY <1>5 DEF Receive
  <2>2. Tail(queue[s]) \in Seq(Items) /\ Head(queue[s]) \in Items
    BY <2>1
  <2>3. queue' \in [Subs -> Seq(Items)]
    BY <1>5, <2>2 DEF Receive
  <2>4. ended' \in [Subs -> BOOLEAN]
    BY <1>5, Zenon DEF Receive
  <2>5. received' \in [Subs -> Seq(Events)]
    <3>1. CASE Head(queue[s]) = CLOSED
      BY <1>5, <3>1 DEF Receive
    <3>2. CASE Head(queue[s]) # CLOSED
      <4>1. Append(received[s], Head(queue[s])) \in Seq(Events)
        BY <2>2, <3>2 DEF Items
      <4> QED
        BY <1>5, <3>2, <4>1 DEF Receive
    <3> QED
      BY <3>1, <3>2
  <2> QED
    BY <1>5, <2>3, <2>4, <2>5 DEF Receive
<1>6. ASSUME NEW d \in Dialogs, NEW event \in Events, Publish(d, event)
      PROVE  TypeOK'
  <2>1. \A s \in Subs : OfferedQueue(s, event) \in Seq(Items)
    BY DiscardedQueue DEF OfferedQueue, Items
  <2>2. \A s \in Subs : OfferedReason(s) \in CloseReasons \cup {"open"}
    BY DEF OfferedReason, CloseReasons
  <2>3. /\ queue' \in [Subs -> Seq(Items)]
        /\ reason' \in [Subs -> CloseReasons \cup {"open"}]
        /\ offered' \in [Subs -> Seq(Events)]
    BY <1>6, <2>1, <2>2 DEF Publish
  <2>4. subscribers' \in [Dialogs -> SUBSET Subs]
    BY <1>6 DEF Publish
  <2> QED
    BY <1>6, <2>3, <2>4 DEF Publish
<1>7. CASE UNCHANGED brokerVars
  BY <1>7 DEF brokerVars
<1> QED
  BY <1>1, <1>2, <1>3, <1>4, <1>5, <1>6, <1>7 DEF Next, Manage

(* The broker's variables keep their types whatever its callers do.        *)
THEOREM BrokerTypeCorrect == Spec => []TypeOK
  BY TypeInit, TypeStep, PTL DEF Spec

-----------------------------------------------------------------------------
(* The inductive invariant.                                                *)

(* A subscription that does not exist yet is untouched.                    *)
FreshUntouched ==
  \A s \in Subs :
    dialogOf[s] = NoDialog =>
      /\ reason[s] = "open" /\ ~ended[s]
      /\ queue[s] = <<>> /\ offered[s] = <<>> /\ received[s] = <<>>

(* shutdown() leaves nothing registered, and subscribe() is refused then.  *)
ClosedBrokerEmpty == brokerClosed => \A d \in Dialogs : subscribers[d] = {}

BrokerInv ==
  /\ TypeOK
  /\ ClosedBrokerEmpty
  /\ FreshUntouched
  /\ RegisteredIffOpen
  /\ QueueBounded
  /\ SentinelEndsQueue
  /\ GapFreeWhileOpen

LEMMA RegistryStep ==
  ASSUME TypeOK, FreshUntouched, RegisteredIffOpen, [Next]_brokerVars
  PROVE  RegisteredIffOpen'
<1> USE DEF TypeOK, RegisteredIffOpen
<1>1. ASSUME NEW s \in Subs, NEW d \in Dialogs, Subscribe(s, d)
      PROVE  RegisteredIffOpen'
  BY <1>1, SentinelAssumption DEF Subscribe, FreshUntouched
<1>2. ASSUME NEW s \in Subs, Unsubscribe(s) PROVE RegisteredIffOpen'
  BY <1>2 DEF Unsubscribe, Close
<1>3. ASSUME NEW d \in Dialogs, CloseDialog(d) PROVE RegisteredIffOpen'
  BY <1>3 DEF CloseDialog, Close
<1>4. CASE Shutdown
  BY <1>4 DEF Shutdown, Close
<1>5. ASSUME NEW s \in Subs, Receive(s) PROVE RegisteredIffOpen'
  BY <1>5 DEF Receive
<1>6. ASSUME NEW d \in Dialogs, NEW event \in Events, Publish(d, event)
      PROVE  RegisteredIffOpen'
  BY <1>6 DEF Publish, Reached, Accepts, OfferedReason
<1>7. CASE UNCHANGED brokerVars
  BY <1>7 DEF brokerVars
<1> QED
  BY <1>1, <1>2, <1>3, <1>4, <1>5, <1>6, <1>7 DEF Next, Manage

-----------------------------------------------------------------------------
(* What one step can do to one subscription.                               *)

Untouched(s) ==
  /\ reason'[s] = reason[s] /\ queue'[s] = queue[s]
  /\ offered'[s] = offered[s] /\ received'[s] = received[s]
  /\ ended'[s] = ended[s]

TakesEvent(s) ==
  /\ reason[s] = "open" /\ reason'[s] = "open" /\ Len(queue[s]) < QueueSize
  /\ \E event \in Events : /\ queue'[s] = Append(queue[s], event)
                           /\ offered'[s] = Append(offered[s], event)
  /\ received'[s] = received[s] /\ ended'[s] = ended[s]

Closes(s) ==
  /\ reason[s] = "open" /\ reason'[s] # "open"
  /\ queue'[s] \in {Discarded, Drained(queue[s])}
  /\ received'[s] = received[s] /\ ended'[s] = ended[s]

HandsOver(s) ==
  /\ reason'[s] = reason[s] /\ offered'[s] = offered[s]
  /\ ~ended[s] /\ queue[s] # <<>> /\ queue'[s] = Tail(queue[s])
  /\ IF Head(queue[s]) = CLOSED
     THEN ended'[s] /\ received'[s] = received[s]
     ELSE /\ ended'[s] = ended[s]
          /\ received'[s] = Append(received[s], Head(queue[s]))

LEMMA StepOfOneSubscription ==
  ASSUME TypeOK, ClosedBrokerEmpty, RegisteredIffOpen, [Next]_brokerVars,
         NEW s \in Subs
  PROVE  Untouched(s) \/ TakesEvent(s) \/ Closes(s) \/ HandsOver(s)
<1> USE DEF TypeOK
<1>1. ASSUME NEW t \in Subs, NEW d \in Dialogs, Subscribe(t, d)
      PROVE  Untouched(s)
  BY <1>1 DEF Subscribe, Untouched
<1>2. ASSUME NEW t \in Subs, Unsubscribe(t) PROVE Untouched(s) \/ Closes(s)
  BY <1>2 DEF Unsubscribe, Close, Untouched, Closes
<1>3. ASSUME NEW d \in Dialogs, CloseDialog(d)
      PROVE  Untouched(s) \/ Closes(s)
  BY <1>3 DEF CloseDialog, Close, Untouched, Closes
<1>4. CASE Shutdown
  <2>1. Untouched(s) \/ Closes(s)
    BY <1>4 DEF Shutdown, Close, Untouched, Closes
  <2> QED
    BY <2>1
<1>5. ASSUME NEW t \in Subs, Receive(t) PROVE Untouched(s) \/ HandsOver(s)
  <2>1. CASE s = t
    <3>1. CASE Head(queue[s]) = CLOSED
      BY <1>5, <2>1, <3>1 DEF Receive, HandsOver
    <3>2. CASE Head(queue[s]) # CLOSED
      BY <1>5, <2>1, <3>2 DEF Receive, HandsOver
    <3> QED
      BY <3>1, <3>2
  <2>2. CASE s # t
    <3>1. CASE Head(queue[t]) = CLOSED
      BY <1>5, <2>2, <3>1 DEF Receive, Untouched
    <3>2. CASE Head(queue[t]) # CLOSED
      BY <1>5, <2>2, <3>2 DEF Receive, Untouched
    <3> QED
      BY <3>1, <3>2
  <2> QED
    BY <2>1, <2>2
<1>6. ASSUME NEW d \in Dialogs, NEW event \in Events, Publish(d, event)
      PROVE  Untouched(s) \/ TakesEvent(s) \/ Closes(s)
  <2>1. /\ queue'[s] = IF s \in Reached(d) THEN OfferedQueue(s, event)
                                          ELSE queue[s]
        /\ reason'[s] = IF s \in Reached(d) THEN OfferedReason(s)
                                           ELSE reason[s]
        /\ offered'[s] = IF s \in subscribers[d]
                         THEN Append(offered[s], event) ELSE offered[s]
        /\ received'[s] = received[s] /\ ended'[s] = ended[s]
    BY <1>6 DEF Publish
  <2>2. CASE s \notin subscribers[d]
    BY <2>1, <2>2 DEF Reached, Untouched
  <2>3. CASE s \in subscribers[d]
    <3>1. Reached(d) = subscribers[d] /\ reason[s] = "open"
      BY <2>3 DEF Reached, ClosedBrokerEmpty, RegisteredIffOpen
    <3>2. CASE IsFull(queue[s])
      BY <2>1, <2>3, <3>1, <3>2
         DEF OfferedQueue, OfferedReason, Accepts, Closes
    <3>3. CASE ~IsFull(queue[s])
      <4>1. Len(queue[s]) < QueueSize
        BY <3>3, QueueSizeAssumption DEF IsFull
      <4> QED
        BY <2>1, <2>3, <3>1, <3>3, <4>1
           DEF OfferedQueue, OfferedReason, Accepts, TakesEvent
    <3> QED
      BY <3>2, <3>3
  <2> QED
    BY <2>2, <2>3
<1>7. CASE UNCHANGED brokerVars
  BY <1>7 DEF brokerVars, Untouched
<1> QED
  BY <1>1, <1>2, <1>3, <1>4, <1>5, <1>6, <1>7 DEF Next, Manage

LEMMA ClosedBrokerStep ==
  TypeOK /\ ClosedBrokerEmpty /\ [Next]_brokerVars => ClosedBrokerEmpty'
  BY DEF TypeOK, ClosedBrokerEmpty, Next, Manage, brokerVars, Subscribe,
         Unsubscribe, Publish, CloseDialog, Shutdown, Receive

LEMMA FreshStep ==
  ASSUME TypeOK, FreshUntouched, RegisteredIffOpen, [Next]_brokerVars
  PROVE  FreshUntouched'
<1> USE DEF TypeOK, FreshUntouched
<1>1. ASSUME NEW s \in Subs, NEW d \in Dialogs, Subscribe(s, d)
      PROVE  FreshUntouched'
  BY <1>1, SentinelAssumption DEF Subscribe
<1>2. ASSUME NEW s \in Subs, Unsubscribe(s) PROVE FreshUntouched'
  BY <1>2 DEF Unsubscribe, Close
<1>3. ASSUME NEW d \in Dialogs, CloseDialog(d) PROVE FreshUntouched'
  BY <1>3, SentinelAssumption DEF CloseDialog, Close, RegisteredIffOpen
<1>4. CASE Shutdown
  <2>1. \A s \in Subs : dialogOf[s] = NoDialog =>
          s \notin UNION {subscribers[d] : d \in Dialogs}
    BY SentinelAssumption DEF RegisteredIffOpen
  <2> QED
    BY <1>4, <2>1 DEF Shutdown, Close
<1>5. ASSUME NEW s \in Subs, Receive(s) PROVE FreshUntouched'
  <2>1. dialogOf[s] # NoDialog /\ dialogOf' = dialogOf
    BY <1>5 DEF Receive
  <2>2. CASE Head(queue[s]) = CLOSED
    BY <1>5, <2>1, <2>2 DEF Receive
  <2>3. CASE Head(queue[s]) # CLOSED
    BY <1>5, <2>1, <2>3 DEF Receive
  <2> QED
    BY <2>2, <2>3
<1>6. ASSUME NEW d \in Dialogs, NEW event \in Events, Publish(d, event)
      PROVE  FreshUntouched'
  <2>1. \A s \in Subs : dialogOf[s] = NoDialog => s \notin subscribers[d]
    BY SentinelAssumption DEF RegisteredIffOpen
  <2> QED
    BY <1>6, <2>1 DEF Publish, Reached
<1>7. CASE UNCHANGED brokerVars
  BY <1>7 DEF brokerVars
<1> QED
  BY <1>1, <1>2, <1>3, <1>4, <1>5, <1>6, <1>7 DEF Next, Manage

-----------------------------------------------------------------------------
(* The queue of one subscription.                                          *)

(* QueueBounded, SentinelEndsQueue and GapFreeWhileOpen for one            *)
(* subscription, with Delivered and Pending expanded.                      *)
OpenQueue(s) ==
  /\ ~ended[s]
  /\ queue[s] \in Seq(Events)
  /\ received[s] \o queue[s] = offered[s]

EndedQueue(s) == queue[s] = <<>>

ClosedQueue(s) ==
  /\ queue[s] # <<>>
  /\ queue[s][Len(queue[s])] = CLOSED
  /\ \A i \in 1..(Len(queue[s]) - 1) : queue[s][i] \in Events

QueueInv(s) ==
  /\ Len(queue[s]) <= QueueSize
  /\ reason[s] = "open" => OpenQueue(s)
  /\ reason[s] # "open" /\ ended[s] => EndedQueue(s)
  /\ reason[s] # "open" /\ ~ended[s] => ClosedQueue(s)

LEMMA QueueInvMeaning ==
  (\A s \in Subs : QueueInv(s)) <=>
    QueueBounded /\ SentinelEndsQueue /\ GapFreeWhileOpen
<1>1. ASSUME NEW s \in Subs
      PROVE  QueueInv(s) <=>
               /\ Len(queue[s]) <= QueueSize
               /\ reason[s] = "open" => ~ended[s] /\ queue[s] \in Seq(Events)
               /\ reason[s] # "open" /\ ended[s] => queue[s] = <<>>
               /\ reason[s] # "open" /\ ~ended[s] =>
                    /\ queue[s] # <<>>
                    /\ queue[s][Len(queue[s])] = CLOSED
                    /\ \A i \in 1..(Len(queue[s]) - 1) : queue[s][i] \in Events
               /\ reason[s] = "open" => Delivered(s) = offered[s]
  BY Zenon DEF QueueInv, OpenQueue, EndedQueue, ClosedQueue, Delivered, Pending
<1> QED
  BY <1>1, Zenon DEF QueueBounded, SentinelEndsQueue, GapFreeWhileOpen

(* Publishing at one end and reading at the other keep received \o queue.  *)
LEMMA AppendAfterConcat ==
  \A r, q \in Seq(Events), e \in Events :
    r \o Append(q, e) = Append(r \o q, e)
<1> TAKE r, q \in Seq(Events), e \in Events
<1>1. Append(q, e) = q \o <<e>> /\ <<e>> \in Seq(Events)
  BY AppendIsConcat
<1>2. Append(r \o q, e) = (r \o q) \o <<e>>
  BY AppendIsConcat, ConcatProperties
<1> QED
  BY <1>1, <1>2, ConcatAssociative

LEMMA HeadMovesOver ==
  ASSUME NEW S, NEW r \in Seq(S), NEW q \in Seq(S), q # <<>>
  PROVE  Append(r, Head(q)) \o Tail(q) = r \o q
<1>1. Head(q) \in S /\ Tail(q) \in Seq(S) /\ <<Head(q)>> \in Seq(S)
  OBVIOUS
<1>2. <<Head(q)>> \o Tail(q) = q
  OBVIOUS
<1>3. Append(r, Head(q)) = r \o <<Head(q)>>
  BY <1>1, AppendIsConcat
<1>4. (r \o <<Head(q)>>) \o Tail(q) = r \o (<<Head(q)>> \o Tail(q))
  BY <1>1, ConcatAssociative
<1> QED
  BY <1>2, <1>3, <1>4

(* Reading from a queue that ends in the sentinel.                         *)
LEMMA ReadBeforeSentinel ==
  ASSUME NEW q \in Seq(Items), q # <<>>, q[Len(q)] = CLOSED,
         \A i \in 1..(Len(q) - 1) : q[i] \in Events
  PROVE  /\ Head(q) = CLOSED => Tail(q) = <<>>
         /\ Head(q) # CLOSED =>
              /\ Tail(q) # <<>>
              /\ Tail(q)[Len(Tail(q))] = CLOSED
              /\ \A i \in 1..(Len(Tail(q)) - 1) : Tail(q)[i] \in Events
<1> DEFINE t == Tail(q)
<1>1. /\ Len(q) \in Nat \ {0} /\ Head(q) = q[1]
      /\ t \in Seq(Items) /\ Len(t) = Len(q) - 1
      /\ \A i \in 1..Len(t) : t[i] = q[i + 1]
  OBVIOUS
<1> SUFFICES /\ Head(q) = CLOSED => t = <<>>
             /\ Head(q) # CLOSED =>
                  /\ t # <<>> /\ t[Len(t)] = CLOSED
                  /\ \A i \in 1..(Len(t) - 1) : t[i] \in Events
  OBVIOUS
<1> HIDE DEF t
<1>2. CASE Len(q) = 1
  <2>1. t = <<>> /\ Head(q) = CLOSED
    BY <1>1, <1>2, EmptySeq
  <2> QED
    BY <2>1
<1>3. CASE Len(q) # 1
  <2>1. Head(q) # CLOSED
    BY <1>1, <1>3, SentinelAssumption
  <2>2. t # <<>> /\ t[Len(t)] = CLOSED
    BY <1>1, <1>3
  <2>3. \A i \in 1..(Len(t) - 1) : t[i] \in Events
    BY <1>1, <1>3
  <2> QED
    BY <2>1, <2>2, <2>3
<1> QED
  BY <1>2, <1>3

LEMMA QueueStep ==
  ASSUME TypeOK, TypeOK', NEW s \in Subs, QueueInv(s),
         Untouched(s) \/ TakesEvent(s) \/ Closes(s) \/ HandsOver(s)
  PROVE  QueueInv(s)'
<1> DEFINE q == queue[s]
<1>0. /\ q \in Seq(Items) /\ received[s] \in Seq(Events)
      /\ offered[s] \in Seq(Events)
  BY DEF TypeOK
<1>1. CASE Untouched(s)
  BY <1>1, Zenon DEF Untouched, QueueInv, OpenQueue, EndedQueue, ClosedQueue
<1>2. CASE TakesEvent(s)
  <2>1. PICK event \in Events : /\ queue'[s] = Append(q, event)
                               /\ offered'[s] = Append(offered[s], event)
    BY <1>2 DEF TakesEvent
  <2>2. ~ended[s] /\ q \in Seq(Events) /\ received[s] \o q = offered[s]
    BY <1>2 DEF TakesEvent, QueueInv, OpenQueue
  <2>3. Len(q) < QueueSize /\ received'[s] = received[s]
    BY <1>2 DEF TakesEvent
  <2>4. queue'[s] \in Seq(Events) /\ Len(queue'[s]) <= QueueSize
    BY <2>1, <2>2, <2>3, QueueSizeAssumption
  <2>5. received[s] \o Append(q, event) = Append(received[s] \o q, event)
    BY <1>0, <2>2, AppendAfterConcat, Zenon
  <2>6. OpenQueue(s)'
    BY <1>2, <2>1, <2>2, <2>3, <2>4, <2>5 DEF OpenQueue, TakesEvent
  <2> QED
    BY <1>2, <2>4, <2>6 DEF QueueInv, TakesEvent
<1>3. CASE Closes(s)
  <2>1. q \in Seq(Events) /\ Len(q) <= QueueSize /\ ~ended[s]
    BY <1>3 DEF Closes, QueueInv, OpenQueue
  <2>2. Len(queue'[s]) <= QueueSize /\ ClosedQueue(s)'
    <3>1. CASE queue'[s] = Discarded
      <4>1. /\ Len(queue'[s]) = 1 /\ queue'[s][1] = CLOSED
            /\ queue'[s] # <<>>
        BY <3>1 DEF Discarded
      <4> QED
        BY <4>1, QueueSizeAssumption DEF ClosedQueue
    <3>2. CASE queue'[s] = Drained(q)
      BY <2>1, <3>2, DrainedQueue, QueueSizeAssumption DEF ClosedQueue
    <3> QED
      BY <1>3, <3>1, <3>2 DEF Closes
  <2>3. reason'[s] # "open" /\ ended'[s] = ended[s]
    BY <1>3 DEF Closes
  <2> QED
    BY <2>1, <2>2, <2>3, Zenon DEF QueueInv
<1>4. CASE HandsOver(s)
  <2>1. /\ reason'[s] = reason[s] /\ offered'[s] = offered[s]
        /\ ~ended[s] /\ q # <<>> /\ queue'[s] = Tail(q)
    BY <1>4 DEF HandsOver
  <2>2. /\ Len(Tail(q)) = Len(q) - 1 /\ Head(q) = q[1]
        /\ \A i \in 1..Len(Tail(q)) : Tail(q)[i] = q[i + 1]
    BY <1>0, <2>1
  <2>3. Len(queue'[s]) <= QueueSize
    BY <1>0, <2>1, <2>2, QueueSizeAssumption DEF QueueInv
  <2>4. CASE reason[s] = "open"
    <3>1. q \in Seq(Events) /\ received[s] \o q = offered[s]
      BY <2>4 DEF QueueInv, OpenQueue
    <3>2. Head(q) \in Events /\ Tail(q) \in Seq(Events)
      BY <2>1, <3>1
    <3>3. ended'[s] = ended[s] /\ received'[s] = Append(received[s], Head(q))
      BY <1>4, <3>2, SentinelAssumption DEF HandsOver
    <3>4. Append(received[s], Head(q)) \o Tail(q) = received[s] \o q
      BY <1>0, <2>1, <3>1, HeadMovesOver
    <3>5. OpenQueue(s)'
      BY <2>1, <3>1, <3>2, <3>3, <3>4 DEF OpenQueue
    <3> QED
      BY <2>1, <2>3, <2>4, <3>5 DEF QueueInv
  <2>5. CASE reason[s] # "open"
    <3>1. ClosedQueue(s)
      BY <2>1, <2>5 DEF QueueInv
    <3>2. CASE Head(q) = CLOSED
      <4>1. ended'[s]
        BY <1>4, <3>2 DEF HandsOver
      <4>2. Tail(q) = <<>>
        BY <1>0, <2>1, <3>1, <3>2, ReadBeforeSentinel DEF ClosedQueue
      <4>3. EndedQueue(s)'
        BY <2>1, <4>2, Zenon DEF EndedQueue
      <4> QED
        BY <2>1, <2>3, <2>5, <4>1, <4>3, Zenon DEF QueueInv
    <3>3. CASE Head(q) # CLOSED
      <4>1. ended'[s] = ended[s]
        BY <1>4, <3>3 DEF HandsOver
      <4>2. /\ Tail(q) # <<>> /\ Tail(q)[Len(Tail(q))] = CLOSED
            /\ \A i \in 1..(Len(Tail(q)) - 1) : Tail(q)[i] \in Events
        BY <1>0, <2>1, <3>1, <3>3, ReadBeforeSentinel DEF ClosedQueue
      <4>3. ClosedQueue(s)'
        BY <2>1, <4>2, Zenon DEF ClosedQueue
      <4> QED
        BY <2>1, <2>3, <2>5, <4>1, <4>3, Zenon DEF QueueInv
    <3> QED
      BY <3>2, <3>3
  <2> QED
    BY <2>4, <2>5
<1> QED
  BY <1>1, <1>2, <1>3, <1>4

-----------------------------------------------------------------------------

LEMMA BrokerInvInit == Init => BrokerInv
<1> SUFFICES ASSUME Init PROVE BrokerInv
  OBVIOUS
<1>1. TypeOK
  BY TypeInit
<1>2. ClosedBrokerEmpty /\ FreshUntouched /\ RegisteredIffOpen
  BY SentinelAssumption
     DEF Init, ClosedBrokerEmpty, FreshUntouched, RegisteredIffOpen
<1>3. ASSUME NEW s \in Subs PROVE QueueInv(s)
  BY QueueSizeAssumption DEF Init, QueueInv, OpenQueue
<1> QED
  BY <1>1, <1>2, <1>3, QueueInvMeaning DEF BrokerInv

LEMMA BrokerInvStep == BrokerInv /\ [Next]_brokerVars => BrokerInv'
<1> SUFFICES ASSUME BrokerInv, [Next]_brokerVars PROVE BrokerInv'
  OBVIOUS
<1> USE DEF BrokerInv
<1>1. TypeOK'
  BY TypeStep
<1>2. ClosedBrokerEmpty' /\ FreshUntouched' /\ RegisteredIffOpen'
  BY ClosedBrokerStep, FreshStep, RegistryStep
<1>3. \A s \in Subs : QueueInv(s)
  BY QueueInvMeaning
<1>4. (\A s \in Subs : QueueInv(s))'
  BY <1>1, <1>3, StepOfOneSubscription, QueueStep
<1>5. QueueBounded' /\ SentinelEndsQueue' /\ GapFreeWhileOpen'
  BY <1>4, QueueInvMeaning, PTL
<1> QED
  BY <1>1, <1>2, <1>5

THEOREM BrokerInvariant == Spec => []BrokerInv
  BY BrokerInvInit, BrokerInvStep, PTL DEF Spec

(* publish() reaches exactly the open subscriptions, at any time.          *)
THEOREM RegistryCorrect == Spec => []RegisteredIffOpen
  BY BrokerInvariant, PTL DEF BrokerInv

(* Closing never overfills a queue: put_nowait(_CLOSED) cannot raise.      *)
THEOREM QueueNeverOverfull == Spec => []QueueBounded
  BY BrokerInvariant, PTL DEF BrokerInv

(* A closed subscription's reader has the sentinel ahead of it until it    *)
(* has taken it, whatever closed the subscription.                         *)
THEOREM SentinelAlwaysLast == Spec => []SentinelEndsQueue
  BY BrokerInvariant, PTL DEF BrokerInv

(* No event is lost, doubled or reordered while a subscription is open.    *)
THEOREM NoGapWhileOpen == Spec => []GapFreeWhileOpen
  BY BrokerInvariant, PTL DEF BrokerInv

-----------------------------------------------------------------------------
(* What closing loses.                                                     *)

(* LossAtClosing for one subscription, of what it delivers.                *)
Loss(s, delivered) ==
  /\ reason[s] \in {"unsubscribed", "queue_overflow"} =>
       \E n \in 0..Len(offered[s]) : delivered = SubSeq(offered[s], 1, n)
  /\ reason[s] \in {"dialog_closed", "broker_shutdown"} =>
       \/ delivered = offered[s]
       \/ \E n \in 1..Len(offered[s]) :
            /\ delivered = SubSeq(offered[s], 1, n - 1) \o
                           SubSeq(offered[s], n + 1, Len(offered[s]))
            /\ QueueSize > 1 => n < Len(offered[s])

(* discard_pending is true exactly for a slow and an unsubscribed reader.  *)
Drops(s) ==
  /\ reason'[s] \in {"unsubscribed", "queue_overflow"}
  /\ queue'[s] = Discarded
  /\ \/ offered'[s] = offered[s]
     \/ \E event \in Events : offered'[s] = Append(offered[s], event)

Drains(s) ==
  /\ reason'[s] \in {"dialog_closed", "broker_shutdown"}
  /\ queue'[s] = Drained(queue[s])
  /\ offered'[s] = offered[s]

LEMMA ClosesOneWay ==
  ASSUME TypeOK, [Next]_brokerVars, NEW s \in Subs, Closes(s)
  PROVE  Drops(s) \/ Drains(s)
<1> USE DEF TypeOK
<1>0. reason[s] = "open" /\ reason'[s] # "open"
  BY DEF Closes
<1>1. ASSUME NEW t \in Subs, NEW d \in Dialogs, Subscribe(t, d) PROVE FALSE
  BY <1>0, <1>1 DEF Subscribe
<1>2. ASSUME NEW t \in Subs, Unsubscribe(t) PROVE Drops(s)
  BY <1>0, <1>2 DEF Unsubscribe, Close, Drops
<1>3. ASSUME NEW d \in Dialogs, CloseDialog(d) PROVE Drains(s)
  BY <1>0, <1>3 DEF CloseDialog, Close, Drains
<1>4. CASE Shutdown
  BY <1>0, <1>4 DEF Shutdown, Close, Drains
<1>5. ASSUME NEW t \in Subs, Receive(t) PROVE FALSE
  BY <1>0, <1>5 DEF Receive
<1>6. ASSUME NEW d \in Dialogs, NEW event \in Events, Publish(d, event)
      PROVE  Drops(s)
  BY <1>0, <1>6
  DEF Publish, OfferedQueue, OfferedReason, Accepts, Drops
<1>7. CASE UNCHANGED brokerVars
  BY <1>0, <1>7 DEF brokerVars
<1> QED
  BY <1>1, <1>2, <1>3, <1>4, <1>5, <1>6, <1>7 DEF Next, Manage

(* The parts of a concatenation.                                           *)
LEMMA FirstPart ==
  ASSUME NEW S, NEW u \in Seq(S), NEW v \in Seq(S)
  PROVE  SubSeq(u \o v, 1, Len(u)) = u
<1>1. CASE Len(u) = 0
  <2>1. u = <<>>
    BY <1>1, EmptySeq
  <2>2. SubSeq(u \o v, 1, 0) = <<>>
    BY SubSeqEmpty
  <2> QED
    BY <1>1, <2>1, <2>2
<1>2. CASE Len(u) # 0
  <2>1. SubSeq(u \o v, 1, Len(u)) = SubSeq(u, 1, Len(u))
    BY <1>2, SubSeqOfConcat1
  <2> QED
    BY <2>1, SubSeqFull
<1> QED
  BY <1>1, <1>2

LEMMA SecondPartButFirst ==
  ASSUME NEW S, NEW u \in Seq(S), NEW v \in Seq(S), v # <<>>
  PROVE  SubSeq(u \o v, Len(u) + 2, Len(u) + Len(v)) = Tail(v)
<1>1. Len(v) \in Nat \ {0} /\ Len(u) \in Nat
  BY EmptySeq
<1>2. Tail(v) = SubSeq(v, 2, Len(v))
  BY TailIsSubSeq
<1>3. CASE Len(v) = 1
  BY <1>1, <1>2, <1>3, SubSeqEmpty
<1>4. CASE Len(v) # 1
  <2>1. \A m \in Nat, n \in Nat \ {0} : n > 1 =>
          m + 2 \in (m + 1)..(m + n) /\ m + n \in (m + 1)..(m + n)
    OBVIOUS
  <2>2. /\ Len(u) + 2 \in (Len(u) + 1)..(Len(u) + Len(v))
        /\ Len(u) + Len(v) \in (Len(u) + 1)..(Len(u) + Len(v))
    <3>1. \A n \in Nat \ {0} : n # 1 => n > 1
      OBVIOUS
    <3> QED
      BY <1>1, <1>4, <2>1, <3>1, Zenon
  <2>3. SubSeq(u \o v, Len(u) + 2, Len(u) + Len(v)) =
        SubSeq(v, (Len(u) + 2) - Len(u), (Len(u) + Len(v)) - Len(u))
    BY <2>2, SubSeqOfConcat2, Zenon
  <2>4. (Len(u) + 2) - Len(u) = 2 /\ (Len(u) + Len(v)) - Len(u) = Len(v)
    BY <1>1
  <2> QED
    BY <1>2, <2>3, <2>4
<1> QED
  BY <1>3, <1>4

LEMMA FirstPartFits ==
  ASSUME NEW S, NEW u \in Seq(S), NEW v \in Seq(S)
  PROVE  Len(u) \in 0..Len(u \o v)
<1>1. Len(u \o v) = Len(u) + Len(v)
  BY ConcatProperties
<1> QED
  BY <1>1

(* A slow or an unsubscribed reader keeps what it has.                     *)
LEMMA DroppingKeepsPrefix ==
  ASSUME TypeOK, TypeOK', NEW s \in Subs, QueueInv(s), Closes(s), Drops(s)
  PROVE  Loss(s, Delivered(s))'
<1> DEFINE r == received[s]
           o == offered'[s]
<1>1. r \in Seq(Events) /\ o \in Seq(Events) /\ received'[s] = r
  BY DEF TypeOK, Closes
<1>2. queue[s] \in Seq(Events) /\ r \o queue[s] = offered[s]
  BY DEF Closes, QueueInv, OpenQueue
<1>3. Delivered(s)' = r
  <2>1. reason'[s] # "open" /\ queue'[s] = <<CLOSED>>
    BY DEF Closes, Drops, Discarded
  <2>2. Pending(s)' = <<>>
    BY <2>1 DEF Pending
  <2> QED
    BY <1>1, <2>2, ConcatEmptySeq DEF Delivered
<1>4. r = SubSeq(o, 1, Len(r)) /\ Len(r) \in 0..Len(o)
  <2>1. CASE o = offered[s]
    <3>1. o = r \o queue[s] /\ queue[s] \in Seq(Events)
      BY <1>2, <2>1
    <3> HIDE DEF r, o
    <3> QED
      BY <1>1, <3>1, FirstPart, FirstPartFits, Zenon
  <2>2. CASE \E event \in Events : o = Append(offered[s], event)
    <3>1. PICK event \in Events : o = Append(offered[s], event)
      BY <2>2
    <3>2. r \o Append(queue[s], event) = Append(offered[s], event)
      <4>1. \A e \in Events :
              r \o Append(queue[s], e) = Append(r \o queue[s], e)
        BY <1>1, <1>2, AppendAfterConcat, Zenon
      <4> QED
        BY <1>2, <4>1, Zenon
    <3>3. Append(queue[s], event) \in Seq(Events)
      BY <1>2, AppendProperties, Zenon
    <3> DEFINE after == Append(queue[s], event)
    <3>4. o = r \o after /\ after \in Seq(Events)
      BY <3>1, <3>2, <3>3, Zenon
    <3> HIDE DEF r, o, after
    <3> QED
      BY <1>1, <3>4, FirstPart, FirstPartFits, Zenon
  <2> QED
    BY <2>1, <2>2 DEF Drops
<1> HIDE DEF r, o
<1>5. \E n \in 0..Len(o) : r = SubSeq(o, 1, n)
  BY <1>4
<1> QED
  BY <1>3, <1>5 DEF Loss, Drops, o

(* A dialog or a broker that is closed costs at most the oldest event that *)
(* is queued.                                                              *)
LEMMA DrainingCostsOldest ==
  ASSUME TypeOK, TypeOK', NEW s \in Subs, QueueInv(s), Closes(s), Drains(s)
  PROVE  Loss(s, Delivered(s))'
<1> DEFINE r == received[s]
           q == queue[s]
           o == offered[s]
           kept == IF IsFull(q) THEN Tail(q) ELSE q
<1>1. r \in Seq(Events) /\ o \in Seq(Events)
  BY DEF TypeOK
<1>2. q \in Seq(Events) /\ r \o q = o /\ Len(q) <= QueueSize
  BY DEF Closes, QueueInv, OpenQueue
<1>3. IsFull(q) => q # <<>> /\ Len(q) = QueueSize
  BY <1>2, QueueSizeAssumption DEF IsFull
<1>4. kept \in Seq(Events)
  BY <1>2, <1>3
<1>5. Delivered(s)' = r \o kept
  <2>1. reason'[s] # "open" /\ queue'[s] = Append(kept, CLOSED)
    BY DEF Closes, Drains, Drained
  <2>2. SubSeq(Append(kept, CLOSED), 1, Len(kept)) = kept
    <3>1. kept \in Seq(Items) /\ CLOSED \in Items
      BY <1>4, SeqMonotonic DEF Items
    <3> HIDE DEF kept
    <3>2. Append(kept, CLOSED) = kept \o <<CLOSED>>
      BY <3>1, AppendIsConcat
    <3>3. SubSeq(kept \o <<CLOSED>>, 1, Len(kept)) = SubSeq(kept, 1, Len(kept))
      BY <3>1, SubSeqOfConcat1
    <3> QED
      BY <3>1, <3>2, <3>3, SubSeqFull
  <2>3. Len(Append(kept, CLOSED)) - 1 = Len(kept)
    BY <1>4
  <2>4. Pending(s)' = kept
    BY <2>1, <2>2, <2>3 DEF Pending
  <2> QED
    BY <2>4 DEF Delivered, Closes
<1>6. CASE ~IsFull(q)
  BY <1>2, <1>5, <1>6 DEF Loss, Drains
<1>7. CASE IsFull(q)
  <2> DEFINE n == Len(r) + 1
  <2>1. /\ kept = Tail(q) /\ q # <<>>
        /\ Len(q) = QueueSize /\ Len(r) \in Nat
    BY <1>1, <1>3, <1>7
  <2>2. Len(o) = Len(r) + Len(q)
    BY <1>1, <1>2, ConcatProperties
  <2>3. n \in 1..Len(o) /\ (QueueSize > 1 => n < Len(o))
    BY <2>1, <2>2, QueueSizeAssumption
  <2>4. n - 1 = Len(r) /\ n + 1 = Len(r) + 2
    BY <2>1
  <2>5. SubSeq(o, 1, n - 1) = r
    BY <1>1, <1>2, <2>4, FirstPart
  <2>6. SubSeq(o, n + 1, Len(o)) = Tail(q)
    BY <1>1, <1>2, <2>1, <2>2, <2>4, SecondPartButFirst
  <2> HIDE DEF n, kept
  <2>7. \E m \in 1..Len(o) :
          /\ r \o kept = SubSeq(o, 1, m - 1) \o SubSeq(o, m + 1, Len(o))
          /\ QueueSize > 1 => m < Len(o)
    BY <2>1, <2>3, <2>5, <2>6
  <2> QED
    BY <1>5, <2>7 DEF Loss, Drains
<1> QED
  BY <1>6, <1>7

(* Reading what was left changes nothing of what is delivered.             *)
LEMMA ReadingDelivers ==
  ASSUME TypeOK, NEW s \in Subs, QueueInv(s), HandsOver(s), reason[s] # "open"
  PROVE  Delivered(s)' = Delivered(s)
<1> DEFINE r == received[s]
           q == queue[s]
<1>1. /\ q \in Seq(Items) /\ q # <<>> /\ r \in Seq(Items)
      /\ queue'[s] = Tail(q) /\ reason'[s] = reason[s]
  BY SeqMonotonic DEF TypeOK, HandsOver, Items
<1>2. ClosedQueue(s)
  BY DEF HandsOver, QueueInv
<1>3. /\ Tail(q) \in Seq(Items) /\ Len(Tail(q)) = Len(q) - 1
      /\ Len(q) \in Nat \ {0} /\ Head(q) = q[1] /\ Head(q) \in Items
  BY <1>1
<1>4. /\ Delivered(s) = r \o SubSeq(q, 1, Len(q) - 1)
      /\ Delivered(s)' = received'[s] \o SubSeq(Tail(q), 1, Len(q) - 2)
  <2>1. Len(Tail(q)) - 1 = Len(q) - 2
    BY <1>3
  <2>2. Pending(s)' = SubSeq(Tail(q), 1, Len(Tail(q)) - 1)
    BY <1>1, Zenon DEF Pending
  <2> QED
    BY <2>1, <2>2 DEF Delivered, Pending
<1>5. CASE Head(q) = CLOSED
  <2>1. Tail(q) = <<>>
    BY <1>1, <1>2, <1>5, ReadBeforeSentinel DEF ClosedQueue
  <2>2. Len(q) = 1
    <3>1. Len(Tail(q)) = 0
      BY <1>3, <2>1, EmptySeq, Zenon
    <3>2. \A n \in Nat \ {0} : n - 1 = 0 => n = 1
      OBVIOUS
    <3> QED
      BY <1>3, <3>1, <3>2, Zenon
  <2>3. SubSeq(q, 1, Len(q) - 1) = <<>> /\ SubSeq(Tail(q), 1, Len(q) - 2) = <<>>
    BY <1>1, <2>1, <2>2, SubSeqEmpty
  <2>4. received'[s] = r
    BY <1>5 DEF HandsOver
  <2> QED
    BY <1>4, <2>3, <2>4
<1>6. CASE Head(q) # CLOSED
  <2>1. Tail(q) # <<>>
    BY <1>1, <1>2, <1>6, ReadBeforeSentinel DEF ClosedQueue
  <2>2. Len(q) > 1
    BY <1>3, <2>1, EmptySeq
  <2>3. received'[s] = Append(r, Head(q))
    BY <1>6 DEF HandsOver
  <2> DEFINE p == SubSeq(q, 1, Len(q) - 1)
  <2>4. p \in Seq(Items) /\ Len(p) = Len(q) - 1 /\ p # <<>>
    <3>1. \A i \in 1..(Len(q) - 1) : q[i] \in Items
      BY <1>1, <1>3
    <3>2. p \in Seq(Items) /\ Len(p) = Len(q) - 1
      BY <1>3, <2>2, <3>1, SubSeqProperties
    <3>3. Len(p) # 0
      <4>1. \A n \in Nat \ {0} : n > 1 => n - 1 # 0
        OBVIOUS
      <4> QED
        BY <1>3, <2>2, <3>2, <4>1, Zenon
    <3> HIDE DEF p
    <3> QED
      BY <3>2, <3>3, EmptySeq, Zenon
  <2>5. Head(p) = Head(q) /\ Tail(p) = SubSeq(q, 2, Len(q) - 1)
    BY <1>1, <1>3, <2>2, HeadTailOfSubSeq
  <2>6. SubSeq(Tail(q), 1, Len(q) - 2) = SubSeq(q, 2, Len(q) - 1)
    <3>1. Tail(q) = SubSeq(q, 2, Len(q))
      BY <1>1, TailIsSubSeq
    <3> QED
      BY <1>1, <1>3, <2>2, <3>1, SubSeqOfSubSeq
  <2> HIDE DEF p
  <2>7. Append(r, Head(p)) \o Tail(p) = r \o p
    BY <1>1, <2>4, HeadMovesOver
  <2> QED
    BY <1>4, <2>3, <2>5, <2>6, <2>7 DEF p
<1> QED
  BY <1>5, <1>6

LossInv == BrokerInv /\ LossAtClosing

LEMMA LossMeaning == LossAtClosing <=> \A s \in Subs : Loss(s, Delivered(s))
  BY Zenon DEF LossAtClosing, Loss

LEMMA LossStep == LossInv /\ [Next]_brokerVars => LossInv'
<1> SUFFICES ASSUME LossInv, [Next]_brokerVars PROVE LossInv'
  OBVIOUS
<1>1. BrokerInv /\ BrokerInv' /\ \A s \in Subs : Loss(s, Delivered(s))
  BY BrokerInvStep, LossMeaning DEF LossInv
<1>2. ASSUME NEW s \in Subs PROVE Loss(s, Delivered(s))'
  <2>1. TypeOK /\ TypeOK' /\ QueueInv(s)
    BY <1>1, QueueInvMeaning DEF BrokerInv
  <2>2. CASE Untouched(s)
    BY <1>1, <2>2 DEF Untouched, Loss, Delivered, Pending
  <2>3. CASE TakesEvent(s)
    BY <2>3 DEF TakesEvent, Loss
  <2>4. CASE Closes(s)
    BY <2>1, <2>4, ClosesOneWay, DroppingKeepsPrefix, DrainingCostsOldest
  <2>5. CASE HandsOver(s)
    <3>1. CASE reason[s] = "open"
      BY <2>5, <3>1 DEF HandsOver, Loss
    <3>2. CASE reason[s] # "open"
      <4>1. Delivered(s)' = Delivered(s)
        BY <2>1, <2>5, <3>2, ReadingDelivers
      <4> QED
        BY <1>1, <2>5, <4>1 DEF HandsOver, Loss
    <3> QED
      BY <3>1, <3>2
  <2> QED
    BY <1>1, <2>2, <2>3, <2>4, <2>5, StepOfOneSubscription DEF BrokerInv
<1>3. (\A s \in Subs : Loss(s, Delivered(s)))'
  BY <1>2
<1>4. LossAtClosing'
  BY <1>3, LossMeaning, PTL
<1> QED
  BY <1>1, <1>4 DEF LossInv

(* A reader that was slow or unsubscribed got a prefix of what was         *)
(* published; close_dialog() and shutdown() cost the others at most one    *)
(* event, and with room for two never the newest.                          *)
THEOREM ClosingLosesLittle == Spec => []LossAtClosing
<1>1. Init => LossInv
  <2>1. Init => LossAtClosing
    BY DEF Init, LossAtClosing
  <2> QED
    BY <2>1, BrokerInvInit DEF LossInv
<1>2. LossInv => LossAtClosing
  BY DEF LossInv
<1> QED
  BY <1>1, <1>2, LossStep, PTL DEF Spec

-----------------------------------------------------------------------------
(* Which events a subscription holds, in its queue or in its reader's hands. *)

Among(x, sequence) == \E i \in DOMAIN sequence : sequence[i] = x

Holds(s, x) == Among(x, queue[s]) \/ Among(x, received[s])

LEMMA AmongAppended ==
  ASSUME NEW S, NEW q \in Seq(S), NEW e \in S, NEW x, Among(x, Append(q, e))
  PROVE  Among(x, q) \/ x = e
  BY AppendProperties DEF Among

LEMMA AmongTail ==
  ASSUME NEW S, NEW q \in Seq(S), q # <<>>, NEW x, Among(x, Tail(q))
  PROVE  Among(x, q)
<1> DEFINE t == Tail(q)
<1>1. /\ Len(q) \in Nat \ {0} /\ DOMAIN q = 1..Len(q)
      /\ DOMAIN t = 1..(Len(q) - 1)
      /\ \A i \in 1..(Len(q) - 1) : t[i] = q[i + 1]
  OBVIOUS
<1> HIDE DEF t
<1>2. PICK i \in DOMAIN t : t[i] = x
  BY DEF Among, t
<1>3. i + 1 \in DOMAIN q /\ q[i + 1] = x
  BY <1>1, <1>2
<1> QED
  BY <1>3 DEF Among

(* Closing adds nothing but the sentinel.                                  *)
LEMMA AmongClosed ==
  ASSUME NEW q \in Seq(Items), NEW x \in Events,
         NEW c \in {Discarded, Drained(q)}, Among(x, c)
  PROVE  Among(x, q)
<1>1. x # CLOSED /\ CLOSED \in Items
  BY SentinelAssumption DEF Items
<1>2. CASE c = Discarded
  BY <1>1, <1>2, DiscardedQueue DEF Among, Discarded
<1>3. CASE c = Drained(q) /\ IsFull(q)
  <2>1. q # <<>>
    BY <1>3, QueueSizeAssumption DEF IsFull
  <2>2. Tail(q) \in Seq(Items) /\ c = Append(Tail(q), CLOSED)
    BY <1>3, <2>1 DEF Drained
  <2>3. Among(x, Tail(q))
    BY <1>1, <2>2, AmongAppended
  <2> QED
    BY <2>1, <2>3, AmongTail
<1>4. CASE c = Drained(q) /\ ~IsFull(q)
  BY <1>1, <1>4, AmongAppended DEF Drained
<1> QED
  BY <1>2, <1>3, <1>4

(* Only publishing to its dialog brings a subscription an event.           *)
LEMMA ManagedHolds ==
  ASSUME TypeOK, TypeOK', ClosedBrokerEmpty, RegisteredIffOpen,
         Manage \/ UNCHANGED brokerVars,
         NEW s \in Subs, NEW x \in Events, Holds(s, x)'
  PROVE  Holds(s, x)
<1>1. queue[s] \in Seq(Items) /\ received[s] \in Seq(Events)
  BY DEF TypeOK
<1>2. Untouched(s) \/ TakesEvent(s) \/ Closes(s) \/ HandsOver(s)
  BY StepOfOneSubscription DEF Next
<1>3. offered'[s] = offered[s] /\ offered[s] \in Seq(Events)
  BY DEF TypeOK, Manage, Subscribe, Unsubscribe, CloseDialog, Shutdown,
         Receive, brokerVars
<1>4. CASE Untouched(s)
  BY <1>4 DEF Untouched, Holds
<1>5. CASE TakesEvent(s)
  <2>1. PICK event \in Events : offered'[s] = Append(offered[s], event)
    BY <1>5 DEF TakesEvent
  <2>2. Len(offered'[s]) = Len(offered[s]) + 1 /\ Len(offered[s]) \in Nat
    BY <1>3, <2>1, AppendProperties
  <2> QED
    BY <1>3, <2>2
<1>6. CASE Closes(s)
  BY <1>1, <1>6, AmongClosed DEF Closes, Holds
<1>7. CASE HandsOver(s)
  <2>1. /\ queue[s] # <<>> /\ queue'[s] = Tail(queue[s])
        /\ received'[s] \in {received[s], Append(received[s], Head(queue[s]))}
        /\ received'[s] \in Seq(Events)
    BY <1>7 DEF HandsOver, TypeOK
  <2>2. CASE Among(x, queue'[s])
    BY <1>1, <2>1, <2>2, AmongTail DEF Holds
  <2>3. CASE Among(x, received'[s])
    <3>1. CASE received'[s] = received[s]
      BY <2>3, <3>1 DEF Holds
    <3>2. CASE received'[s] = Append(received[s], Head(queue[s]))
      <4>1. Head(queue[s]) \in Items /\ received[s] \in Seq(Items)
        BY <1>1, <2>1 DEF Items
      <4>2. Among(x, received[s]) \/ x = Head(queue[s])
        BY <2>3, <3>2, <4>1, AmongAppended
      <4>3. Among(Head(queue[s]), queue[s])
        BY <1>1, <2>1 DEF Among
      <4> QED
        BY <4>2, <4>3 DEF Holds
    <3> QED
      BY <2>1, <3>1, <3>2
  <2> QED
    BY <2>2, <2>3 DEF Holds
<1> QED
  BY <1>2, <1>4, <1>5, <1>6, <1>7

LEMMA PublishedHolds ==
  ASSUME TypeOK, RegisteredIffOpen, NEW d \in Dialogs, NEW e \in Events,
         Publish(d, e), NEW s \in Subs, NEW x \in Events, Holds(s, x)'
  PROVE  Holds(s, x) \/ (x = e /\ dialogOf[s] = d)
<1>1. queue[s] \in Seq(Items) /\ e \in Items /\ received'[s] = received[s]
  BY DEF TypeOK, Items, Publish
<1>2. CASE Among(x, received[s])
  BY <1>2 DEF Holds
<1>3. CASE s \notin subscribers[d]
  <2>1. queue'[s] = queue[s]
    BY <1>3 DEF Publish, Reached
  <2> QED
    BY <1>1, <2>1 DEF Holds
<1>4. CASE s \in subscribers[d] /\ ~Among(x, received[s])
  <2>1. dialogOf[s] = d
    BY <1>4 DEF RegisteredIffOpen
  <2>2. queue'[s] \in {Append(queue[s], e), Discarded, queue[s]}
    BY DEF Publish, OfferedQueue
  <2>3. Among(x, queue'[s])
    BY <1>1, <1>4 DEF Holds
  <2>4. CASE queue'[s] = Append(queue[s], e)
    BY <1>1, <2>1, <2>3, <2>4, AmongAppended DEF Holds
  <2>5. CASE queue'[s] = Discarded
    BY <1>1, <2>3, <2>5, AmongClosed DEF Holds
  <2>6. CASE queue'[s] = queue[s]
    BY <2>3, <2>6 DEF Holds
  <2> QED
    BY <2>2, <2>4, <2>5, <2>6
<1> QED
  BY <1>2, <1>3, <1>4

=============================================================================
