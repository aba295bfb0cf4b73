----------------------------- MODULE EventBroker -----------------------------
(***************************************************************************)
(* The in-process publish/subscribe component behind the SSE streams:      *)
(* InMemoryDialogEventBroker and _InMemoryDialogSubscription of            *)
(* application/event_broker.py.                                            *)
(*                                                                         *)
(* Every broker method runs under one asyncio lock and never suspends      *)
(* while it holds it (put_nowait, get_nowait and set operations only), so  *)
(* one call is one atomic step.  The reader of a subscription is another   *)
(* coroutine: Receive is the step in which its queue.get() returns.        *)
(***************************************************************************)
EXTENDS Naturals, Sequences, FiniteSets

CONSTANTS
  Dialogs,    (* dialog identifiers                                        *)
  Subs,       (* subscription objects, each created at most once           *)
  Events,     (* the events that may be published                          *)
  QueueSize,  (* capacity of one subscription's queue (64 in production)   *)
  CLOSED,     (* the _CLOSED sentinel put behind the last event            *)
  NoDialog    (* dialogOf of a subscription that does not exist yet        *)

ASSUME QueueSizeAssumption == QueueSize \in Nat \ {0}
ASSUME SentinelAssumption == CLOSED \notin Events /\ NoDialog \notin Dialogs

VARIABLES
  brokerClosed,  (* broker._closed                                         *)
  subscribers,   (* broker._subscribers: the registered ones per dialog    *)
  dialogOf,      (* subscription._dialog_id, NoDialog before subscribe     *)
  reason,        (* "open" while subscription._closed is false, then why   *)
                 (* it was closed (the reason the broker logs)             *)
  queue,         (* subscription._queue                                    *)
  offered,       (* history: events published while it was registered      *)
  received,      (* history: events the reader got from receive()          *)
  ended          (* history: receive() has returned None to the reader     *)

brokerVars == <<brokerClosed, subscribers, dialogOf, reason, queue,
                offered, received, ended>>

CloseReasons == {"unsubscribed", "queue_overflow", "dialog_closed",
                 "broker_shutdown"}

Items == Events \cup {CLOSED}

TypeOK ==
  /\ brokerClosed \in BOOLEAN
  /\ subscribers \in [Dialogs -> SUBSET Subs]
  /\ dialogOf \in [Subs -> Dialogs \cup {NoDialog}]
  /\ reason \in [Subs -> CloseReasons \cup {"open"}]
  /\ queue \in [Subs -> Seq(Items)]
  /\ offered \in [Subs -> Seq(Events)]
  /\ received \in [Subs -> Seq(Events)]
  /\ ended \in [Subs -> BOOLEAN]

Init ==
  /\ brokerClosed = FALSE
  /\ subscribers = [d \in Dialogs |-> {}]
  /\ dialogOf = [s \in Subs |-> NoDialog]
  /\ reason = [s \in Subs |-> "open"]
  /\ queue = [s \in Subs |-> <<>>]
  /\ offered = [s \in Subs |-> <<>>]
  /\ received = [s \in Subs |-> <<>>]
  /\ ended = [s \in Subs |-> FALSE]

-----------------------------------------------------------------------------
(* One subscription.                                                       *)

IsFull(q) == Len(q) >= QueueSize

(* close(discard_pending=True): the pending events go, the sentinel stays. *)
DiscardedSilently == <<>>            (* mutant: no sentinel for the reader *)
Discarded == <<CLOSED>>

(* close(discard_pending=False): a full queue gives up its oldest event to *)
(* make room for the sentinel.                                             *)
DrainedNewest(q) ==                (* mutant: the newest event is given up *)
  Append(IF IsFull(q) THEN SubSeq(q, 1, Len(q) - 1) ELSE q, CLOSED)
Drained(q) == Append(IF IsFull(q) THEN Tail(q) ELSE q, CLOSED)

(* offer() returns true.                                                   *)
Accepts(s) == reason[s] = "open" /\ ~IsFull(queue[s])

(* The queue and the reason of a subscription after offer(event).          *)
OfferedQueue(s, event) ==
  IF Accepts(s) THEN Append(queue[s], event)
  ELSE IF reason[s] = "open" THEN Discarded ELSE queue[s]

OfferedReasonKept(s) == reason[s]      (* mutant: _closed is never set *)
OfferedReason(s) ==
  IF reason[s] = "open" /\ IsFull(queue[s]) THEN "queue_overflow"
  ELSE reason[s]

(* close(discard_pending) of every subscription in S that is still open.   *)
Close(S, why, discardPending) ==
  LET closing == {s \in S : reason[s] = "open"}
  IN  /\ reason' = [s \in Subs |-> IF s \in closing THEN why ELSE reason[s]]
      /\ queue' = [s \in Subs |->
                    IF s \notin closing THEN queue[s]
                    ELSE IF discardPending THEN Discarded ELSE Drained(queue[s])]

-----------------------------------------------------------------------------
(* The broker's operations.                                                *)

Subscribe(s, d) ==
  /\ ~brokerClosed
  /\ dialogOf[s] = NoDialog
  /\ dialogOf' = [dialogOf EXCEPT ![s] = d]
  /\ subscribers' = [subscribers EXCEPT ![d] = @ \cup {s}]
  /\ UNCHANGED <<brokerClosed, reason, queue, offered, received, ended>>

(* A second call, and one after the broker removed the subscription, finds *)
(* no candidate and returns: it changes nothing.                           *)
Unsubscribe(s) ==
  /\ dialogOf[s] # NoDialog
  /\ s \in subscribers[dialogOf[s]]
  /\ subscribers' = [subscribers EXCEPT ![dialogOf[s]] = @ \ {s}]
  /\ Close({s}, "unsubscribed", TRUE)
  /\ UNCHANGED <<brokerClosed, dialogOf, offered, received, ended>>

(* The subscriptions publish() offers the event to.                        *)
ReachedUntilSlow(d) ==   (* mutant: the loop stops at a slow subscription *)
  IF \E s \in subscribers[d] : ~Accepts(s)
  THEN {s \in subscribers[d] : ~Accepts(s)} ELSE subscribers[d]
Reached(d) == IF brokerClosed THEN {} ELSE subscribers[d]

Publish(d, event) ==
  /\ queue' = [s \in Subs |-> IF s \in Reached(d)
                              THEN OfferedQueue(s, event) ELSE queue[s]]
  /\ reason' = [s \in Subs |-> IF s \in Reached(d)
                               THEN OfferedReason(s) ELSE reason[s]]
  /\ subscribers' = [subscribers EXCEPT
                       ![d] = {s \in @ : s \in Reached(d) => Accepts(s)}]
  /\ offered' = [s \in Subs |-> IF s \in subscribers[d]
                                THEN Append(offered[s], event)
                                ELSE offered[s]]
  /\ UNCHANGED <<brokerClosed, dialogOf, received, ended>>

CloseDialog(d) ==
  /\ subscribers' = [subscribers EXCEPT ![d] = {}]
  /\ Close(subscribers[d], "dialog_closed", FALSE)
  /\ UNCHANGED <<brokerClosed, dialogOf, offered, received, ended>>

ShutdownClearsOnly ==        (* mutant: the subscriptions are not closed *)
  /\ ~brokerClosed
  /\ brokerClosed' = TRUE
  /\ subscribers' = [d \in Dialogs |-> {}]
  /\ UNCHANGED <<dialogOf, reason, queue, offered, received, ended>>
(* The second shutdown() returns at once.                                  *)
Shutdown ==
  /\ ~brokerClosed
  /\ brokerClosed' = TRUE
  /\ subscribers' = [d \in Dialogs |-> {}]
  /\ Close(UNION {subscribers[d] : d \in Dialogs}, "broker_shutdown", FALSE)
  /\ UNCHANGED <<dialogOf, offered, received, ended>>

ReceiveAnything(s) ==   (* mutant: the sentinel is handed out as an event *)
  /\ ~ended[s]
  /\ queue[s] # <<>>
  /\ queue' = [queue EXCEPT ![s] = Tail(@)]
  /\ received' = [received EXCEPT ![s] = Append(@, Head(queue[s]))]
  /\ UNCHANGED <<brokerClosed, subscribers, dialogOf, reason, offered, ended>>
(* receive() returns the next event, or None for the sentinel.  A reader   *)
(* that got None stops reading.                                            *)
Receive(s) ==
  /\ ~ended[s]
  /\ queue[s] # <<>>
  /\ queue' = [queue EXCEPT ![s] = Tail(@)]
  /\ IF Head(queue[s]) = CLOSED
     THEN /\ ended' = [ended EXCEPT ![s] = TRUE]
          /\ UNCHANGED received
     ELSE /\ received' = [received EXCEPT ![s] = Append(@, Head(queue[s]))]
          /\ UNCHANGED ended
  /\ UNCHANGED <<brokerClosed, subscribers, dialogOf, reason, offered>>

(* Everything but publish: the calls whose number the handles bound.       *)
Manage ==
  \/ \E s \in Subs, d \in Dialogs : Subscribe(s, d)
  \/ \E s \in Subs : Unsubscribe(s)
  \/ \E d \in Dialogs : CloseDialog(d)
  \/ Shutdown
  \/ \E s \in Subs : Receive(s)

Next == Manage \/ \E d \in Dialogs, event \in Events : Publish(d, event)

Spec == Init /\ [][Next]_brokerVars

(* A reader is a coroutine of the event loop: once its queue holds an item *)
(* the loop resumes it.  Callers of the other operations owe nothing.      *)
Fairness == \A s \in Subs : WF_brokerVars(Receive(s))

-----------------------------------------------------------------------------
(* What the broker promises its subscribers and publishers.                *)

(* The events still queued: a closed subscription's queue ends in the      *)
(* sentinel, until the reader took it and the queue is empty.              *)
Pending(s) == IF reason[s] = "open" THEN queue[s]
              ELSE SubSeq(queue[s], 1, Len(queue[s]) - 1)

Delivered(s) == received[s] \o Pending(s)

(* The queue's capacity is never exceeded, the sentinel included: an       *)
(* unchecked put_nowait(_CLOSED) would raise QueueFull in the middle of    *)
(* shutdown and leave the remaining subscriptions open.                    *)
QueueBounded == \A s \in Subs : Len(queue[s]) <= QueueSize

(* The registry and the subscriptions agree: publish reaches exactly the   *)
(* open subscriptions of its dialog, and a closed one is never retained.   *)
RegisteredIffOpen ==
  \A s \in Subs, d \in Dialogs :
    s \in subscribers[d] <=> dialogOf[s] = d /\ reason[s] = "open"

(* A reader blocked in receive() is always woken after its subscription    *)
(* was closed: the sentinel is the last item of the queue, exactly once,   *)
(* until the reader took it; an open subscription holds none.              *)
SentinelEndsQueue ==
  \A s \in Subs :
    /\ reason[s] = "open" => ~ended[s] /\ queue[s] \in Seq(Events)
    /\ reason[s] # "open" /\ ended[s] => queue[s] = <<>>
    /\ reason[s] # "open" /\ ~ended[s] =>
         /\ queue[s] # <<>>
         /\ queue[s][Len(queue[s])] = CLOSED
         /\ \A i \in 1..(Len(queue[s]) - 1) : queue[s][i] \in Events

(* An open subscription has lost nothing: what its reader got followed by  *)
(* what is queued is every event published since it was opened, in order.  *)
GapFreeWhileOpen ==
  \A s \in Subs : reason[s] = "open" => Delivered(s) = offered[s]

(* Closing loses only what the code gives up.  A slow or unsubscribed      *)
(* reader got a prefix.  On close_dialog and on shutdown at most one event *)
(* is missing, and with room for two it is not the newest, so that the     *)
(* terminal event of a run still reaches the client.                       *)
LossAtClosing ==
  \A s \in Subs :
    /\ reason[s] \in {"unsubscribed", "queue_overflow"} =>
         \E n \in 0..Len(offered[s]) : Delivered(s) = SubSeq(offered[s], 1, n)
    /\ reason[s] \in {"dialog_closed", "broker_shutdown"} =>
         \/ Delivered(s) = offered[s]
         \/ \E n \in 1..Len(offered[s]) :
              /\ Delivered(s) = SubSeq(offered[s], 1, n - 1) \o
                                SubSeq(offered[s], n + 1, Len(offered[s]))
              /\ QueueSize > 1 => n < Len(offered[s])

(* After shutdown every reader is told that its stream is over.            *)
ShutdownEndsStreams ==
  \A s \in Subs : brokerClosed /\ dialogOf[s] # NoDialog ~> ended[s]

=============================================================================
