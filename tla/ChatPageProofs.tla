--------------------------- MODULE ChatPageProofs ----------------------------
(***************************************************************************)
(* Theorems about ChatPage, for any dialogs and any bounds: the page never *)
(* mixes two stories, and an answer that locks the form is still owed its  *)
(* end.                                                                    *)
(*                                                                         *)
(* The types hold of every page (TypeOK with Named).  The rest is true     *)
(* only of a page that was not left and where nothing overlapped           *)
(* createDialog(): Orderly relates the open story to its EventSource, to   *)
(* the calls in flight and to what the streams still carry.                *)
(***************************************************************************)
EXTENDS ChatPage, SequenceTheorems, TLAPS

USE PageAssumption

-----------------------------------------------------------------------------
(* Sequences of events.                                                    *)

HasOver(events) == \E i \in 1..Len(events) : events[i].type = "over"
Of(events, d) == \A i \in 1..Len(events) : events[i].dialog = d

(* A text among them is followed by the end of its run, or one of the      *)
(* `owed` runs is not over.                                                *)
FollowedUp(events, owed) ==
  \A i \in 1..Len(events) : events[i].type = "text" =>
    owed > 0 \/ \E j \in i + 1 .. Len(events) : events[j].type = "over"

LEMMA NoEvents ==
  /\ <<>> \in Seq(Events) /\ ~HasOver(<<>>) /\ ~LastIsOver(<<>>)
  /\ \A d : Of(<<>>, d)
  /\ \A owed : FollowedUp(<<>>, owed)
<1>1. <<>> \in Seq(Events) /\ Len(<<>>) = 0
  BY EmptySeq
<1> QED
  BY <1>1 DEF HasOver, LastIsOver, Of, FollowedUp

LEMMA OneEvent ==
  ASSUME NEW e \in Events
  PROVE  /\ <<e>> \in Seq(Events)
         /\ \A d : Of(<<e>>, d) <=> e.dialog = d
         /\ HasOver(<<e>>) <=> e.type = "over"
         /\ \A owed : e.type # "text" => FollowedUp(<<e>>, owed)
BY DEF Of, HasOver, FollowedUp

LEMMA AppendEvent ==
  ASSUME NEW q \in Seq(Events), NEW e \in Events
  PROVE  /\ Append(q, e) \in Seq(Events)
         /\ HasOver(Append(q, e)) <=> HasOver(q) \/ e.type = "over"
         /\ LastIsOver(Append(q, e)) <=> e.type = "over"
         /\ \A d : Of(Append(q, e), d) <=> Of(q, d) /\ e.dialog = d
         /\ \A owed : e.type = "over" => FollowedUp(Append(q, e), owed)
<1> DEFINE r == Append(q, e)
<1>1. /\ r \in Seq(Events) /\ r # <<>> /\ Len(r) = Len(q) + 1
      /\ \A i \in 1..Len(q) : r[i] = q[i]
      /\ r[Len(q) + 1] = e
  BY AppendProperties
<1>2. Len(q) \in Nat
  OBVIOUS
<1> HIDE DEF r
<1>3. HasOver(r) <=> HasOver(q) \/ e.type = "over"
  BY <1>1, <1>2 DEF HasOver
<1>4. LastIsOver(r) <=> e.type = "over"
  BY <1>1, <1>2 DEF LastIsOver
<1>5. \A d : Of(r, d) <=> Of(q, d) /\ e.dialog = d
  BY <1>1, <1>2 DEF Of
<1>6. ASSUME NEW owed, e.type = "over" PROVE FollowedUp(r, owed)
  <2>1. SUFFICES ASSUME NEW i \in 1..Len(r), r[i].type = "text"
                 PROVE  \E j \in i + 1 .. Len(r) : r[j].type = "over"
    BY DEF FollowedUp
  <2>2. i # Len(q) + 1
    BY <1>1, <1>6, <2>1
  <2>3. Len(r) \in i + 1 .. Len(r)
    BY <1>1, <1>2, <2>1, <2>2
  <2> QED
    BY <1>1, <1>2, <1>6, <2>3
<1> QED
  BY <1>1, <1>3, <1>4, <1>5, <1>6 DEF r

LEMMA NextEvent ==
  ASSUME NEW q \in Seq(Events), q # <<>>
  PROVE  /\ Head(q) \in Events /\ Tail(q) \in Seq(Events)
         /\ HasOver(q) <=> Head(q).type = "over" \/ HasOver(Tail(q))
         /\ \A d : Of(q, d) => Head(q).dialog = d /\ Of(Tail(q), d)
         /\ \A owed : FollowedUp(q, owed) =>
              /\ FollowedUp(Tail(q), owed)
              /\ Head(q).type = "text" => owed > 0 \/ HasOver(Tail(q))
<1> DEFINE r == Tail(q)
<1>1. /\ Head(q) \in Events /\ r \in Seq(Events) /\ Len(r) = Len(q) - 1
      /\ \A i \in 1..Len(r) : r[i] = q[i + 1]
  BY HeadTailProperties
<1>2. Head(q) = q[1] /\ Len(q) \in Nat \ {0}
  BY EmptySeq
<1> HIDE DEF r
<1>3. HasOver(q) <=> Head(q).type = "over" \/ HasOver(r)
  <2>1. ASSUME NEW i \in 1..Len(q), q[i].type = "over", i # 1
        PROVE  HasOver(r)
    <3>1. i - 1 \in 1..Len(r) /\ r[i - 1] = q[i]
      BY <1>1, <1>2, <2>1
    <3> QED
      BY <2>1, <3>1 DEF HasOver
  <2>2. HasOver(r) => HasOver(q)
    BY <1>1, <1>2 DEF HasOver
  <2> QED
    BY <1>2, <2>1, <2>2 DEF HasOver
<1>4. ASSUME NEW d, Of(q, d) PROVE Head(q).dialog = d /\ Of(r, d)
  BY <1>1, <1>2, <1>4 DEF Of
<1>5. ASSUME NEW owed, FollowedUp(q, owed)
      PROVE  /\ FollowedUp(r, owed)
             /\ Head(q).type = "text" => owed > 0 \/ HasOver(r)
  <2>1. ASSUME NEW i \in 1..Len(q), q[i].type = "text", ~(owed > 0)
        PROVE  \E j \in i .. Len(r) : r[j].type = "over"
    <3>1. PICK j \in i + 1 .. Len(q) : q[j].type = "over"
      BY <1>5, <2>1 DEF FollowedUp
    <3>2. j - 1 \in i .. Len(r) /\ j - 1 \in 1..Len(r) /\ r[j - 1] = q[j]
      BY <1>1, <1>2, <2>1, <3>1
    <3> QED
      BY <3>1, <3>2
  <2>2. FollowedUp(r, owed)
    <3>1. SUFFICES ASSUME NEW i \in 1..Len(r), r[i].type = "text", ~(owed > 0)
                   PROVE  \E j \in i + 1 .. Len(r) : r[j].type = "over"
      BY DEF FollowedUp
    <3>2. i + 1 \in 1..Len(q) /\ q[i + 1].type = "text"
      BY <1>1, <1>2, <3>1
    <3> QED
      BY <2>1, <3>1, <3>2
  <2>3. Head(q).type = "text" => owed > 0 \/ HasOver(r)
    <3>1. 1 \in 1..Len(q)
      BY <1>2
    <3> QED
      BY <1>2, <2>1, <3>1 DEF HasOver
  <2> QED
    BY <2>2, <2>3
<1> QED
  BY <1>1, <1>3, <1>4, <1>5 DEF r

LEMMA MoreIsOwed ==
  /\ \A q, owed : owed > 0 => FollowedUp(q, owed)
  /\ \A q, owed, more : FollowedUp(q, owed) /\ (owed > 0 => more > 0)
                          => FollowedUp(q, more)
BY DEF FollowedUp

(* Events of no story are no events; the texts of a story are of it.       *)
LEMMA EventsOfAStory ==
  ASSUME NEW q \in Seq(Events)
  PROVE  /\ Texts(q) \subseteq Dialogs
         /\ \A d : Of(q, d) => Texts(q) \subseteq {d}
         /\ Of(q, None) => \A d : Of(q, d)
<1>1. \A i \in 1..Len(q) : q[i] \in Events
  OBVIOUS
<1> QED
  BY <1>1 DEF Texts, Of, Events

-----------------------------------------------------------------------------
(* Types.                                                                  *)

(* A call that is answered concerns a dialog; a dialog has no more runs    *)
(* than the server accepted.                                               *)
Named ==
  /\ \A c \in {"open", "delete"} : calls[c] # NoCall => calls[c].dialog \in Dialogs
  /\ \A c \in {"create", "post"} : calls[c].answer = "ok" => calls[c].dialog \in Dialogs
  /\ \A d \in Dialogs : runs[d] <= posts

(* TypeOK and Named, by who keeps what.                                    *)
PageTyped ==
  /\ page \in {"starting", "open", "left"}
  /\ dialogId \in Dialogs \cup {None}
  /\ connection \in 0..MaxSources
  /\ switching \in BOOLEAN /\ reopened \in BOOLEAN
  /\ timer \in {"none", "start", "create"}
  /\ verifying \in {{}} \cup {{s} : s \in 0..MaxSources}
  /\ deletingId \in Dialogs \cup {None}
  /\ shown \in SUBSET Dialogs

FormTyped ==
  /\ ready \in BOOLEAN /\ processing \in BOOLEAN /\ submitting \in BOOLEAN
  /\ pending \in Seq(Events)

CallTypes == [dialog : Dialogs \cup {None}, answer : Answers]
CallTyped(op, call) ==
  /\ call \in CallTypes
  /\ op \in {"open", "delete"} /\ call # NoCall => call.dialog \in Dialogs
  /\ op \in {"create", "post"} /\ call.answer = "ok" => call.dialog \in Dialogs
AllTyped(inFlight) ==
  /\ inFlight \in [Operations -> CallTypes]
  /\ \A op \in Operations : CallTyped(op, inFlight[op])
CallsTyped == AllTyped(calls)

SourcesTyped ==
  /\ sourceDialog \in [Sources -> Dialogs \cup {None}]
  /\ sourceState \in [Sources -> {"closed", "connecting", "open"}]
  /\ sourceQueue \in [Sources -> Seq(Events)]

ServerTyped ==
  /\ stored \in [Dialogs -> {"unused", "stored", "gone"}]
  /\ runs \in [Dialogs -> 0..MaxPosts]
  /\ spoken \in SUBSET Dialogs
  /\ posts \in 0..MaxPosts
  /\ \A d \in Dialogs : runs[d] <= posts

HistoryTyped ==
  /\ tangled \in BOOLEAN /\ missed \in BOOLEAN
  /\ troubles \in 0..MaxTroubles

Typed ==
  /\ PageTyped /\ FormTyped /\ CallsTyped /\ SourcesTyped /\ ServerTyped
  /\ HistoryTyped

LEMMA TypedIsTypeOK == Typed <=> TypeOK /\ Named
<1>1. CallsTyped <=>
        /\ calls \in [Operations -> CallTypes]
        /\ \A c \in {"open", "delete"} :
             calls[c] # NoCall => calls[c].dialog \in Dialogs
        /\ \A c \in {"create", "post"} :
             calls[c].answer = "ok" => calls[c].dialog \in Dialogs
  BY DEF CallsTyped, AllTyped, CallTyped, Operations
<1>2. PageTyped /\ FormTyped /\ SourcesTyped /\ ServerTyped /\ HistoryTyped
        /\ calls \in [Operations -> CallTypes]
      <=> TypeOK /\ \A d \in Dialogs : runs[d] <= posts
  BY DEF PageTyped, FormTyped, SourcesTyped, ServerTyped, HistoryTyped, TypeOK,
         CallTypes
<1> QED
  BY <1>1, <1>2 DEF Typed, Named

LEMMA InitTyped == Init => Typed
<1> SUFFICES ASSUME Init PROVE Typed
  OBVIOUS
<1>1. CallsTyped
  BY DEF Init, CallsTyped, AllTyped, CallTyped, CallTypes, NoCall, Answers, Operations
<1>2. FormTyped /\ SourcesTyped
  BY NoEvents DEF Init, FormTyped, SourcesTyped
<1>3. PageTyped
  <2>1. switching \in BOOLEAN /\ reopened \in BOOLEAN
    BY Zenon DEF Init
  <2>2. /\ page = "starting" /\ dialogId = None /\ connection = 0
        /\ timer = "none" /\ verifying = {} /\ deletingId = None
        /\ shown = {}
    BY Zenon DEF Init
  <2> QED
    BY <2>1, <2>2 DEF PageTyped
<1>4. ServerTyped
  BY DEF Init, ServerTyped
<1>5. HistoryTyped
  <2>1. tangled \in BOOLEAN /\ missed \in BOOLEAN /\ troubles = 0
    BY Zenon DEF Init
  <2> QED
    BY <2>1 DEF HistoryTyped
<1> QED
  BY <1>1, <1>2, <1>3, <1>4, <1>5 DEF Typed

(* What the parts of a step do to the parts of the types.                  *)

LEMMA PageStays ==
  /\ PageTyped
  /\ UNCHANGED <<page, dialogId, connection, switching, timer, verifying,
                 reopened, deletingId, shown>>
  => PageTyped'
BY DEF PageTyped

LEMMA FormStays == FormTyped /\ UNCHANGED form => FormTyped'
BY DEF FormTyped, form

LEMMA CallsStay == CallsTyped /\ UNCHANGED calls => CallsTyped'
BY DEF CallsTyped

LEMMA SourcesStay == SourcesTyped /\ UNCHANGED sources => SourcesTyped'
BY DEF SourcesTyped, sources

LEMMA ServerStays == ServerTyped /\ UNCHANGED server => ServerTyped'
BY DEF ServerTyped, server

LEMMA TroubleTypes ==
  ASSUME HistoryTyped, tangled' \in BOOLEAN, missed' \in BOOLEAN,
         Trouble \/ NoTrouble
  PROVE  HistoryTyped'
BY DEF HistoryTyped, Trouble, NoTrouble

(* A call is given another value, and the others keep theirs.              *)
LEMMA CallChanges ==
  ASSUME NEW f, AllTyped(f), NEW op \in Operations, NEW call,
         CallTyped(op, call)
  PROVE  AllTyped([f EXCEPT ![op] = call])
<1> DEFINE g == [f EXCEPT ![op] = call]
<1>1. call \in CallTypes
  BY DEF CallTyped
<1>2. \A c \in Operations : g[c] = IF c = op THEN call ELSE f[c]
  BY DEF AllTyped
<1>3. \A c \in Operations : CallTyped(c, g[c])
  BY <1>2 DEF AllTyped
<1>4. g \in [Operations -> CallTypes]
  BY <1>1 DEF AllTyped
<1> QED
  BY <1>3, <1>4 DEF AllTyped

LEMMA AnsweredChanges ==
  ASSUME CallsTyped, NEW op \in Operations, NEW answer, Answered(op, answer)
  PROVE  calls' = [calls EXCEPT ![op] =
                     [dialog |-> calls[op].dialog, answer |-> answer]]
<1>1. calls[op] \in CallTypes
  BY DEF CallsTyped, AllTyped
<1>2. [calls[op] EXCEPT !.answer = answer]
        = [dialog |-> calls[op].dialog, answer |-> answer]
  BY <1>1 DEF CallTypes
<1> QED
  BY <1>2 DEF Answered

LEMMA AnsweredTypes ==
  ASSUME CallsTyped, NEW op \in Operations, NEW answer \in Answers,
         Answered(op, answer), calls[op] # NoCall,
         op \in {"create", "post"} /\ answer = "ok" => calls[op].dialog \in Dialogs
  PROVE  CallsTyped'
<1> DEFINE call == [dialog |-> calls[op].dialog, answer |-> answer]
<1>1. CallTyped(op, call)
  BY DEF CallsTyped, AllTyped, CallTyped, CallTypes
<1>2. calls' = [calls EXCEPT ![op] = call]
  BY AnsweredChanges
<1> QED
  BY <1>1, <1>2, CallChanges DEF CallsTyped

LEMMA WithoutTypes ==
  ASSUME CallsTyped, NEW op \in Operations
  PROVE  AllTyped(Without(op))
<1>1. CallTyped(op, NoCall)
  BY DEF CallTyped, CallTypes, NoCall, Answers
<1> QED
  BY <1>1, CallChanges DEF Without, CallsTyped

LEMMA CallsTypes ==
  ASSUME NEW inFlight, AllTyped(inFlight), NEW op \in Operations,
         NEW d \in Dialogs \cup {None}, op \in {"open", "delete"} => d \in Dialogs,
         Calls(op, d, inFlight)
  PROVE  CallsTyped'
<1>1. CallTyped(op, [dialog |-> d, answer |-> "sent"])
  BY DEF CallTyped, CallTypes, NoCall, Answers
<1> QED
  BY <1>1, CallChanges DEF Calls, CallsTyped

LEMMA ConnectsTypes ==
  ASSUME SourcesTyped, NEW d \in Dialogs \cup {None}, NEW closed,
         Connects(d, closed)
  PROVE  SourcesTyped' /\ connection' \in Sources
<1> DEFINE s == CHOOSE free \in FreeSources : TRUE
<1>1. s \in FreeSources /\ s \in Sources
  BY DEF Connects, FreeSources
<1> HIDE DEF s
<1>2. /\ connection' = s
      /\ sourceDialog' = [u \in Sources |->
           IF u = s THEN d
           ELSE IF u = closed THEN None ELSE sourceDialog[u]]
      /\ sourceState' = [u \in Sources |->
           IF u = s THEN "connecting"
           ELSE IF u = closed THEN "closed" ELSE sourceState[u]]
      /\ sourceQueue' = [u \in Sources |->
           IF u = closed THEN <<>> ELSE sourceQueue[u]]
  BY DEF Connects, s
<1>3. sourceQueue' \in [Sources -> Seq(Events)]
  BY <1>2, NoEvents DEF SourcesTyped
<1> QED
  BY <1>1, <1>2, <1>3 DEF SourcesTyped

LEMMA DisconnectsTypes ==
  ASSUME SourcesTyped, Disconnects
  PROVE  SourcesTyped'
<1>1. sourceQueue' \in [Sources -> Seq(Events)]
  BY NoEvents DEF SourcesTyped, Disconnects
<1> QED
  BY <1>1 DEF SourcesTyped, Disconnects

LEMMA RedirectTypes ==
  ASSUME PageTyped, FormTyped, SourcesTyped, Redirect
  PROVE  PageTyped' /\ FormTyped' /\ SourcesTyped'
BY DEF PageTyped, FormTyped, SourcesTyped, Redirect, form

LEMMA PublishesTypes ==
  ASSUME SourcesTyped, NEW d \in Dialogs, NEW type \in {"text", "over"},
         Publishes(d, type), UNCHANGED <<sourceDialog, sourceState>>
  PROVE  SourcesTyped'
<1>1. [type |-> type, dialog |-> d] \in Events
  BY DEF Events
<1>2. \A s \in Sources :
        Append(sourceQueue[s], [type |-> type, dialog |-> d]) \in Seq(Events)
  BY <1>1, AppendEvent DEF SourcesTyped
<1> QED
  BY <1>2 DEF SourcesTyped, Publishes

(* Every step keeps the types, one lemma for each kind of step.            *)

LEMMA BeginsCreateTypes ==
  ASSUME Typed, NEW inFlight, AllTyped(inFlight), BeginsCreate(inFlight),
         NoTrouble, deletingId' \in Dialogs \cup {None}
  PROVE  Typed'
<1>1. PageTyped'
  BY DEF Typed, PageTyped, BeginsCreate, Disconnects
<1>2. FormTyped'
  BY NoEvents DEF BeginsCreate, LeavesForm, FormTyped
<1>3. CallsTyped'
  BY CallsTypes DEF BeginsCreate, Operations
<1>4. SourcesTyped'
  BY DisconnectsTypes DEF BeginsCreate, Typed
<1>5. ServerTyped'
  BY ServerStays DEF BeginsCreate, Typed
<1>6. HistoryTyped'
  <2>1. tangled' \in BOOLEAN /\ missed' \in BOOLEAN
    BY DEF BeginsCreate, LeavesForm, Typed, HistoryTyped, FormTyped, PageTyped
  <2> QED
    BY <2>1, TroubleTypes DEF Typed
<1> QED
  BY <1>1, <1>2, <1>3, <1>4, <1>5, <1>6 DEF Typed

LEMMA MissedOrNotTypes ==
  ASSUME Typed, UNCHANGED <<tangled, missed>>, Trouble \/ NoTrouble
  PROVE  HistoryTyped'
<1>1. tangled' \in BOOLEAN /\ missed' \in BOOLEAN
  BY DEF Typed, HistoryTyped
<1> QED
  BY <1>1, TroubleTypes DEF Typed

LEMMA StartTypes == Typed /\ Start => Typed'
<1> SUFFICES ASSUME Typed, Start PROVE Typed'
  OBVIOUS
<1>1. CASE BeginsCreate(calls) /\ NoTrouble /\ UNCHANGED deletingId
  BY <1>1, BeginsCreateTypes DEF Typed, CallsTyped, PageTyped
<1>2. CASE /\ Trouble /\ Redirect
           /\ UNCHANGED <<calls, server, tangled, missed>>
  BY <1>2, RedirectTypes, CallsStay, ServerStays, MissedOrNotTypes DEF Typed
<1>3. CASE /\ Trouble
           /\ timer' = "start"
           /\ UNCHANGED <<page, dialogId, connection, form, switching,
                          verifying, reopened, deletingId, shown, calls,
                          sources, server, tangled, missed>>
  <2>1. PageTyped'
    BY <1>3 DEF Typed, PageTyped
  <2> QED
    BY <1>3, <2>1, FormStays, CallsStay, SourcesStay, ServerStays,
       MissedOrNotTypes DEF Typed
<1> QED
  BY <1>1, <1>2, <1>3 DEF Start

LEMMA NewStoryTypes == Typed /\ NewStory => Typed'
BY BeginsCreateTypes DEF NewStory, Typed, CallsTyped, PageTyped

LEMMA TimerFiresTypes == Typed /\ TimerFires => Typed'
<1> SUFFICES ASSUME Typed, TimerFires PROVE Typed'
  OBVIOUS
<1>1. CASE BeginsCreate(calls) /\ NoTrouble /\ UNCHANGED deletingId
  BY <1>1, BeginsCreateTypes DEF Typed, CallsTyped, PageTyped
<1>2. CASE /\ timer' = "none"
           /\ UNCHANGED <<page, dialogId, connection, form, switching,
                          verifying, reopened, deletingId, shown, calls,
                          sources, server, history>>
  <2>1. PageTyped'
    BY <1>2 DEF Typed, PageTyped
  <2> QED
    BY <1>2, <2>1, FormStays, CallsStay, SourcesStay, ServerStays,
       MissedOrNotTypes DEF Typed, history, NoTrouble
<1> QED
  BY <1>1, <1>2 DEF TimerFires

LEMMA SubmitTypes == Typed /\ Submit => Typed'
<1> SUFFICES ASSUME Typed, Submit PROVE Typed'
  OBVIOUS
<1>1. PageTyped'
  BY PageStays DEF Typed, Submit
<1>2. FormTyped'
  <2>1. pending' \in Seq(Events)
    BY NoEvents DEF Submit
  <2> QED
    BY <2>1 DEF Typed, FormTyped, Submit
<1>3. CallsTyped'
  BY CallsTypes DEF Typed, PageTyped, CallsTyped, Submit, Operations
<1>4. HistoryTyped'
  BY DEF Typed, HistoryTyped, Submit
<1> QED
  BY <1>1, <1>2, <1>3, <1>4, SourcesStay, ServerStays DEF Typed, Submit

LEMMA OpenTypes ==
  ASSUME Typed, NEW d \in Dialogs, Open(d)
  PROVE  Typed'
<1>1. PageTyped'
  BY DEF Typed, PageTyped, Open
<1>2. CallsTyped'
  BY CallsTypes DEF Typed, CallsTyped, Open, Operations
<1> QED
  BY <1>1, <1>2, FormStays, SourcesStay, ServerStays, MissedOrNotTypes
  DEF Typed, Open, history, NoTrouble

LEMMA DeleteTypes ==
  ASSUME Typed, NEW d \in Dialogs, Delete(d)
  PROVE  Typed'
<1>1. PageTyped'
  BY DEF Typed, PageTyped, Delete
<1>2. CallsTyped'
  BY CallsTypes DEF Typed, CallsTyped, Delete, Operations
<1> QED
  BY <1>1, <1>2, FormStays, SourcesStay, ServerStays, MissedOrNotTypes
  DEF Typed, Delete, history, NoTrouble

LEMMA ServesTypes ==
  ASSUME Typed, NEW c \in Operations, Sent(c), NEW answer \in {"ok", "failed"},
         Serves(c, answer)
  PROVE  CallsTyped' /\ ServerTyped'
<1> USE DEF Answers
<1>1. calls[c] # NoCall /\ calls[c] \in CallTypes /\ CallTyped(c, calls[c])
  BY DEF Sent, NoCall, Typed, CallsTyped, AllTyped
<1>2. CASE ServeCreate(c, answer)
  <2>1. PICK d \in UnusedDialogs :
          /\ stored' = [stored EXCEPT ![d] = "stored"]
          /\ calls' = [calls EXCEPT ![c].answer = answer, ![c].dialog = d]
    BY <1>2 DEF ServeCreate
  <2>2. d \in Dialogs
    BY DEF UnusedDialogs
  <2>3. calls' = [calls EXCEPT ![c] = [dialog |-> d, answer |-> answer]]
    <3>1. [calls[c] EXCEPT !.answer = answer]
            = [dialog |-> calls[c].dialog, answer |-> answer]
      BY <1>1 DEF CallTypes
    <3>2. [[dialog |-> calls[c].dialog, answer |-> answer] EXCEPT !.dialog = d]
            = [dialog |-> d, answer |-> answer]
      OBVIOUS
    <3> QED
      BY <2>1, <3>1, <3>2 DEF Typed, CallsTyped, AllTyped
  <2>4. CallTyped(c, [dialog |-> d, answer |-> answer])
    BY <2>2 DEF CallTyped, CallTypes
  <2>5. CallsTyped'
    BY <2>3, <2>4, CallChanges DEF Typed, CallsTyped
  <2>6. ServerTyped'
    BY <1>2, <2>1, <2>2 DEF Typed, ServerTyped, ServeCreate
  <2> QED
    BY <2>5, <2>6
<1>3. CASE ServeOpen(c, answer)
  BY <1>1, <1>3, AnsweredTypes, ServerStays DEF Typed, ServeOpen
<1>4. CASE ServePost(c, answer)
  <2>1. CASE /\ calls[c].dialog \in StoredDialogs /\ posts < MaxPosts
             /\ runs' = [runs EXCEPT ![calls[c].dialog] = @ + 1]
             /\ posts' = posts + 1
             /\ Answered(c, answer)
             /\ UNCHANGED <<stored, spoken>>
    <3>1. calls[c].dialog \in Dialogs
      BY <2>1 DEF StoredDialogs
    <3>2. CallsTyped'
      BY <1>1, <2>1, <3>1, AnsweredTypes DEF Typed
    <3>3. ServerTyped'
      BY <2>1, <3>1 DEF Typed, ServerTyped
    <3> QED
      BY <3>2, <3>3
  <2>2. CASE Answered(c, "failed") /\ UNCHANGED server
    BY <1>1, <2>2, AnsweredTypes, ServerStays DEF Typed
  <2> QED
    BY <1>4, <2>1, <2>2 DEF ServePost
<1>5. CASE ServeDelete(c, answer)
  <2>1. c = "delete" /\ calls[c].dialog \in Dialogs
    BY <1>1, <1>5 DEF ServeDelete, CallTyped
  <2>2. CallsTyped'
    BY <1>1, <1>5, <2>1, AnsweredTypes DEF Typed, ServeDelete
  <2>3. ServerTyped'
    BY <1>5, <2>1 DEF Typed, ServerTyped, ServeDelete
  <2> QED
    BY <2>2, <2>3
<1> QED
  BY <1>2, <1>3, <1>4, <1>5 DEF Serves

LEMMA ServeTypes ==
  ASSUME Typed, NEW c \in Operations, Serve(c)
  PROVE  Typed'
<1>1. CallsTyped' /\ ServerTyped'
  <2>1. CASE Serves(c, "ok") \/ Serves(c, "failed")
    BY <2>1, ServesTypes DEF Serve
  <2>2. CASE \E answer \in {"failed", "unauthorized", "expired"} :
               Answered(c, answer) /\ UNCHANGED server
    <3>1. calls[c] # NoCall
      BY DEF Serve, Sent, NoCall
    <3> QED
      BY <2>2, <3>1, AnsweredTypes, ServerStays DEF Typed, Answers
  <2> QED
    BY <2>1, <2>2 DEF Serve
<1>2. Trouble \/ NoTrouble
  BY DEF Serve
<1>3. PageTyped' /\ FormTyped'
  BY PageStays, FormStays DEF Serve, Typed, pageVars
<1> QED
  BY <1>1, <1>2, <1>3, SourcesStay, MissedOrNotTypes DEF Serve, Typed

LEMMA RenewsTypes ==
  ASSUME Typed, NEW c \in Operations, Renews(c)
  PROVE  Typed'
<1> USE DEF Answers
<1>1. calls[c] # NoCall /\ calls[c] \in CallTypes /\ CallTyped(c, calls[c])
  BY DEF Renews, NoCall, Typed, CallsTyped, AllTyped
<1>2. CallsTyped'
  <2>1. CASE Answered(c, "expired") \/ Answered(c, "failed")
    BY <1>1, <2>1, AnsweredTypes DEF Typed
  <2>2. CASE calls' = [calls EXCEPT ![c].answer = "resent",
                         ![c].dialog = IF c = "post" THEN dialogId ELSE @]
    <3> DEFINE d == IF c = "post" THEN dialogId ELSE calls[c].dialog
               call == [dialog |-> d, answer |-> "resent"]
    <3>1. [calls[c] EXCEPT !.answer = "resent"]
            = [dialog |-> calls[c].dialog, answer |-> "resent"]
      BY <1>1 DEF CallTypes
    <3>2. [[dialog |-> calls[c].dialog, answer |-> "resent"] EXCEPT !.dialog =
             IF c = "post" THEN dialogId ELSE @] = call
      OBVIOUS
    <3>3. calls' = [calls EXCEPT ![c] = call]
      BY <2>2, <3>1, <3>2 DEF Typed, CallsTyped, AllTyped
    <3>4. CallTyped(c, call)
      BY <1>1 DEF CallTyped, CallTypes, Typed, PageTyped
    <3> QED
      BY <3>3, <3>4, CallChanges DEF Typed, CallsTyped
  <2> QED
    BY <2>1, <2>2 DEF Renews
<1>3. PageTyped' /\ FormTyped' /\ SourcesTyped' /\ ServerTyped'
  BY PageStays, FormStays, SourcesStay, ServerStays DEF Typed, Renews, pageVars
<1> QED
  BY <1>2, <1>3, MissedOrNotTypes DEF Typed, Renews, history, NoTrouble

LEMMA GoesToLoginTypes ==
  ASSUME Typed, NEW c \in Operations, GoesToLogin(c)
  PROVE  Typed'
BY RedirectTypes, CallsStay, ServerStays, MissedOrNotTypes
DEF Typed, GoesToLogin, history, NoTrouble

LEMMA CreateOkTypes ==
  ASSUME Typed, NEW c \in Operations, CreateOk(c)
  PROVE  Typed'
<1>1. calls[c].dialog \in Dialogs
  BY DEF Typed, CallsTyped, AllTyped, CallTyped, CreateOk, Continues
<1>2. SourcesTyped' /\ connection' \in Sources
  BY <1>1, ConnectsTypes DEF Typed, CreateOk
<1>3. PageTyped'
  <2>1. switching' \in BOOLEAN /\ reopened' \in BOOLEAN
    BY Zenon DEF CreateOk
  <2>2. connection' \in 0..MaxSources
    BY <1>2 DEF Sources
  <2> QED
    BY <1>1, <2>1, <2>2 DEF Typed, PageTyped, CreateOk
<1>4. CallsTyped'
  BY WithoutTypes DEF Typed, CallsTyped, CreateOk
<1> QED
  BY <1>2, <1>3, <1>4, FormStays, ServerStays, MissedOrNotTypes
  DEF Typed, CreateOk, history, NoTrouble

LEMMA CreateFailedTypes ==
  ASSUME Typed, NEW c \in Operations, CreateFailed(c)
  PROVE  Typed'
<1>1. PageTyped'
  BY DEF Typed, PageTyped, CreateFailed
<1>2. CallsTyped'
  BY WithoutTypes DEF Typed, CallsTyped, CreateFailed
<1> QED
  BY <1>1, <1>2, FormStays, SourcesStay, ServerStays, MissedOrNotTypes
  DEF Typed, CreateFailed, history, NoTrouble

LEMMA OpenOkTypes ==
  ASSUME Typed, NEW c \in Operations, OpenOk(c)
  PROVE  Typed'
<1>1. calls[c].dialog \in Dialogs
  BY DEF Typed, CallsTyped, AllTyped, CallTyped, OpenOk, Continues, NoCall
<1>2. SourcesTyped' /\ connection' \in Sources
  BY <1>1, ConnectsTypes DEF Typed, OpenOk
<1>3. PageTyped'
  <2>1. switching' \in BOOLEAN /\ reopened' \in BOOLEAN
    BY Zenon DEF OpenOk
  <2>2. connection' \in 0..MaxSources
    BY <1>2 DEF Sources
  <2> QED
    BY <1>1, <2>1, <2>2 DEF Typed, PageTyped, OpenOk
<1>4. CallsTyped'
  BY WithoutTypes DEF Typed, CallsTyped, OpenOk
<1>5. FormTyped'
  BY NoEvents DEF OpenOk, LeavesForm, FormTyped
<1>6. HistoryTyped'
  BY DEF Typed, HistoryTyped, OpenOk, LeavesForm
<1> QED
  BY <1>2, <1>3, <1>4, <1>5, <1>6, ServerStays DEF Typed, OpenOk

LEMMA OpenFailedTypes ==
  ASSUME Typed, NEW c \in Operations, OpenFailed(c)
  PROVE  Typed'
<1>1. PageTyped'
  BY DEF Typed, PageTyped, OpenFailed
<1>2. CallsTyped'
  BY WithoutTypes DEF Typed, CallsTyped, OpenFailed
<1> QED
  BY <1>1, <1>2, FormStays, SourcesStay, ServerStays, MissedOrNotTypes
  DEF Typed, OpenFailed, history, NoTrouble

LEMMA DeleteOkTypes ==
  ASSUME Typed, NEW c \in Operations, DeleteOk(c)
  PROVE  Typed'
<1>1. AllTyped(Without(c))
  BY WithoutTypes DEF Typed
<1>2. CASE BeginsCreate(Without(c)) /\ NoTrouble
  BY <1>1, <1>2, BeginsCreateTypes DEF DeleteOk
<1>3. CASE /\ calls' = Without(c)
           /\ UNCHANGED <<page, dialogId, connection, form, switching, timer,
                          verifying, reopened, shown, sources, server, history>>
  <2>1. PageTyped'
    BY <1>3 DEF Typed, PageTyped, DeleteOk
  <2>2. CallsTyped'
    BY <1>1, <1>3 DEF CallsTyped
  <2> QED
    BY <1>3, <2>1, <2>2, FormStays, SourcesStay, ServerStays,
       MissedOrNotTypes DEF Typed, history, NoTrouble
<1> QED
  BY <1>2, <1>3 DEF DeleteOk

LEMMA DeleteFailedTypes ==
  ASSUME Typed, NEW c \in Operations, DeleteFailed(c)
  PROVE  Typed'
<1>1. PageTyped'
  BY DEF Typed, PageTyped, DeleteFailed
<1>2. CallsTyped'
  BY WithoutTypes DEF Typed, CallsTyped, DeleteFailed
<1> QED
  BY <1>1, <1>2, FormStays, SourcesStay, ServerStays, MissedOrNotTypes
  DEF Typed, DeleteFailed, history, NoTrouble

LEMMA PostOkTypes ==
  ASSUME Typed, NEW c \in Operations, PostOk(c)
  PROVE  Typed'
<1>1. calls[c].dialog \in Dialogs
  BY DEF Typed, CallsTyped, AllTyped, CallTyped, PostOk, Continues
<1>2. Texts(pending) \subseteq Dialogs
  BY EventsOfAStory DEF Typed, FormTyped
<1>3. PageTyped'
  BY <1>1, <1>2 DEF Typed, PageTyped, PostOk
<1>4. CallsTyped'
  BY WithoutTypes DEF Typed, CallsTyped, PostOk
<1>5. FormTyped'
  <2>1. pending' \in Seq(Events)
    BY NoEvents DEF PostOk
  <2>2. processing' \in BOOLEAN /\ submitting' \in BOOLEAN
    BY Zenon DEF PostOk
  <2> QED
    BY <2>1, <2>2 DEF Typed, FormTyped, PostOk
<1> QED
  BY <1>3, <1>4, <1>5, SourcesStay, ServerStays, MissedOrNotTypes
  DEF Typed, PostOk, history, NoTrouble

LEMMA PostFailedTypes ==
  ASSUME Typed, NEW c \in Operations, PostFailed(c)
  PROVE  Typed'
<1>1. PageTyped'
  BY PageStays DEF Typed, PostFailed
<1>2. CallsTyped'
  BY WithoutTypes DEF Typed, CallsTyped, PostFailed
<1>3. FormTyped'
  <2>1. pending' \in Seq(Events)
    BY NoEvents DEF PostFailed
  <2> QED
    BY <2>1 DEF Typed, FormTyped, PostFailed
<1> QED
  BY <1>1, <1>2, <1>3, SourcesStay, ServerStays, MissedOrNotTypes
  DEF Typed, PostFailed, history, NoTrouble

LEMMA RunSpeaksTypes ==
  ASSUME Typed, NEW d \in Dialogs, RunSpeaks(d)
  PROVE  Typed'
<1>1. SourcesTyped'
  BY PublishesTypes DEF Typed, RunSpeaks
<1>2. ServerTyped'
  BY DEF Typed, ServerTyped, RunSpeaks
<1>3. PageTyped' /\ FormTyped'
  BY PageStays, FormStays DEF Typed, RunSpeaks, pageVars
<1> QED
  BY <1>1, <1>2, <1>3, CallsStay, MissedOrNotTypes
  DEF Typed, RunSpeaks, history, NoTrouble

LEMMA RunEndsTypes ==
  ASSUME Typed, NEW d \in Dialogs, RunEnds(d)
  PROVE  Typed'
<1>1. SourcesTyped'
  BY PublishesTypes DEF Typed, RunEnds
<1>2. ServerTyped'
  BY DEF Typed, ServerTyped, RunEnds
<1>3. PageTyped' /\ FormTyped'
  BY PageStays, FormStays DEF Typed, RunEnds, pageVars
<1>4. HistoryTyped'
  BY DEF Typed, HistoryTyped, RunEnds
<1> QED
  BY <1>1, <1>2, <1>3, <1>4, CallsStay DEF Typed, RunEnds

LEMMA OtherTabTypes ==
  ASSUME Typed, NEW d \in Dialogs, OtherTab(d)
  PROVE  Typed'
<1>1. ServerTyped'
  BY DEF Typed, ServerTyped, OtherTab
<1>2. PageTyped' /\ FormTyped'
  BY PageStays, FormStays DEF Typed, OtherTab, pageVars
<1> QED
  BY <1>1, <1>2, CallsStay, SourcesStay, MissedOrNotTypes DEF Typed, OtherTab

LEMMA AcceptTypes ==
  ASSUME Typed, NEW s \in Sources, Accept(s)
  PROVE  Typed'
<1>1. SourcesTyped'
  <2>1. [type |-> "ready", dialog |-> sourceDialog[s]] \in Events
    BY DEF Accept, StoredDialogs, Events
  <2>2. <<[type |-> "ready", dialog |-> sourceDialog[s]]>> \in Seq(Events)
    BY <2>1, OneEvent
  <2> QED
    BY <2>2 DEF Typed, SourcesTyped, Accept
<1>2. PageTyped' /\ FormTyped'
  BY PageStays, FormStays DEF Typed, Accept, pageVars
<1> QED
  BY <1>1, <1>2, CallsStay, ServerStays, MissedOrNotTypes
  DEF Typed, Accept, history, NoTrouble

LEMMA BreaksTypes ==
  ASSUME Typed, NEW s \in Sources, NEW state \in {"closed", "connecting"},
         Breaks(s, state), Trouble \/ NoTrouble
  PROVE  Typed'
<1>1. SourcesTyped'
  BY NoEvents DEF Typed, SourcesTyped, Breaks
<1>2. PageTyped'
  BY DEF Typed, PageTyped, Breaks, HandlesError
<1>3. FormTyped'
  BY DEF Typed, FormTyped, Breaks, HandlesError
<1>4. HistoryTyped'
  <2>1. tangled' \in BOOLEAN /\ missed' \in BOOLEAN
    BY DEF Typed, HistoryTyped, Breaks
  <2> QED
    BY <2>1, TroubleTypes DEF Typed
<1> QED
  BY <1>1, <1>2, <1>3, <1>4, CallsStay, ServerStays DEF Typed, Breaks

LEMMA DispatchTypes ==
  ASSUME Typed, NEW s \in Sources, Dispatch(s)
  PROVE  Typed'
<1> DEFINE event == Head(sourceQueue[s])
<1>1. event \in Events /\ Tail(sourceQueue[s]) \in Seq(Events)
  BY NextEvent DEF Typed, SourcesTyped, Dispatch
<1>2. SourcesTyped'
  BY <1>1 DEF Typed, SourcesTyped, Dispatch
<1> HIDE DEF event
<1>3. FormTyped' /\ shown' \in SUBSET Dialogs /\ missed' \in BOOLEAN
        /\ reopened' \in BOOLEAN
  <2>1. CASE ApplyReady
    BY <2>1 DEF Typed, FormTyped, PageTyped, HistoryTyped, ApplyReady
  <2>2. CASE Buffer(event)
    <3>1. pending' \in Seq(Events)
      BY <1>1, <2>2, AppendEvent DEF Typed, FormTyped, Buffer
    <3> QED
      BY <2>2, <3>1 DEF Typed, FormTyped, PageTyped, HistoryTyped, Buffer
  <2>3. CASE Apply(event)
    <3>1. Texts(<<event>>) \subseteq Dialogs
      BY <1>1, OneEvent, EventsOfAStory
    <3> QED
      BY <2>3, <3>1 DEF Typed, FormTyped, PageTyped, HistoryTyped, Apply
  <2> QED
    BY <2>1, <2>2, <2>3 DEF Dispatch, event
<1>4. PageTyped'
  BY <1>3 DEF Typed, PageTyped, Dispatch
<1>5. HistoryTyped'
  BY <1>3 DEF Typed, HistoryTyped, Dispatch
<1> QED
  BY <1>2, <1>3, <1>4, <1>5, CallsStay, ServerStays DEF Typed, Dispatch

LEMMA VerifiedTypes == Typed /\ Verified => Typed'
<1> SUFFICES ASSUME Typed, Verified PROVE Typed'
  OBVIOUS
<1>1. PageTyped' /\ FormTyped' /\ SourcesTyped'
  <2>1. CASE /\ verifying' = {} /\ reopened' = TRUE
             /\ Connects(dialogId, 0)
             /\ UNCHANGED <<page, dialogId, form, switching, timer, deletingId,
                            shown>>
    <3>1. SourcesTyped' /\ connection' \in Sources
      BY <2>1, ConnectsTypes DEF Typed, PageTyped
    <3>2. PageTyped'
      BY <2>1, <3>1 DEF Typed, PageTyped, Sources
    <3> QED
      BY <2>1, <3>1, <3>2, FormStays DEF Typed
  <2>2. CASE /\ verifying' = {}
             /\ UNCHANGED <<page, dialogId, connection, form, switching, timer,
                            reopened, deletingId, shown, sources>>
    <3>1. PageTyped'
      BY <2>2 DEF Typed, PageTyped
    <3> QED
      BY <2>2, <3>1, FormStays, SourcesStay DEF Typed
  <2>3. CASE Redirect
    BY <2>3, RedirectTypes DEF Typed
  <2> QED
    BY <2>1, <2>2, <2>3 DEF Verified
<1>2. Trouble \/ NoTrouble
  BY DEF Verified
<1> QED
  BY <1>1, <1>2, CallsStay, ServerStays, MissedOrNotTypes DEF Typed, Verified

LEMMA StutterTypes == Typed /\ UNCHANGED vars => Typed'
BY PageStays, FormStays, CallsStay, SourcesStay, ServerStays, MissedOrNotTypes
DEF Typed, vars, pageVars, history, NoTrouble

LEMMA NextTypes == Typed /\ [Next]_vars => Typed'
<1> SUFFICES ASSUME Typed, [Next]_vars PROVE Typed'
  OBVIOUS
<1>1. CASE Start \/ NewStory \/ TimerFires \/ Submit \/ Verified
  BY <1>1, StartTypes, NewStoryTypes, TimerFiresTypes, SubmitTypes,
     VerifiedTypes
<1>2. ASSUME NEW d \in Dialogs,
             Open(d) \/ Delete(d) \/ RunSpeaks(d) \/ RunEnds(d) \/ OtherTab(d)
      PROVE  Typed'
  BY <1>2, OpenTypes, DeleteTypes, RunSpeaksTypes, RunEndsTypes, OtherTabTypes
<1>3. ASSUME NEW c \in Operations, Serve(c) PROVE Typed'
  BY <1>3, ServeTypes
<1>4. ASSUME NEW c \in Operations, Continuation(c) PROVE Typed'
  BY <1>4, CreateOkTypes, CreateFailedTypes, OpenOkTypes, OpenFailedTypes,
     DeleteOkTypes, DeleteFailedTypes, PostOkTypes, PostFailedTypes,
     RenewsTypes, GoesToLoginTypes DEF Continuation
<1>5. ASSUME NEW s \in Sources,
             Accept(s) \/ Refuse(s) \/ Lose(s) \/ StreamEnds(s) \/ Dispatch(s)
      PROVE  Typed'
  BY <1>5, AcceptTypes, BreaksTypes, DispatchTypes DEF Refuse, Lose, StreamEnds
<1>6. CASE UNCHANGED vars
  BY <1>6, StutterTypes
<1> QED
  BY <1>1, <1>2, <1>3, <1>4, <1>5, <1>6 DEF Next

LEMMA AlwaysTyped == Spec => []Typed
BY InitTyped, NextTypes, PTL DEF Spec

(* Every variable of the page, of its calls and streams and of the server  *)
(* keeps its type: one check of the session at a time, one connection, and *)
(* no more runs than requests.                                             *)
THEOREM PageTypes == Spec => []TypeOK
<1>1. Typed => TypeOK
  BY TypedIsTypeOK
<1> QED
  BY <1>1, AlwaysTyped, PTL

-----------------------------------------------------------------------------
(* The open story.                                                         *)

(* Only the page's connection is not closed, and it streams the open       *)
(* story; what it carries is of that story, and no text is left without    *)
(* the end of its run.                                                     *)
StreamsStory(s) ==
  /\ sourceState[s] # "closed" => s = connection /\ sourceDialog[s] = dialogId
  /\ sourceState[s] # "open" => sourceQueue[s] = <<>>
  /\ Of(sourceQueue[s], sourceDialog[s])
  /\ sourceDialog[s] \in Dialogs =>
       FollowedUp(sourceQueue[s], runs[sourceDialog[s]])
Streaming == \A s \in Sources : StreamsStory(s)

Story ==
  /\ shown \subseteq {dialogId}
  /\ Of(pending, dialogId)
  /\ dialogId = None => connection = 0 /\ ~processing
  /\ submitting => ~processing

(* The calls in flight: the switches keep others out, and a request is     *)
(* sent to the open story.                                                 *)
Awaited ==
  /\ calls["create"] # NoCall =>
       /\ switching /\ dialogId = None
       /\ calls["open"] = NoCall /\ calls["post"] = NoCall
  /\ calls["open"] # NoCall => switching /\ calls["post"] = NoCall
  /\ calls["post"] # NoCall =>
       submitting /\ dialogId # None /\ calls["post"].dialog = dialogId

(* The end of a run of the open story is still to come.                    *)
Due ==
  /\ dialogId # None
  /\ \/ runs[dialogId] > 0
     \/ connection # 0 /\ HasOver(sourceQueue[connection])

(* It is when the form is locked, or is about to be.                       *)
Owed ==
  /\ processing => missed \/ Due
  /\ calls["post"].answer = "ok" => missed \/ Due \/ LastIsOver(pending)

Clear == Streaming /\ Story /\ Awaited /\ Owed
Followed == ~tangled /\ page # "left"
Orderly == Followed => Clear

LEMMA InitOrderly == Init => Orderly
<1> SUFFICES ASSUME Init PROVE Clear
  BY DEF Orderly
<1>1. ASSUME NEW s \in Sources PROVE StreamsStory(s)
  <2>1. sourceState[s] = "closed" /\ sourceQueue[s] = <<>>
    BY Zenon DEF Init
  <2> QED
    BY <2>1, NoEvents DEF StreamsStory
<1>2. Story
  <2>1. /\ pending = <<>> /\ shown = {} /\ connection = 0 /\ ~processing
        /\ ~submitting
    BY Zenon DEF Init
  <2> QED
    BY <2>1, NoEvents DEF Story
<1>3. \A c \in Operations : calls[c] = NoCall
  BY DEF Init
<1>4. Awaited /\ calls["post"].answer # "ok"
  BY <1>3 DEF Awaited, NoCall, Operations
<1>5. Owed
  <2>1. ~processing
    BY Zenon DEF Init
  <2> QED
    BY <1>4, <2>1 DEF Owed
<1> QED
  BY <1>1, <1>2, <1>4, <1>5 DEF Clear, Streaming

(* What the parts of a step do to the parts of the order.                  *)

RunsGo == \A d \in Dialogs : runs[d] > 0 => runs'[d] > 0

LEMMA StreamingStays ==
  Streaming /\ RunsGo /\ UNCHANGED <<sources, connection, dialogId>>
    => Streaming'
<1> SUFFICES ASSUME Streaming, RunsGo, NEW s \in Sources,
                    UNCHANGED <<sources, connection, dialogId>>
             PROVE  StreamsStory(s)'
  BY DEF Streaming, Sources
<1>1. StreamsStory(s)
  BY DEF Streaming
<1> QED
  BY <1>1, MoreIsOwed DEF StreamsStory, sources, RunsGo

LEMMA StoryStays ==
  Story /\ UNCHANGED <<dialogId, connection, shown, pending, processing,
                       submitting>>
    => Story'
BY DEF Story

LEMMA AwaitedStays ==
  Awaited /\ UNCHANGED <<calls, switching, submitting, dialogId>> => Awaited'
BY DEF Awaited, NoCall

LEMMA DueStays ==
  ASSUME Typed, Due, RunsGo, UNCHANGED <<dialogId, connection, sourceQueue>>
  PROVE  Due'
BY DEF Typed, PageTyped, Due, RunsGo

LEMMA OwedStays ==
  ASSUME Typed, Owed, RunsGo,
         UNCHANGED <<dialogId, connection, sourceQueue, processing, pending,
                     missed>>,
         calls'["post"].answer = "ok" => calls["post"].answer = "ok"
  PROVE  Owed'
BY DueStays DEF Owed

(* The page's connection, and no other, is open.                           *)
LEMMA OthersAreClosed ==
  ASSUME Streaming, NEW s \in Sources, s # connection
  PROVE  sourceState[s] = "closed" /\ sourceQueue[s] = <<>>
BY DEF Streaming, StreamsStory

(* A connection to the dialog replaces the one that is closed.             *)
LEMMA ConnectsToStory ==
  ASSUME Typed, Streaming, NEW d \in Dialogs \cup {None}, NEW closed,
         Connects(d, closed), dialogId' = d,
         \/ closed = connection
         \/ closed = 0 /\ \A s \in Sources : sourceState[s] = "closed"
  PROVE  Streaming' /\ connection' # 0
<1> DEFINE new == CHOOSE free \in FreeSources : TRUE
<1>1. new \in FreeSources /\ new \in Sources /\ new # connection
  BY DEF Connects, FreeSources
<1> HIDE DEF new
<1>2. /\ connection' = new
      /\ sourceDialog' = [u \in Sources |->
           IF u = new THEN d
           ELSE IF u = closed THEN None ELSE sourceDialog[u]]
      /\ sourceState' = [u \in Sources |->
           IF u = new THEN "connecting"
           ELSE IF u = closed THEN "closed" ELSE sourceState[u]]
      /\ sourceQueue' = [u \in Sources |->
           IF u = closed THEN <<>> ELSE sourceQueue[u]]
  BY DEF Connects, new
<1>3. ASSUME NEW s \in Sources
      PROVE  /\ sourceQueue'[s] = <<>>
             /\ s # new => sourceState'[s] = "closed"
             /\ s = new => sourceDialog'[s] = d
  <2>1. sourceQueue[s] = <<>> \/ s = closed
    BY OthersAreClosed DEF Streaming, StreamsStory
  <2>2. sourceState[s] = "closed" \/ s = closed
    BY OthersAreClosed
  <2> QED
    BY <1>2, <2>1, <2>2
<1>4. ASSUME NEW s \in Sources PROVE StreamsStory(s)'
  BY <1>2, <1>3, NoEvents DEF StreamsStory
<1> QED
  BY <1>1, <1>2, <1>4 DEF Streaming, Sources

LEMMA DisconnectsAll ==
  ASSUME Typed, Streaming, Disconnects
  PROVE  Streaming'
<1>1. ASSUME NEW s \in Sources
      PROVE  sourceQueue'[s] = <<>> /\ sourceState'[s] = "closed"
  BY OthersAreClosed DEF Disconnects
<1>2. ASSUME NEW s \in Sources PROVE StreamsStory(s)'
  BY <1>1, NoEvents DEF StreamsStory
<1> QED
  BY <1>2 DEF Streaming, Sources

(* Every step of a followed page keeps the order.                          *)

LEMMA NothingRuns == UNCHANGED server => RunsGo
BY DEF server, RunsGo

LEMMA BeginsCreateKeeps ==
  ASSUME Typed, Clear, NEW inFlight, BeginsCreate(inFlight), ~tangled',
         AllTyped(inFlight),
         \A c \in {"create", "open", "post"} : inFlight[c] = calls[c]
  PROVE  Clear'
<1>1. ~submitting /\ ~switching
  BY DEF BeginsCreate
<1>2. \A c \in {"create", "open", "post"} : calls[c] = NoCall
  BY <1>1 DEF Clear, Awaited
<1>3. /\ calls' = [inFlight EXCEPT !["create"] =
                     [dialog |-> None, answer |-> "sent"]]
      /\ "open" \in Operations /\ "post" \in Operations
  BY DEF BeginsCreate, Calls, Operations
<1>4. calls'["open"] = NoCall /\ calls'["post"] = NoCall
  BY <1>2, <1>3 DEF AllTyped
<1>5. switching' /\ dialogId' = None /\ connection' = 0
  BY DEF BeginsCreate, Disconnects
<1>6. ~processing' /\ ~submitting' /\ pending' = <<>> /\ shown' = {}
  BY DEF BeginsCreate, LeavesForm
<1>7. Streaming'
  BY DisconnectsAll DEF Clear, BeginsCreate
<1>8. Story'
  BY <1>5, <1>6, NoEvents DEF Story
<1>9. Awaited'
  BY <1>4, <1>5 DEF Awaited, NoCall
<1>10. Owed'
  BY <1>4, <1>6 DEF Owed, NoCall
<1> QED
  BY <1>7, <1>8, <1>9, <1>10 DEF Clear

LEMMA StartKeeps ==
  ASSUME Typed, Clear, Start, Followed'
  PROVE  Clear'
<1>1. CASE BeginsCreate(calls)
  BY <1>1, BeginsCreateKeeps DEF Followed, Typed, CallsTyped
<1>2. CASE UNCHANGED <<page, dialogId, connection, form, switching, verifying,
                       reopened, deletingId, shown, calls, sources, server,
                       tangled, missed>>
  BY <1>2, StreamingStays, StoryStays, AwaitedStays, OwedStays, NothingRuns
  DEF Clear, form, sources
<1> QED
  BY <1>1, <1>2 DEF Start, Redirect, Followed

LEMMA NewStoryKeeps ==
  ASSUME Typed, Clear, NewStory, Followed'
  PROVE  Clear'
BY BeginsCreateKeeps DEF NewStory, Followed, Typed, CallsTyped

LEMMA TimerFiresKeeps ==
  ASSUME Typed, Clear, TimerFires, Followed'
  PROVE  Clear'
<1>1. CASE BeginsCreate(calls)
  BY <1>1, BeginsCreateKeeps DEF Followed, Typed, CallsTyped
<1>2. CASE UNCHANGED <<page, dialogId, connection, form, switching, verifying,
                       reopened, deletingId, shown, calls, sources, server,
                       history>>
  BY <1>2, StreamingStays, StoryStays, AwaitedStays, OwedStays, NothingRuns
  DEF Clear, form, sources, history
<1> QED
  BY <1>1, <1>2 DEF TimerFires

LEMMA SubmitKeeps ==
  ASSUME Typed, Clear, Submit
  PROVE  Clear'
<1>1. ~processing /\ ~submitting /\ ~switching /\ dialogId # None
  BY DEF Submit, busy
<1>2. calls["create"] = NoCall /\ calls["open"] = NoCall
  BY <1>1 DEF Clear, Awaited
<1>3. \A c \in Operations : calls'[c] =
        IF c = "post" THEN [dialog |-> dialogId, answer |-> "sent"]
                      ELSE calls[c]
  BY DEF Submit, Calls, Typed, CallsTyped, AllTyped
<1>4. pending' = <<>> /\ submitting'
  BY DEF Submit
<1>5. UNCHANGED <<sources, server, dialogId, connection, processing, shown,
                  switching>>
  BY DEF Submit
<1>6. Streaming'
  BY <1>5, StreamingStays, NothingRuns DEF Clear
<1>7. Story'
  BY <1>1, <1>4, <1>5, NoEvents DEF Clear, Story
<1>8. Awaited'
  BY <1>1, <1>2, <1>3, <1>4, <1>5 DEF Awaited, Operations, NoCall
<1>9. Owed'
  BY <1>1, <1>3, <1>5 DEF Owed, Operations
<1> QED
  BY <1>6, <1>7, <1>8, <1>9 DEF Clear

LEMMA OpenKeeps ==
  ASSUME Typed, Clear, NEW d \in Dialogs, Open(d)
  PROVE  Clear'
<1>1. ~processing /\ ~submitting /\ ~switching
  BY DEF Open, busy
<1>2. calls["create"] = NoCall /\ calls["post"] = NoCall
  BY <1>1 DEF Clear, Awaited
<1>3. \A c \in Operations : c # "open" => calls'[c] = calls[c]
  BY DEF Open, Calls, Typed, CallsTyped, AllTyped
<1>4. UNCHANGED <<form, sources, server, dialogId, connection, shown, missed>>
        /\ switching'
  BY DEF Open, history
<1>5. Streaming' /\ Story'
  BY <1>4, StreamingStays, StoryStays, NothingRuns DEF Clear, form
<1>6. calls'["create"] = NoCall /\ calls'["post"] = NoCall
  BY <1>2, <1>3 DEF Operations
<1>7. Awaited'
  BY <1>4, <1>6 DEF Awaited, NoCall
<1>8. Owed'
  BY <1>1, <1>4, <1>6 DEF Owed, NoCall, form
<1> QED
  BY <1>5, <1>7, <1>8 DEF Clear

(* "delete" is awaited besides the others.                                 *)
LEMMA DeletionKeeps ==
  ASSUME Typed, Clear,
         \A c \in {"create", "open", "post"} : calls'[c] = calls[c],
         UNCHANGED <<dialogId, connection, form, switching, shown, sources,
                     server, missed>>
  PROVE  Clear'
<1>1. Streaming' /\ Story' /\ Owed'
  BY StreamingStays, StoryStays, OwedStays, NothingRuns
  DEF Clear, form, sources
<1>2. Awaited'
  BY DEF Clear, Awaited, NoCall, form
<1> QED
  BY <1>1, <1>2 DEF Clear

LEMMA DeleteKeeps ==
  ASSUME Typed, Clear, NEW d \in Dialogs, Delete(d)
  PROVE  Clear'
<1>1. \A c \in {"create", "open", "post"} : calls'[c] = calls[c]
  BY DEF Delete, Calls, Typed, CallsTyped, AllTyped, Operations
<1> QED
  BY <1>1, DeletionKeeps DEF Delete, history

LEMMA DeleteOkKeeps ==
  ASSUME Typed, Clear, NEW c \in Operations, DeleteOk(c), Followed'
  PROVE  Clear'
<1>1. c = "delete"
  BY DEF DeleteOk, Continues
<1>2. AllTyped(Without(c))
  BY WithoutTypes DEF Typed
<1>3. \A o \in {"create", "open", "post"} : Without(c)[o] = calls[o]
  BY <1>1 DEF Without, Typed, CallsTyped, AllTyped, Operations
<1>4. CASE BeginsCreate(Without(c))
  BY <1>2, <1>3, <1>4, BeginsCreateKeeps DEF Followed
<1>5. CASE /\ calls' = Without(c)
           /\ UNCHANGED <<page, dialogId, connection, form, switching, timer,
                          verifying, reopened, shown, sources, server, history>>
  BY <1>3, <1>5, DeletionKeeps DEF history
<1> QED
  BY <1>4, <1>5 DEF DeleteOk

LEMMA DeleteFailedKeeps ==
  ASSUME Typed, Clear, NEW c \in Operations, DeleteFailed(c)
  PROVE  Clear'
<1>1. \A o \in {"create", "open", "post"} : calls'[o] = calls[o]
  BY DEF DeleteFailed, Continues, Without, Typed, CallsTyped, AllTyped,
         Operations
<1> QED
  BY <1>1, DeletionKeeps DEF DeleteFailed, history

(* The server's part of a call.                                            *)
LEMMA ServesRuns ==
  ASSUME Typed, NEW c \in Operations, NEW answer, Serves(c, answer)
  PROVE  RunsGo
<1>1. CASE ServePost(c, answer)
  BY <1>1, NothingRuns DEF ServePost, RunsGo, Typed, ServerTyped, StoredDialogs
<1>2. CASE ~ServePost(c, answer)
  BY <1>2 DEF Serves, ServeCreate, ServeOpen, ServeDelete, RunsGo, server
<1> QED
  BY <1>1, <1>2

(* An answer to one call, for the same dialog, is no continuation of it.   *)
LEMMA AnswerKeeps ==
  ASSUME Typed, Clear, NEW c \in Operations, RunsGo,
         calls[c] # NoCall,
         \A o \in Operations : o # c => calls'[o] = calls[o],
         c = "post" => calls'[c].dialog = calls[c].dialog,
         c = "post" /\ calls'[c].answer = "ok" => missed' \/ Due',
         UNCHANGED <<dialogId, connection, form, switching, shown, sources,
                     missed>>
  PROVE  Clear'
<1>1. Streaming' /\ Story'
  BY StreamingStays, StoryStays DEF Clear, form
<1>2. Awaited'
  BY DEF Clear, Awaited, NoCall, form, Operations
<1>3. (processing => missed \/ Due)'
  BY DueStays DEF Clear, Owed, form, sources
<1>4. Owed'
  <2>1. CASE c = "post"
    BY <1>3, <2>1 DEF Owed
  <2>2. CASE c # "post"
    BY <2>2, OwedStays DEF Clear, form, sources, Operations
  <2> QED
    BY <2>1, <2>2
<1> QED
  BY <1>1, <1>2, <1>4 DEF Clear

LEMMA AnsweredKeeps ==
  ASSUME Typed, Clear, NEW c \in Operations, RunsGo,
         calls[c] # NoCall, NEW answer, Answered(c, answer),
         c = "post" /\ answer = "ok" => missed' \/ Due',
         UNCHANGED <<dialogId, connection, form, switching, shown, sources,
                     missed>>
  PROVE  Clear'
<1>1. /\ \A o \in Operations : o # c => calls'[o] = calls[o]
      /\ calls'[c] = [dialog |-> calls[c].dialog, answer |-> answer]
  BY AnsweredChanges DEF Typed, CallsTyped, AllTyped
<1>2. calls'[c].dialog = calls[c].dialog /\ calls'[c].answer = answer
  BY <1>1
<1> QED
  BY <1>1, <1>2, AnswerKeeps

LEMMA ServeKeeps ==
  ASSUME Typed, Clear, NEW c \in Operations, Serve(c)
  PROVE  Clear'
<1>1. calls[c] # NoCall /\ calls[c] \in CallTypes
  BY DEF Serve, Sent, NoCall, Typed, CallsTyped, AllTyped
<1>2. UNCHANGED <<dialogId, connection, form, switching, shown, sources,
                  missed>>
  BY DEF Serve, pageVars
<1>3. CASE \E answer \in {"ok", "failed"} : Serves(c, answer)
  <2>1. PICK answer \in {"ok", "failed"} : Serves(c, answer)
    BY <1>3
  <2>2. RunsGo
    BY <2>1, ServesRuns
  <2>3. CASE ServeCreate(c, answer)
    <3>1. \A o \in Operations : o # c => calls'[o] = calls[o]
      BY <2>3 DEF ServeCreate, Typed, CallsTyped, AllTyped
    <3> QED
      BY <1>1, <1>2, <2>2, <2>3, <3>1, AnswerKeeps DEF ServeCreate
  <2>4. CASE ServeOpen(c, answer) \/ ServeDelete(c, answer)
    <3>1. c # "post" /\ \E a : Answered(c, a)
      BY <2>4 DEF ServeOpen, ServeDelete
    <3> QED
      BY <1>1, <1>2, <2>2, <3>1, AnsweredKeeps
  <2>5. CASE ServePost(c, answer)
    <3>1. CASE Answered(c, "failed")
      BY <1>1, <1>2, <2>2, <3>1, AnsweredKeeps
    <3>2. CASE /\ calls[c].dialog \in StoredDialogs
               /\ runs' = [runs EXCEPT ![calls[c].dialog] = @ + 1]
               /\ Answered(c, answer)
      <4>1. c = "post" /\ calls[c].dialog = dialogId /\ dialogId # None
        BY <1>1, <2>5 DEF ServePost, Clear, Awaited
      <4>2. runs'[dialogId] > 0
        BY <3>2, <4>1 DEF StoredDialogs, Typed, ServerTyped
      <4>3. Due'
        BY <1>2, <4>1, <4>2 DEF Due
      <4> QED
        BY <1>1, <1>2, <2>2, <3>2, <4>3, AnsweredKeeps
    <3> QED
      BY <2>5, <3>1, <3>2 DEF ServePost
  <2> QED
    BY <2>1, <2>3, <2>4, <2>5 DEF Serves
<1>4. CASE \E answer \in {"failed", "unauthorized", "expired"} :
             Answered(c, answer) /\ UNCHANGED server
  BY <1>1, <1>2, <1>4, AnsweredKeeps, NothingRuns
<1> QED
  BY <1>3, <1>4 DEF Serve

LEMMA RenewsKeeps ==
  ASSUME Typed, Clear, NEW c \in Operations, Renews(c)
  PROVE  Clear'
<1>1. calls[c] # NoCall /\ calls[c] \in CallTypes
  BY DEF Renews, NoCall, Typed, CallsTyped, AllTyped
<1>2. UNCHANGED <<dialogId, connection, form, switching, shown, sources,
                  missed>> /\ RunsGo
  BY NothingRuns DEF Renews, pageVars, history
<1>3. CASE Answered(c, "expired") \/ Answered(c, "failed")
  BY <1>1, <1>2, <1>3, AnsweredKeeps
<1>4. CASE calls' = [calls EXCEPT ![c].answer = "resent",
                       ![c].dialog = IF c = "post" THEN dialogId ELSE @]
  <2>1. \A o \in Operations : o # c => calls'[o] = calls[o]
    BY <1>4 DEF Typed, CallsTyped, AllTyped
  <2>2. c = "post" => calls[c].dialog = dialogId
    BY <1>1 DEF Clear, Awaited
  <2>3. calls'[c] = [dialog |-> IF c = "post" THEN dialogId ELSE calls[c].dialog,
                     answer |-> "resent"]
    <3>1. [calls[c] EXCEPT !.answer = "resent"]
            = [dialog |-> calls[c].dialog, answer |-> "resent"]
      BY <1>1 DEF CallTypes
    <3>2. [[dialog |-> calls[c].dialog, answer |-> "resent"] EXCEPT !.dialog =
             IF c = "post" THEN dialogId ELSE @]
            = [dialog |-> IF c = "post" THEN dialogId ELSE calls[c].dialog,
               answer |-> "resent"]
      OBVIOUS
    <3> QED
      BY <1>4, <3>1, <3>2 DEF Typed, CallsTyped, AllTyped
  <2> QED
    BY <1>1, <1>2, <2>1, <2>2, <2>3, AnswerKeeps
<1> QED
  BY <1>3, <1>4 DEF Renews

LEMMA CreateOkKeeps ==
  ASSUME Typed, Clear, NEW c \in Operations, CreateOk(c)
  PROVE  Clear'
<1>1. c = "create" /\ calls[c] # NoCall /\ calls[c].dialog \in Dialogs
  BY DEF CreateOk, Continues, NoCall, Typed, CallsTyped, AllTyped, CallTyped
<1>2. /\ dialogId = None /\ connection = 0 /\ ~processing
      /\ calls["open"] = NoCall /\ calls["post"] = NoCall
  BY <1>1 DEF Clear, Awaited, Story
<1>3. \A s \in Sources : sourceState[s] = "closed"
  BY <1>2, OthersAreClosed DEF Clear, Sources
<1>4. Connects(calls[c].dialog, 0) /\ dialogId' = calls[c].dialog
  BY DEF CreateOk
<1>5. Streaming'
  BY <1>1, <1>3, <1>4, ConnectsToStory DEF Clear
<1>6. \A o \in Operations : calls'[o] = IF o = c THEN NoCall ELSE calls[o]
  BY DEF CreateOk, Without, Typed, CallsTyped, AllTyped
<1>7. UNCHANGED <<form, shown, missed>>
  BY DEF CreateOk, history
<1>8. Story'
  <2>1. shown = {}
    BY <1>2 DEF Clear, Story, Typed, PageTyped
  <2>2. Of(pending, dialogId')
    BY <1>2, EventsOfAStory DEF Clear, Story, Typed, FormTyped
  <2> QED
    BY <1>1, <1>2, <1>4, <1>7, <2>1, <2>2 DEF Story, form
<1>9. Awaited'
  BY <1>1, <1>2, <1>6 DEF Awaited, Operations, NoCall
<1>10. Owed'
  BY <1>1, <1>2, <1>6, <1>7 DEF Owed, Operations, NoCall, form
<1> QED
  BY <1>5, <1>8, <1>9, <1>10 DEF Clear

LEMMA CreateFailedKeeps ==
  ASSUME Typed, Clear, NEW c \in Operations, CreateFailed(c)
  PROVE  Clear'
<1>1. c = "create" /\ calls[c] # NoCall
  BY DEF CreateFailed, Continues, NoCall
<1>2. /\ dialogId = None /\ ~processing
      /\ calls["open"] = NoCall /\ calls["post"] = NoCall
  BY <1>1 DEF Clear, Awaited, Story
<1>3. /\ UNCHANGED <<dialogId, connection, form, shown, sources, server,
                     missed>>
  BY <1>2 DEF CreateFailed, history
<1>4. \A o \in Operations : calls'[o] = IF o = c THEN NoCall ELSE calls[o]
  BY DEF CreateFailed, Without, Typed, CallsTyped, AllTyped
<1>5. Streaming' /\ Story'
  BY <1>3, StreamingStays, StoryStays, NothingRuns DEF Clear, form
<1>6. Awaited'
  BY <1>1, <1>2, <1>4 DEF Awaited, Operations, NoCall
<1>7. Owed'
  BY <1>1, <1>2, <1>3, <1>4 DEF Owed, Operations, NoCall, form
<1> QED
  BY <1>5, <1>6, <1>7 DEF Clear

LEMMA OpenOkKeeps ==
  ASSUME Typed, Clear, NEW c \in Operations, OpenOk(c)
  PROVE  Clear'
<1>1. c = "open" /\ calls[c] # NoCall /\ calls[c].dialog \in Dialogs
  BY DEF OpenOk, Continues, NoCall, Typed, CallsTyped, AllTyped, CallTyped
<1>2. calls["create"] = NoCall /\ calls["post"] = NoCall
  BY <1>1 DEF Clear, Awaited
<1>3. Connects(calls[c].dialog, connection) /\ dialogId' = calls[c].dialog
  BY DEF OpenOk
<1>4. Streaming'
  BY <1>1, <1>3, ConnectsToStory DEF Clear
<1>5. \A o \in Operations : calls'[o] = IF o = c THEN NoCall ELSE calls[o]
  BY DEF OpenOk, Without, Typed, CallsTyped, AllTyped
<1>6. ~processing' /\ ~submitting' /\ pending' = <<>> /\ shown' = {dialogId'}
  BY DEF OpenOk, LeavesForm
<1>7. Story'
  BY <1>1, <1>3, <1>6, NoEvents DEF Story
<1>8. Awaited'
  BY <1>1, <1>2, <1>5 DEF Awaited, Operations, NoCall
<1>9. Owed'
  BY <1>1, <1>2, <1>5, <1>6 DEF Owed, Operations, NoCall
<1> QED
  BY <1>4, <1>7, <1>8, <1>9 DEF Clear

LEMMA OpenFailedKeeps ==
  ASSUME Typed, Clear, NEW c \in Operations, OpenFailed(c)
  PROVE  Clear'
<1>1. c = "open" /\ calls[c] # NoCall
  BY DEF OpenFailed, Continues, NoCall
<1>2. calls["create"] = NoCall /\ calls["post"] = NoCall
  BY <1>1 DEF Clear, Awaited
<1>3. UNCHANGED <<dialogId, connection, form, shown, sources, server, missed>>
  BY DEF OpenFailed, history
<1>4. \A o \in Operations : calls'[o] = IF o = c THEN NoCall ELSE calls[o]
  BY DEF OpenFailed, Without, Typed, CallsTyped, AllTyped
<1>5. Streaming' /\ Story'
  BY <1>3, StreamingStays, StoryStays, NothingRuns DEF Clear, form
<1>6. Awaited'
  BY <1>1, <1>2, <1>4 DEF Awaited, Operations, NoCall
<1>7. calls'["post"] = calls["post"]
  BY <1>1, <1>4 DEF Operations
<1>8. Owed'
  BY <1>3, <1>7, OwedStays, NothingRuns DEF Clear, form, sources
<1> QED
  BY <1>5, <1>6, <1>8 DEF Clear

(* The form is locked after a request only while its answer is due: this   *)
(* is what the order of the replay is for.                                 *)
LEMMA PostOkKeeps ==
  ASSUME Typed, Clear, NEW c \in Operations, PostOk(c)
  PROVE  Clear'
<1>1. c = "post" /\ calls[c] # NoCall
  BY DEF PostOk, Continues, NoCall
<1>2. /\ calls["create"] = NoCall /\ calls["open"] = NoCall
      /\ dialogId # None /\ calls[c].dialog = dialogId
  BY <1>1 DEF Clear, Awaited
<1>3. UNCHANGED <<dialogId, connection, switching, sources, server, missed>>
  BY DEF PostOk, history
<1>4. \A o \in Operations : calls'[o] = IF o = c THEN NoCall ELSE calls[o]
  BY DEF PostOk, Without, Typed, CallsTyped, AllTyped
<1>5. /\ ~submitting' /\ pending' = <<>> /\ processing' = ~LastIsOver(pending)
      /\ shown' = shown \cup {calls[c].dialog} \cup Texts(pending)
  BY DEF PostOk
<1>6. Streaming'
  BY <1>3, StreamingStays, NothingRuns DEF Clear
<1>7. Story'
  <2>1. Texts(pending) \subseteq {dialogId}
    BY EventsOfAStory DEF Clear, Story, Typed, FormTyped
  <2>2. shown' \subseteq {dialogId'}
    BY <1>2, <1>3, <1>5, <2>1 DEF Clear, Story
  <2>3. Of(pending, dialogId)'
    BY <1>5, NoEvents
  <2> QED
    BY <1>2, <1>3, <1>5, <2>2, <2>3 DEF Story
<1>8. Awaited'
  BY <1>1, <1>2, <1>4 DEF Awaited, Operations, NoCall
<1>9. Owed'
  <2>1. missed \/ Due \/ LastIsOver(pending)
    BY <1>1 DEF Clear, Owed, PostOk
  <2>2. Due => Due'
    BY <1>3, DueStays, NothingRuns DEF sources
  <2>3. calls'["post"].answer # "ok"
    BY <1>1, <1>4 DEF NoCall
  <2>4. processing' => missed' \/ Due'
    <3>1. CASE LastIsOver(pending)
      BY <1>5, <3>1
    <3>2. CASE ~LastIsOver(pending)
      BY <1>3, <2>1, <2>2, <3>2
    <3> QED
      BY <3>1, <3>2
  <2> QED
    BY <2>3, <2>4 DEF Owed
<1> QED
  BY <1>6, <1>7, <1>8, <1>9 DEF Clear

LEMMA PostFailedKeeps ==
  ASSUME Typed, Clear, NEW c \in Operations, PostFailed(c)
  PROVE  Clear'
<1>1. c = "post" /\ calls[c] # NoCall
  BY DEF PostFailed, Continues, NoCall
<1>2. calls["create"] = NoCall /\ calls["open"] = NoCall /\ ~processing
  BY <1>1 DEF Clear, Awaited, Story
<1>3. UNCHANGED <<dialogId, connection, processing, switching, shown, sources,
                  server, missed>>
  BY DEF PostFailed, history
<1>4. \A o \in Operations : calls'[o] = IF o = c THEN NoCall ELSE calls[o]
  BY DEF PostFailed, Without, Typed, CallsTyped, AllTyped
<1>5. ~submitting' /\ pending' = <<>>
  BY DEF PostFailed
<1>6. Streaming'
  BY <1>3, StreamingStays, NothingRuns DEF Clear
<1>7. Story'
  BY <1>3, <1>5, NoEvents DEF Clear, Story
<1>8. Awaited'
  BY <1>1, <1>2, <1>4 DEF Awaited, Operations, NoCall
<1>9. Owed'
  BY <1>1, <1>2, <1>3, <1>4 DEF Owed, NoCall
<1> QED
  BY <1>6, <1>7, <1>8, <1>9 DEF Clear

(* A run publishes a text while it is owed, and its end at last.           *)
LEMMA PublishesKeeps ==
  ASSUME Typed, Clear, NEW d \in Dialogs, NEW type \in {"text", "over"},
         Publishes(d, type),
         UNCHANGED <<dialogId, connection, sourceDialog, sourceState>>,
         \A e \in Dialogs : e # d => runs'[e] = runs[e],
         type = "text" => runs'[d] > 0
  PROVE  /\ Streaming'
         /\ \A s \in Sources :
              HasOver(sourceQueue[s]) => HasOver(sourceQueue'[s])
         /\ type = "over" => \A s \in Streams(d) : HasOver(sourceQueue'[s])
<1> DEFINE e == [type |-> type, dialog |-> d]
<1>1. e \in Events /\ e.type = type /\ e.dialog = d
  BY DEF Events
<1>2. \A s \in Sources : sourceQueue'[s] =
        IF s \in Streams(d) THEN Append(sourceQueue[s], e) ELSE sourceQueue[s]
  BY DEF Publishes
<1> HIDE DEF e
<1>3. ASSUME NEW s \in Sources
      PROVE  /\ HasOver(sourceQueue[s]) => HasOver(sourceQueue'[s])
             /\ type = "over" /\ s \in Streams(d) => HasOver(sourceQueue'[s])
  <2>1. sourceQueue[s] \in Seq(Events)
    BY DEF Typed, SourcesTyped
  <2> QED
    BY <1>1, <1>2, <2>1, AppendEvent
<1>4. ASSUME NEW s \in Sources PROVE StreamsStory(s)'
  <2>1. sourceQueue[s] \in Seq(Events) /\ StreamsStory(s)
    BY DEF Typed, SourcesTyped, Clear, Streaming
  <2>2. CASE s \in Streams(d)
    <3>1. /\ sourceState[s] = "open" /\ sourceDialog[s] = d
          /\ sourceQueue'[s] = Append(sourceQueue[s], e)
      BY <1>2, <2>2 DEF Streams
    <3>2. Of(sourceQueue'[s], d)
      BY <1>1, <2>1, <3>1, AppendEvent DEF StreamsStory
    <3>3. FollowedUp(sourceQueue'[s], runs'[d])
      BY <1>1, <2>1, <3>1, AppendEvent, MoreIsOwed
    <3> QED
      BY <2>1, <3>1, <3>2, <3>3 DEF StreamsStory
  <2>3. CASE s \notin Streams(d) /\ sourceDialog[s] = d
    <3>1. sourceQueue'[s] = <<>>
      BY <1>2, <2>1, <2>3 DEF Streams, StreamsStory
    <3> QED
      BY <2>1, <3>1, NoEvents DEF StreamsStory
  <2>4. CASE sourceDialog[s] # d
    <3>1. sourceQueue'[s] = sourceQueue[s]
      BY <1>2, <2>4 DEF Streams
    <3> QED
      BY <2>1, <2>4, <3>1 DEF StreamsStory
  <2> QED
    BY <2>2, <2>3, <2>4
<1> QED
  BY <1>3, <1>4 DEF Streaming, Streams, Sources

LEMMA RunSpeaksKeeps ==
  ASSUME Typed, Clear, NEW d \in Dialogs, RunSpeaks(d)
  PROVE  Clear'
<1>1. UNCHANGED <<pageVars, calls, sourceDialog, sourceState, runs, missed>>
        /\ runs'[d] > 0 /\ Publishes(d, "text")
  BY DEF RunSpeaks, history
<1>2. /\ Streaming'
      /\ \A s \in Sources :
           HasOver(sourceQueue[s]) => HasOver(sourceQueue'[s])
  BY <1>1, PublishesKeeps DEF pageVars
<1>3. Story' /\ Awaited'
  BY <1>1, StoryStays, AwaitedStays DEF Clear, pageVars, form
<1>4. Due => Due'
  BY <1>1, <1>2 DEF Due, pageVars, Typed, PageTyped, Sources
<1>5. Owed'
  BY <1>1, <1>4 DEF Clear, Owed, pageVars, form
<1> QED
  BY <1>2, <1>3, <1>5 DEF Clear

LEMMA RunEndsKeeps ==
  ASSUME Typed, Clear, NEW d \in Dialogs, RunEnds(d)
  PROVE  Clear'
<1>1. /\ UNCHANGED <<pageVars, calls, sourceDialog, sourceState>>
      /\ runs' = [runs EXCEPT ![d] = @ - 1] /\ Publishes(d, "over")
      /\ missed' = (missed \/ (d = dialogId /\ connection \notin Streams(d)))
  BY DEF RunEnds
<1>2. \A e \in Dialogs : e # d => runs'[e] = runs[e]
  BY <1>1 DEF Typed, ServerTyped
<1>3. /\ Streaming'
      /\ \A s \in Sources :
           HasOver(sourceQueue[s]) => HasOver(sourceQueue'[s])
      /\ \A s \in Streams(d) : HasOver(sourceQueue'[s])
  BY <1>1, <1>2, PublishesKeeps DEF pageVars
<1>4. Story' /\ Awaited'
  BY <1>1, StoryStays, AwaitedStays DEF Clear, pageVars, form
<1>5. missed \/ Due => missed' \/ Due'
  <2>1. CASE missed
    BY <1>1, <2>1
  <2>2. CASE Due /\ dialogId # d
    BY <1>1, <1>2, <1>3, <2>2 DEF Due, pageVars, Typed, PageTyped, Sources
  <2>3. CASE Due /\ dialogId = d /\ connection \in Streams(d)
    BY <1>1, <1>3, <2>3 DEF Due, pageVars, Streams, Sources
  <2>4. CASE Due /\ dialogId = d /\ connection \notin Streams(d)
    BY <1>1, <2>4
  <2> QED
    BY <2>1, <2>2, <2>3, <2>4
<1>6. Owed'
  BY <1>1, <1>5 DEF Clear, Owed, pageVars, form
<1> QED
  BY <1>3, <1>4, <1>6 DEF Clear

LEMMA OtherTabKeeps ==
  ASSUME Typed, Clear, NEW d \in Dialogs, OtherTab(d)
  PROVE  Clear'
<1>1. RunsGo
  BY DEF OtherTab, RunsGo, Typed, ServerTyped
<1>2. UNCHANGED <<pageVars, calls, sources, missed>>
  BY DEF OtherTab
<1> QED
  BY <1>1, <1>2, StreamingStays, StoryStays, AwaitedStays, OwedStays
  DEF Clear, pageVars, form, sources

LEMMA AcceptKeeps ==
  ASSUME Typed, Clear, NEW s \in Sources, Accept(s)
  PROVE  Clear'
<1> DEFINE hello == [type |-> "ready", dialog |-> sourceDialog[s]]
<1>1. UNCHANGED <<pageVars, calls, sourceDialog, server, missed>>
        /\ sourceDialog[s] \in Dialogs
  BY DEF Accept, history, StoredDialogs
<1>2. hello \in Events /\ hello.type = "ready" /\ hello.dialog = sourceDialog[s]
  BY <1>1 DEF Events
<1>3. \A u \in Sources :
        /\ sourceState'[u] = IF u = s THEN "open" ELSE sourceState[u]
        /\ sourceQueue'[u] = IF u = s THEN <<hello>> ELSE sourceQueue[u]
  BY DEF Accept, Typed, SourcesTyped
<1> HIDE DEF hello
<1>4. sourceState[s] = "connecting" /\ StreamsStory(s)
  BY DEF Accept, Clear, Streaming
<1>5. ASSUME NEW u \in Sources PROVE StreamsStory(u)'
  <2>1. CASE u = s
    <3>1. sourceQueue'[u] = <<hello>> /\ sourceState'[u] = "open"
      BY <1>3, <2>1
    <3>2. Of(<<hello>>, sourceDialog[s])
            /\ FollowedUp(<<hello>>, runs[sourceDialog[s]])
      BY <1>2, OneEvent
    <3> QED
      BY <1>1, <1>4, <2>1, <3>1, <3>2 DEF StreamsStory, pageVars, server
  <2>2. CASE u # s
    <3>1. StreamsStory(u)
      BY DEF Clear, Streaming
    <3> QED
      BY <1>1, <1>3, <2>2, <3>1 DEF StreamsStory, pageVars, server
  <2> QED
    BY <2>1, <2>2
<1>6. Story' /\ Awaited'
  BY <1>1, StoryStays, AwaitedStays DEF Clear, pageVars, form
<1>7. Due => Due'
  <2>1. connection = s => ~HasOver(sourceQueue[connection])
    BY <1>4, NoEvents DEF StreamsStory
  <2> QED
    BY <1>1, <1>3, <2>1
    DEF Due, pageVars, server, Typed, PageTyped, Sources
<1>8. Owed'
  BY <1>1, <1>7 DEF Clear, Owed, pageVars, form
<1> QED
  BY <1>5, <1>6, <1>8 DEF Clear, Streaming, Sources

(* What a broken stream still carried is lost, and noted when it was the   *)
(* end of a run.                                                           *)
LEMMA BreaksKeeps ==
  ASSUME Typed, Clear, NEW s \in Sources, NEW state \in {"closed", "connecting"},
         sourceState[s] # "closed", Breaks(s, state)
  PROVE  Clear'
<1>1. /\ UNCHANGED <<dialogId, connection, processing, submitting, pending,
                     switching, shown, calls, sourceDialog, server>>
      /\ missed' = (missed \/ (s = connection /\ HasOver(sourceQueue[s])))
  BY DEF Breaks, HandlesError, Overs, HasOver
<1>2. \A u \in Sources :
        /\ sourceState'[u] = IF u = s THEN state ELSE sourceState[u]
        /\ sourceQueue'[u] = IF u = s THEN <<>> ELSE sourceQueue[u]
  BY DEF Breaks, Typed, SourcesTyped
<1>3. ASSUME NEW u \in Sources PROVE StreamsStory(u)'
  <2>1. StreamsStory(u)
    BY DEF Clear, Streaming
  <2>2. CASE u = s
    <3>1. sourceQueue'[u] = <<>>
      BY <1>2, <2>2
    <3> QED
      BY <1>1, <1>2, <2>1, <2>2, <3>1, NoEvents DEF StreamsStory
  <2>3. CASE u # s
    BY <1>1, <1>2, <2>1, <2>3 DEF StreamsStory, server
  <2> QED
    BY <2>2, <2>3
<1>4. Story' /\ Awaited'
  BY <1>1, StoryStays, AwaitedStays DEF Clear
<1>5. missed \/ Due => missed' \/ Due'
  <2>1. CASE missed \/ (s = connection /\ HasOver(sourceQueue[s]))
    BY <1>1, <2>1
  <2>2. CASE Due /\ ~(s = connection /\ HasOver(sourceQueue[s]))
    BY <1>1, <1>2, <2>2 DEF Due, server, Typed, PageTyped, Sources
  <2> QED
    BY <2>1, <2>2
<1>6. Owed'
  BY <1>1, <1>5 DEF Clear, Owed
<1> QED
  BY <1>3, <1>4, <1>6 DEF Clear, Streaming, Sources

(* An event is buffered or applied.  A text locks the form, and the end of *)
(* its run is behind it in the stream or the run is not over.              *)
LEMMA DispatchKeeps ==
  ASSUME Typed, Clear, NEW s \in Sources, Dispatch(s)
  PROVE  Clear'
<1> DEFINE event == Head(sourceQueue[s])
           rest == Tail(sourceQueue[s])
<1>1. /\ sourceQueue[s] \in Seq(Events) /\ sourceQueue[s] # <<>>
      /\ sourceState[s] = "open" /\ StreamsStory(s)
  BY DEF Dispatch, Typed, SourcesTyped, Clear, Streaming
<1>2. s = connection /\ sourceDialog[s] = dialogId
  BY <1>1 DEF StreamsStory
<1>3. /\ event \in Events /\ rest \in Seq(Events)
      /\ HasOver(sourceQueue[s]) <=> event.type = "over" \/ HasOver(rest)
      /\ event.dialog = dialogId /\ Of(rest, dialogId)
  BY <1>1, <1>2, NextEvent DEF StreamsStory
<1>4. dialogId \in Dialogs
  BY <1>3 DEF Events
<1>5. /\ FollowedUp(rest, runs[dialogId])
      /\ event.type = "text" => runs[dialogId] > 0 \/ HasOver(rest)
  BY <1>1, <1>2, <1>4, NextEvent DEF StreamsStory
<1>6. UNCHANGED <<dialogId, connection, switching, calls, sourceDialog,
                  sourceState, server>>
  BY DEF Dispatch
<1>7. \A u \in Sources :
        sourceQueue'[u] = IF u = s THEN rest ELSE sourceQueue[u]
  BY DEF Dispatch, Typed, SourcesTyped
<1>8. \/ event.type = "ready" /\ ApplyReady
      \/ event.type # "ready" /\ (Buffer(event) \/ Apply(event))
  BY DEF Dispatch
<1> HIDE DEF event, rest
<1>9. Streaming'
  <2>1. ASSUME NEW u \in Sources PROVE StreamsStory(u)'
    <3>1. StreamsStory(u)
      BY DEF Clear, Streaming
    <3>2. CASE u = s
      <4>1. sourceQueue'[u] = rest
        BY <1>7, <3>2
      <4> QED
        BY <1>1, <1>2, <1>3, <1>5, <1>6, <3>2, <4>1 DEF StreamsStory, server
    <3>3. CASE u # s
      BY <1>6, <1>7, <3>1, <3>3 DEF StreamsStory, server
    <3> QED
      BY <3>2, <3>3
  <2> QED
    BY <2>1 DEF Streaming, Sources
<1>10. sourceQueue'[connection'] = rest /\ connection' # 0
         /\ runs'[dialogId'] = runs[dialogId] /\ dialogId' # None
  BY <1>2, <1>4, <1>6, <1>7 DEF server, Sources
<1>11. Due' <=> runs[dialogId] > 0 \/ HasOver(rest)
  BY <1>10 DEF Due
<1>12. Due /\ event.type # "over" => Due'
  BY <1>2, <1>3, <1>11 DEF Due
<1>13. calls["post"].answer = "ok" => submitting
  BY DEF Clear, Awaited, NoCall
<1>14. CASE event.type = "ready" /\ ApplyReady
  <2>1. UNCHANGED <<processing, submitting, pending, shown, missed>>
    BY <1>14 DEF ApplyReady
  <2>2. Story' /\ Awaited'
    BY <1>6, <2>1, StoryStays, AwaitedStays DEF Clear
  <2>3. Owed'
    BY <1>6, <1>12, <1>14, <2>1 DEF Clear, Owed
  <2> QED
    BY <1>9, <2>2, <2>3 DEF Clear
<1>15. CASE event.type # "ready" /\ Buffer(event)
  <2>1. /\ submitting /\ ~processing /\ pending' = Append(pending, event)
        /\ UNCHANGED <<processing, submitting, shown, missed>>
    BY <1>15 DEF Buffer, Clear, Story
  <2>2. pending \in Seq(Events)
    BY DEF Typed, FormTyped
  <2>3. Of(pending', dialogId) /\ (LastIsOver(pending') <=> event.type = "over")
    BY <1>3, <2>1, <2>2, AppendEvent DEF Clear, Story
  <2>4. Story' /\ Awaited'
    BY <1>4, <1>6, <2>1, <2>3, AwaitedStays DEF Clear, Story
  <2>5. Due' \/ LastIsOver(pending')
    BY <1>3, <1>5, <1>11, <1>15, <2>3 DEF Events
  <2>6. Owed'
    BY <2>1, <2>5 DEF Owed
  <2> QED
    BY <1>9, <2>4, <2>6 DEF Clear
<1>16. CASE event.type # "ready" /\ Apply(event)
  <2>1. /\ ~submitting /\ processing' = (event.type = "text")
        /\ shown' = shown \cup Texts(<<event>>)
        /\ UNCHANGED <<submitting, pending>>
    BY <1>16 DEF Apply
  <2>2. Texts(<<event>>) \subseteq {dialogId}
    BY <1>3, OneEvent, EventsOfAStory
  <2>3. shown' \subseteq {dialogId'}
    BY <1>6, <2>1, <2>2 DEF Clear, Story
  <2>4. Story'
    BY <1>4, <1>6, <2>1, <2>3 DEF Clear, Story
  <2>5. Awaited'
    BY <1>6, <2>1, AwaitedStays DEF Clear
  <2>6. processing' => Due'
    BY <1>5, <1>11, <2>1
  <2>7. Owed'
    BY <1>6, <1>13, <2>1, <2>6 DEF Owed
  <2> QED
    BY <1>9, <2>4, <2>5, <2>7 DEF Clear
<1> QED
  BY <1>8, <1>14, <1>15, <1>16

LEMMA VerifiedKeeps ==
  ASSUME Typed, Clear, Verified, Followed'
  PROVE  Clear'
<1>1. UNCHANGED <<calls, server, missed>>
  BY DEF Verified
<1>2. CASE /\ Reopens /\ Connects(dialogId, 0)
           /\ UNCHANGED <<dialogId, form, switching, shown>>
  <2>1. connection # 0 /\ sourceState[connection] = "closed"
    BY <1>2 DEF Reopens
  <2>2. \A s \in Sources : sourceState[s] = "closed" /\ sourceQueue[s] = <<>>
    BY <2>1, OthersAreClosed DEF Clear, Streaming, StreamsStory
  <2>3. dialogId \in Dialogs \cup {None}
    BY DEF Typed, PageTyped
  <2>4. Streaming' /\ connection' # 0
    BY <1>2, <2>2, <2>3, ConnectsToStory DEF Clear
  <2>5. dialogId # None
    BY <2>1 DEF Clear, Story
  <2>6. Story'
    BY <1>2, <2>5 DEF Clear, Story, form
  <2>7. Awaited'
    BY <1>1, <1>2, AwaitedStays DEF Clear, form
  <2>8. ~HasOver(sourceQueue[connection])
    BY <2>1, <2>2, NoEvents DEF Typed, PageTyped, Sources
  <2>9. Due => Due'
    BY <1>1, <1>2, <2>8 DEF Due, server
  <2>10. Owed'
    BY <1>1, <1>2, <2>9 DEF Clear, Owed, form
  <2> QED
    BY <2>4, <2>6, <2>7, <2>10 DEF Clear
<1>3. CASE UNCHANGED <<page, dialogId, connection, form, switching, timer,
                       reopened, deletingId, shown, sources>>
  BY <1>1, <1>3, StreamingStays, StoryStays, AwaitedStays, OwedStays,
     NothingRuns DEF Clear, form, sources
<1> QED
  BY <1>2, <1>3 DEF Verified, Redirect, Followed

LEMMA StutterKeeps ==
  ASSUME Typed, Clear, UNCHANGED vars
  PROVE  Clear'
BY StreamingStays, StoryStays, AwaitedStays, OwedStays, NothingRuns
DEF Clear, vars, pageVars, form, sources, history

(* Neither an overlap nor a page that was left is forgotten.               *)
LEMMA FollowedBefore ==
  ASSUME Next, Followed'
  PROVE  Followed
<1>1. tangled => tangled'
  BY DEF Next, Start, NewStory, TimerFires, Submit, Verified, Open, Delete,
         RunSpeaks, RunEnds, OtherTab, Serve, Continuation, CreateOk,
         CreateFailed, OpenOk, OpenFailed, DeleteOk, DeleteFailed, PostOk,
         PostFailed, Renews, GoesToLogin, Accept, Refuse, Lose, StreamEnds,
         Breaks, Dispatch, BeginsCreate, history
<1>2. page = "left" => page' = "left"
  BY DEF Next, Start, NewStory, TimerFires, Submit, Verified, Open, Delete,
         RunSpeaks, RunEnds, OtherTab, Serve, Continuation, CreateOk,
         CreateFailed, OpenOk, OpenFailed, DeleteOk, DeleteFailed, PostOk,
         PostFailed, Renews, GoesToLogin, Accept, Refuse, Lose, StreamEnds,
         Breaks, Dispatch, HandlesError, Redirect, Continues, pageVars
<1> QED
  BY <1>1, <1>2 DEF Followed

LEMMA NextOrderly == Typed /\ Orderly /\ [Next]_vars => Orderly'
<1> SUFFICES ASSUME Typed, Orderly, [Next]_vars, Followed' PROVE Clear'
  BY DEF Orderly
<1>1. Followed
  BY FollowedBefore DEF Followed, vars, pageVars, history
<1>2. Clear
  BY <1>1 DEF Orderly
<1>3. CASE Start \/ NewStory \/ TimerFires \/ Submit \/ Verified
  BY <1>2, <1>3, StartKeeps, NewStoryKeeps, TimerFiresKeeps, SubmitKeeps,
     VerifiedKeeps
<1>4. ASSUME NEW d \in Dialogs,
             Open(d) \/ Delete(d) \/ RunSpeaks(d) \/ RunEnds(d) \/ OtherTab(d)
      PROVE  Clear'
  BY <1>2, <1>4, OpenKeeps, DeleteKeeps, RunSpeaksKeeps, RunEndsKeeps,
     OtherTabKeeps
<1>5. ASSUME NEW c \in Operations, Serve(c) PROVE Clear'
  BY <1>2, <1>5, ServeKeeps
<1>6. ASSUME NEW c \in Operations, Continuation(c) PROVE Clear'
  BY <1>2, <1>6, CreateOkKeeps, CreateFailedKeeps, OpenOkKeeps,
     OpenFailedKeeps, DeleteOkKeeps, DeleteFailedKeeps, PostOkKeeps,
     PostFailedKeeps, RenewsKeeps
  DEF Continuation, GoesToLogin, Redirect, Followed
<1>7. ASSUME NEW s \in Sources,
             Accept(s) \/ Refuse(s) \/ Lose(s) \/ StreamEnds(s) \/ Dispatch(s)
      PROVE  Clear'
  BY <1>2, <1>7, AcceptKeeps, BreaksKeeps, DispatchKeeps
  DEF Refuse, Lose, StreamEnds
<1>8. CASE UNCHANGED vars
  BY <1>2, <1>8, StutterKeeps
<1> QED
  BY <1>3, <1>4, <1>5, <1>6, <1>7, <1>8 DEF Next

LEMMA AlwaysOrderly == Spec => []Orderly
<1>1. Init => Typed /\ Orderly
  BY InitTyped, InitOrderly
<1>2. (Typed /\ Orderly) /\ [Next]_vars => (Typed /\ Orderly)'
  BY NextTypes, NextOrderly
<1> QED
  BY <1>1, <1>2, PTL DEF Spec

(* Whatever overlaps of clicks, calls, timers, checks of the session and   *)
(* events of streams there are: what the page shows is of the story it     *)
(* sends requests to and listens to, and a request in flight is for that   *)
(* story, unless createDialog() began during another operation.            *)
THEOREM StoriesAreNotMixed == Spec => []OneStory
<1>1. Orderly => OneStory
  <2>1. SUFFICES ASSUME Orderly, ~tangled, page = "open"
                 PROVE  ShownIsAddressed /\ PostsToShown
    BY DEF OneStory, ShownIsAddressed, PostsToShown
  <2>2. Clear
    BY <2>1 DEF Orderly, Followed
  <2> QED
    BY <2>2 DEF Clear, Streaming, StreamsStory, Story, Awaited,
                ShownIsAddressed, PostsToShown
<1> QED
  BY <1>1, AlwaysOrderly, PTL

(* A form locked by an answer is unlocked by an event that is on its way   *)
(* or by the end of a run that goes on, unless that end was lost with a    *)
(* broken stream.                                                          *)
THEOREM LockedFormIsOwedAnEnd == Spec => []LockIsOwed
<1>1. Orderly => LockIsOwed
  BY DEF Orderly, Followed, Clear, Owed, Due, HasOver, Overs, LockIsOwed
<1> QED
  BY <1>1, AlwaysOrderly, PTL

=============================================================================
