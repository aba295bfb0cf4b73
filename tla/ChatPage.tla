------------------------------ MODULE ChatPage -------------------------------
(***************************************************************************)
(* The chat page: frontend/src/script.js with agent-api.js, against the    *)
(* routes and the SSE stream of api/app.py.                                *)
(* One action is one task of the page: a click, the continuation of an     *)
(* awaited call, a timer or an event of an EventSource.  The handlers of   *)
(* a page are not told which EventSource an event comes from.  Calls and   *)
(* the session check are steps of their own: sent, answered, continued.    *)
(* Of the server there is what the page sees: dialogs, the runs accepted   *)
(* for them and the streams.  Another tab of the user may use the same     *)
(* dialogs.  "text" stands for message_start and message_delta, "over" for *)
(* message_end and message_error.                                          *)
(***************************************************************************)
EXTENDS Naturals, Sequences

CONSTANTS
  Dialogs,     (* dialog identifiers                                       *)
  Saved,       (* those stored before the page was opened                  *)
  None,        (* null                                                     *)
  MaxSources,  (* bound: EventSource objects                               *)
  MaxPosts,    (* bound: requests the server accepts                       *)
  MaxTroubles  (* bound: failed, refused or lost calls and streams, and    *)
               (* actions of another tab, together                         *)

ASSUME PageAssumption ==
  /\ Saved \subseteq Dialogs /\ None \notin Dialogs
  /\ MaxSources \in Nat /\ MaxPosts \in Nat /\ MaxTroubles \in Nat

VARIABLES
  (* The page                                                              *)
  page,        (* "starting" until signed in, then "open"; "left" when it  *)
               (* goes to the login page                                   *)
  dialogId,    (* the dialog requests are sent to                          *)
  connection,  (* its EventSource                                          *)
  ready, processing, submitting, switching,
  pending,     (* pendingEvents                                            *)
  timer,       (* what retryTimer will call                                *)
  verifying,   (* sessionCheck: {the connection it started with}, or {}    *)
  reopened,    (* reopenedSinceReady                                       *)
  deletingId,
  shown,       (* the dialogs whose texts the page shows                   *)
  calls,       (* the calls of AgentApi the page awaits, one of each       *)
               (* operation at a time (a bound)                            *)
  (* EventSource objects                                                   *)
  sourceDialog, sourceState, sourceQueue,
  (* The server                                                            *)
  stored,      (* "unused", "stored" or "gone"                             *)
  runs,        (* accepted requests that are not over                      *)
  spoken,      (* dialogs whose current run has published a text           *)
  posts,
  (* History                                                               *)
  tangled,     (* createDialog() began during another operation            *)
  missed,      (* the end of a run of this dialog never reached the page   *)
  troubles

form == <<ready, processing, submitting, pending>>
pageVars == <<page, dialogId, connection, form, switching, timer, verifying,
              reopened, deletingId, shown>>
sources == <<sourceDialog, sourceState, sourceQueue>>
server == <<stored, runs, spoken, posts>>
history == <<tangled, missed, troubles>>
vars == <<pageVars, calls, sources, server, history>>

Sources == 1..MaxSources
Events == [type : {"ready", "text", "over"}, dialog : Dialogs]
Operations == {"create", "open", "post", "delete"}
Answers == {"none", "sent", "resent", "ok", "not_found", "failed",
            "unauthorized", "expired"}
NoCall == [dialog |-> None, answer |-> "none"]

TypeOK ==
  /\ page \in {"starting", "open", "left"}
  /\ dialogId \in Dialogs \cup {None}
  /\ connection \in 0..MaxSources
  /\ {ready, processing, submitting, switching, reopened} \subseteq BOOLEAN
  /\ pending \in Seq(Events)
  /\ timer \in {"none", "start", "create"}
  /\ verifying \in {{}} \cup {{s} : s \in 0..MaxSources}
  /\ deletingId \in Dialogs \cup {None}
  /\ shown \in SUBSET Dialogs
  /\ calls \in [Operations -> [dialog : Dialogs \cup {None}, answer : Answers]]
  /\ sourceDialog \in [Sources -> Dialogs \cup {None}]
  /\ sourceState \in [Sources -> {"closed", "connecting", "open"}]
  /\ sourceQueue \in [Sources -> Seq(Events)]
  /\ stored \in [Dialogs -> {"unused", "stored", "gone"}]
  /\ runs \in [Dialogs -> 0..MaxPosts]
  /\ spoken \in SUBSET Dialogs
  /\ posts \in 0..MaxPosts
  /\ {tangled, missed} \subseteq BOOLEAN
  /\ troubles \in 0..MaxTroubles

Init ==
  /\ page = "starting"
  /\ dialogId = None /\ connection = 0
  /\ ready = FALSE /\ processing = FALSE /\ submitting = FALSE
  /\ switching = FALSE /\ pending = <<>>
  /\ timer = "none" /\ verifying = {} /\ reopened = FALSE
  /\ deletingId = None /\ shown = {}
  /\ calls = [c \in Operations |-> NoCall]
  /\ sourceDialog = [s \in Sources |-> None]
  /\ sourceState = [s \in Sources |-> "closed"]
  /\ sourceQueue = [s \in Sources |-> <<>>]
  /\ stored = [d \in Dialogs |-> IF d \in Saved THEN "stored" ELSE "unused"]
  /\ runs = [d \in Dialogs |-> 0] /\ spoken = {} /\ posts = 0
  /\ tangled = FALSE /\ missed = FALSE /\ troubles = 0

-----------------------------------------------------------------------------
(* Helpers.                                                                *)

Trouble == troubles < MaxTroubles /\ troubles' = troubles + 1
NoTrouble == UNCHANGED troubles

busy == processing \/ submitting \/ switching

Calls(op, dialog, inFlight) ==
  /\ inFlight[op] = NoCall
  /\ calls' = [inFlight EXCEPT ![op] = [dialog |-> dialog, answer |-> "sent"]]

(* connectEvents() after `closed` was closed.                              *)
FreeSources ==
  {s \in Sources : sourceState[s] = "closed" /\ s # connection
                     /\ s \notin verifying}
Connects(dialog, closed) ==
  /\ FreeSources # {}
  /\ LET s == CHOOSE free \in FreeSources : TRUE
     IN  /\ connection' = s
         /\ sourceDialog' = [u \in Sources |->
              IF u = s THEN dialog
              ELSE IF u = closed THEN None ELSE sourceDialog[u]]
         /\ sourceState' = [u \in Sources |->
              IF u = s THEN "connecting"
              ELSE IF u = closed THEN "closed" ELSE sourceState[u]]
         /\ sourceQueue' = [u \in Sources |->
              IF u = closed THEN <<>> ELSE sourceQueue[u]]

Disconnects ==
  /\ connection' = 0
  /\ sourceState' = [u \in Sources |-> IF u = connection THEN "closed"
                                                         ELSE sourceState[u]]
  /\ sourceQueue' = [u \in Sources |-> IF u = connection THEN <<>>
                                                         ELSE sourceQueue[u]]
  /\ sourceDialog' = [u \in Sources |-> IF u = connection THEN None
                                                          ELSE sourceDialog[u]]

(* leaveDialog() but for the connection.                                   *)
LeavesForm ==
  /\ ready' = FALSE /\ processing' = FALSE /\ submitting' = FALSE
  /\ pending' = <<>> /\ missed' = FALSE

Redirect ==
  /\ page' = "left" /\ timer' = "none"
  /\ sourceState' = [u \in Sources |-> IF u = connection THEN "closed"
                                                         ELSE sourceState[u]]
  /\ UNCHANGED <<dialogId, connection, form, switching, verifying, reopened,
                 deletingId, shown, sourceDialog, sourceQueue>>

-----------------------------------------------------------------------------
(* start() and createDialog().                                             *)

(* The synchronous part of createDialog(), with `inFlight` awaited besides. *)
BeginsCreate(inFlight) ==
  /\ page' = "open" /\ timer' = "none"
  /\ LeavesForm /\ Disconnects
  /\ dialogId' = None
  /\ switching' = TRUE
  /\ shown' = {}
  /\ tangled' = (tangled \/ submitting \/ switching)
  /\ Calls("create", None, inFlight)
  /\ UNCHANGED <<verifying, reopened, server>>

(* The three outcomes of checkSession().                                   *)
Start ==
  /\ page = "starting" /\ timer = "none"
  /\ \/ BeginsCreate(calls) /\ NoTrouble /\ UNCHANGED deletingId
     \/ /\ Trouble /\ Redirect
        /\ UNCHANGED <<calls, server, tangled, missed>>
     \/ /\ Trouble
        /\ timer' = "start"
        /\ UNCHANGED <<page, dialogId, connection, form, switching, verifying,
                       reopened, deletingId, shown, calls, sources, server,
                       tangled, missed>>

NewStory ==
  /\ page = "open" /\ ~busy
  /\ BeginsCreate(calls) /\ NoTrouble
  /\ UNCHANGED deletingId

TimerFires ==
  /\ page # "left"
  /\ \/ timer = "create" /\ BeginsCreate(calls) /\ NoTrouble
        /\ UNCHANGED deletingId
     \/ /\ timer = "start" /\ timer' = "none"
        /\ UNCHANGED <<page, dialogId, connection, form, switching, verifying,
                       reopened, deletingId, shown, calls, sources, server,
                       history>>

-----------------------------------------------------------------------------
(* Clicks.                                                                 *)

Submit ==
  /\ page = "open" /\ dialogId # None /\ ready /\ ~busy
  /\ posts < MaxPosts
  /\ submitting' = TRUE /\ pending' = <<>>
  /\ Calls("post", dialogId, calls)
  /\ missed' = FALSE
  /\ UNCHANGED <<page, dialogId, connection, ready, processing, switching,
                 timer, verifying, reopened, deletingId, shown, sources,
                 server, tangled, troubles>>

(* The list in the sidebar may still name a dialog that is gone.           *)
Listed == {d \in Dialogs : stored[d] # "unused"}

Open(d) ==
  /\ page = "open" /\ ~busy /\ d \in Listed /\ d # dialogId
  /\ switching' = TRUE
  /\ Calls("open", d, calls)
  /\ UNCHANGED <<page, dialogId, connection, form, timer, verifying, reopened,
                 deletingId, shown, sources, server, history>>

Delete(d) ==
  /\ page = "open" /\ ~busy /\ deletingId = None /\ d \in Listed
  /\ deletingId' = d
  /\ Calls("delete", d, calls)
  /\ UNCHANGED <<page, dialogId, connection, form, switching, timer,
                 verifying, reopened, shown, sources, server, history>>

-----------------------------------------------------------------------------
(* The server answers a call.                                              *)

UnusedDialogs == {d \in Dialogs : stored[d] = "unused"}
StoredDialogs == {d \in Dialogs : stored[d] = "stored"}
Answered(c, answer) == calls' = [calls EXCEPT ![c].answer = answer]

ServeCreate(c, answer) ==
  /\ c = "create"
  /\ \E d \in UnusedDialogs :
       /\ stored' = [stored EXCEPT ![d] = "stored"]
       /\ calls' = [calls EXCEPT ![c].answer = answer, ![c].dialog = d]
  /\ UNCHANGED <<runs, spoken, posts>>

ServeOpen(c, answer) ==
  /\ c = "open"
  /\ Answered(c, IF stored[calls[c].dialog] = "stored" THEN answer
                                                       ELSE "not_found")
  /\ UNCHANGED server

(* submitMessage() calls every refusal submit_failed.                      *)
ServePost(c, answer) ==
  /\ c = "post"
  /\ LET d == calls[c].dialog
     IN  \/ /\ d \in StoredDialogs /\ posts < MaxPosts
            /\ runs' = [runs EXCEPT ![d] = @ + 1]
            /\ posts' = posts + 1
            /\ Answered(c, answer)
            /\ UNCHANGED <<stored, spoken>>
         \/ /\ d \notin StoredDialogs \/ posts = MaxPosts
            /\ Answered(c, "failed")
            /\ UNCHANGED server

ServeDelete(c, answer) ==
  /\ c = "delete"
  /\ LET d == calls[c].dialog
     IN  \/ /\ stored[d] = "stored"
            /\ stored' = [stored EXCEPT ![d] = "gone"]
            /\ Answered(c, answer)
         \/ stored[d] # "stored" /\ Answered(c, "not_found") /\ UNCHANGED stored
  /\ UNCHANGED <<runs, spoken, posts>>

Sent(c) == calls[c].answer \in {"sent", "resent"}

Serves(c, answer) ==
  ServeCreate(c, answer) \/ ServeOpen(c, answer) \/ ServePost(c, answer)
    \/ ServeDelete(c, answer)

(* An answer; or the response is lost, or a 5xx, whatever was done.        *)
Serve(c) ==
  /\ Sent(c)
  /\ \/ Serves(c, "ok") /\ NoTrouble
     \/ Serves(c, "failed") /\ Trouble
     \/ Answered(c, "failed") /\ Trouble /\ UNCHANGED server
     \/ /\ c = "create" /\ UnusedDialogs = {}   (* the bound      *)
        /\ Answered(c, "failed") /\ NoTrouble /\ UNCHANGED server
     \/ /\ Answered(c, IF calls[c].answer = "sent" THEN "unauthorized"
                                                   ELSE "expired")
        /\ Trouble /\ UNCHANGED server
  /\ UNCHANGED <<pageVars, sources, tangled, missed>>

(* withSession() after a 401: the session is renewed and the operation     *)
(* runs again (it reads dialogId again), or the page goes to the login     *)
(* page, or the renewal fails and with it the operation.                   *)
Renews(c) ==
  /\ page = "open" /\ calls[c].answer = "unauthorized"
  /\ \/ /\ calls' = [calls EXCEPT ![c].answer = "resent",
                       ![c].dialog = IF c = "post" THEN dialogId
                                                             ELSE @]
        /\ UNCHANGED <<pageVars, sources>>
     \/ Answered(c, "expired") /\ UNCHANGED <<pageVars, sources>>
     \/ Answered(c, "failed") /\ UNCHANGED <<pageVars, sources>>
  /\ UNCHANGED <<server, history>>

GoesToLogin(c) ==
  /\ page = "open" /\ calls[c].answer = "expired"
  /\ Redirect
  /\ UNCHANGED <<calls, server, history>>

-----------------------------------------------------------------------------
(* The page goes on after a call.                                          *)

Without(c) == [calls EXCEPT ![c] = NoCall]
Continues(c, op) == page = "open" /\ c = op

CreateOk(c) ==
  /\ Continues(c, "create") /\ calls[c].answer = "ok"
  /\ calls' = Without(c)
  /\ dialogId' = calls[c].dialog
  /\ reopened' = FALSE /\ switching' = FALSE
  /\ Connects(calls[c].dialog, 0)
  /\ UNCHANGED <<page, form, timer, verifying, deletingId, shown, server,
                 history>>

CreateFailed(c) ==
  /\ Continues(c, "create") /\ calls[c].answer = "failed"
  /\ calls' = Without(c)
  /\ dialogId' = None /\ switching' = FALSE
  /\ timer' = (IF timer = "none" THEN "create" ELSE timer)
  /\ UNCHANGED <<page, connection, form, verifying, reopened, deletingId,
                 shown, sources, server, history>>

OpenKeepsSource(c) ==              (* mutant: the old EventSource stays *)
  /\ Continues(c, "open") /\ calls[c].answer = "ok"
  /\ calls' = Without(c)
  /\ timer' = "none"
  /\ LeavesForm
  /\ dialogId' = calls[c].dialog
  /\ switching' = FALSE /\ reopened' = FALSE
  /\ shown' = {calls[c].dialog}
  /\ Connects(calls[c].dialog, 0)
  /\ UNCHANGED <<page, verifying, deletingId, server, tangled, troubles>>

OpenOk(c) ==
  /\ Continues(c, "open") /\ calls[c].answer = "ok"
  /\ calls' = Without(c)
  /\ timer' = "none"
  /\ LeavesForm
  /\ dialogId' = calls[c].dialog
  /\ switching' = FALSE /\ reopened' = FALSE
  /\ shown' = {calls[c].dialog}
  /\ Connects(calls[c].dialog, connection)
  /\ UNCHANGED <<page, verifying, deletingId, server, tangled, troubles>>

OpenFailed(c) ==
  /\ Continues(c, "open") /\ calls[c].answer \in {"failed", "not_found"}
  /\ calls' = Without(c)
  /\ switching' = FALSE
  /\ UNCHANGED <<page, dialogId, connection, form, timer, verifying, reopened,
                 deletingId, shown, sources, server, history>>

(* Deleting the open story starts a new one.                               *)
DeleteOk(c) ==
  /\ Continues(c, "delete") /\ calls[c].answer \in {"ok", "not_found"}
  /\ deletingId' = None
  /\ \/ calls[c].dialog = dialogId /\ BeginsCreate(Without(c)) /\ NoTrouble
     \/ /\ calls[c].dialog # dialogId /\ calls' = Without(c)
        /\ UNCHANGED <<page, dialogId, connection, form, switching, timer,
                       verifying, reopened, shown, sources, server, history>>

DeleteFailed(c) ==
  /\ Continues(c, "delete") /\ calls[c].answer = "failed"
  /\ calls' = Without(c)
  /\ deletingId' = None
  /\ UNCHANGED <<page, dialogId, connection, form, switching, timer,
                 verifying, reopened, shown, sources, server, history>>

(* What applyAgentEvent() makes of buffered events.                        *)
LastIsOver(events) == events # <<>> /\ events[Len(events)].type = "over"
Texts(events) == {events[i].dialog :
                    i \in {k \in 1..Len(events) : events[k].type = "text"}}

PostLocksLast(c) ==       (* mutant: processing is set after the replay *)
  /\ Continues(c, "post") /\ calls[c].answer = "ok"
  /\ calls' = Without(c)
  /\ submitting' = FALSE /\ pending' = <<>>
  /\ processing' = TRUE
  /\ shown' = shown \cup {calls[c].dialog} \cup Texts(pending)
  /\ UNCHANGED <<page, dialogId, connection, ready, switching, timer,
                 verifying, reopened, deletingId, sources, server, history>>

PostOk(c) ==
  /\ Continues(c, "post") /\ calls[c].answer = "ok"
  /\ calls' = Without(c)
  /\ submitting' = FALSE /\ pending' = <<>>
  /\ processing' = ~LastIsOver(pending)
  /\ shown' = shown \cup {calls[c].dialog} \cup Texts(pending)
  /\ UNCHANGED <<page, dialogId, connection, ready, switching, timer,
                 verifying, reopened, deletingId, sources, server, history>>

PostFailedSubmitting(c) ==                                   (* mutant *)
  /\ Continues(c, "post") /\ calls[c].answer = "failed"
  /\ calls' = Without(c)
  /\ pending' = <<>>
  /\ UNCHANGED <<page, dialogId, connection, ready, processing,
                 submitting, switching,
                 timer, verifying, reopened, deletingId, shown, sources,
                 server, history>>

PostFailed(c) ==
  /\ Continues(c, "post") /\ calls[c].answer = "failed"
  /\ calls' = Without(c)
  /\ submitting' = FALSE /\ pending' = <<>>
  /\ UNCHANGED <<page, dialogId, connection, ready, processing, switching,
                 timer, verifying, reopened, deletingId, shown, sources,
                 server, history>>

-----------------------------------------------------------------------------
(* The runs and the streams of the server (generate_events).               *)

Streams(d) == {s \in Sources : sourceState[s] = "open" /\ sourceDialog[s] = d}
Publishes(d, type) ==
  sourceQueue' = [s \in Sources |->
    IF s \in Streams(d) THEN Append(sourceQueue[s], [type |-> type, dialog |-> d])
                        ELSE sourceQueue[s]]

RunSpeaks(d) ==
  /\ runs[d] > 0 /\ d \notin spoken
  /\ spoken' = spoken \cup {d}
  /\ Publishes(d, "text")
  /\ UNCHANGED <<pageVars, calls, sourceDialog, sourceState, stored, runs,
                 posts, history>>

RunEnds(d) ==
  /\ runs[d] > 0
  /\ runs' = [runs EXCEPT ![d] = @ - 1]
  /\ spoken' = spoken \ {d}
  /\ Publishes(d, "over")
  /\ missed' = (missed \/ (d = dialogId /\ connection \notin Streams(d)))
  /\ UNCHANGED <<pageVars, calls, sourceDialog, sourceState, stored, posts,
                 tangled, troubles>>

(* Another tab submits to a dialog or deletes it.                          *)
OtherTab(d) ==
  /\ stored[d] = "stored" /\ Trouble
  /\ \/ /\ posts < MaxPosts
        /\ posts' = posts + 1
        /\ runs' = [runs EXCEPT ![d] = @ + 1]
        /\ UNCHANGED stored
     \/ /\ stored' = [stored EXCEPT ![d] = "gone"]
        /\ UNCHANGED <<runs, posts>>
  /\ UNCHANGED <<pageVars, calls, sources, spoken, tangled, missed>>

Accept(s) ==
  /\ sourceState[s] = "connecting" /\ sourceDialog[s] \in StoredDialogs
  /\ sourceState' = [sourceState EXCEPT ![s] = "open"]
  /\ sourceQueue' = [sourceQueue EXCEPT
                       ![s] = <<[type |-> "ready", dialog |-> sourceDialog[s]]>>]
  /\ UNCHANGED <<pageVars, calls, sourceDialog, server, history>>

(* handleConnectionError(): which source failed is not asked.              *)
ChecksAgain ==                       (* mutant: sessionCheck is not asked *)
  /\ ready' = FALSE
  /\ verifying' = verifying \cup {connection}
  /\ UNCHANGED <<page, dialogId, connection, processing, submitting, pending,
                 switching, timer, reopened, deletingId, shown>>

HandlesError ==
  /\ ready' = FALSE
  /\ verifying' = (IF verifying = {} THEN {connection} ELSE verifying)
  /\ UNCHANGED <<page, dialogId, connection, processing, submitting, pending,
                 switching, timer, reopened, deletingId, shown>>

Overs(s) == \E i \in 1..Len(sourceQueue[s]) : sourceQueue[s][i].type = "over"

Breaks(s, state) ==
  /\ page # "left"
  /\ sourceState' = [sourceState EXCEPT ![s] = state]
  /\ sourceQueue' = [sourceQueue EXCEPT ![s] = <<>>]
  /\ missed' = (missed \/ (s = connection /\ Overs(s)))
  /\ HandlesError
  /\ UNCHANGED <<calls, sourceDialog, server, tangled>>

(* Not 200: the dialog is gone, the session is over or the server is not   *)
(* available.  The EventSource does not try again.                         *)
Refuse(s) ==
  /\ sourceState[s] = "connecting"
  /\ \/ sourceDialog[s] \notin StoredDialogs /\ NoTrouble
     \/ sourceDialog[s] \in StoredDialogs /\ Trouble
  /\ Breaks(s, "closed")

(* The connection is lost, with what was on its way: the EventSource tries *)
(* again.                                                                  *)
Lose(s) ==
  /\ sourceState[s] \in {"connecting", "open"}
  /\ Trouble
  /\ Breaks(s, "connecting")

(* The generator returns: the dialog was deleted and its subscription      *)
(* closed, or a heartbeat found the session ended.                         *)
StreamEnds(s) ==
  /\ sourceState[s] = "open" /\ sourceQueue[s] = <<>>
  /\ \/ sourceDialog[s] \notin StoredDialogs /\ NoTrouble
     \/ sourceDialog[s] \in StoredDialogs /\ Trouble
  /\ Breaks(s, "connecting")

-----------------------------------------------------------------------------
(* Events of a stream, and the check of a broken one.                      *)

ApplyReady ==
  /\ ready' = TRUE /\ reopened' = FALSE
  /\ UNCHANGED <<processing, submitting, pending, shown, missed>>

Buffer(event) ==
  /\ submitting
  /\ pending' = Append(pending, event)
  /\ UNCHANGED <<ready, processing, submitting, reopened, shown, missed>>

Apply(event) ==
  /\ ~submitting
  /\ processing' = (event.type = "text")
  /\ shown' = shown \cup Texts(<<event>>)
  /\ missed' = (missed /\ event.type = "text")
  /\ UNCHANGED <<ready, submitting, pending, reopened>>

Dispatch(s) ==
  /\ page # "left"
  /\ sourceState[s] = "open" /\ sourceQueue[s] # <<>>
  /\ LET event == Head(sourceQueue[s])
     IN  \/ event.type = "ready" /\ ApplyReady
         \/ event.type # "ready" /\ (Buffer(event) \/ Apply(event))
  /\ sourceQueue' = [sourceQueue EXCEPT ![s] = Tail(@)]
  /\ UNCHANGED <<page, dialogId, connection, switching, timer, verifying,
                 deletingId, calls, sourceDialog, sourceState, server, tangled,
                 troubles>>

(* A source that closed is replaced, once until the next "ready".          *)
Reopens ==
  /\ connection # 0 /\ sourceState[connection] = "closed"
  /\ ~reopened

Verified ==
  /\ page # "left" /\ verifying # {}
  /\ \/ /\ connection \in verifying /\ Reopens
        /\ verifying' = {} /\ reopened' = TRUE
        /\ Connects(dialogId, 0)
        /\ NoTrouble
        /\ UNCHANGED <<page, dialogId, form, switching, timer, deletingId, shown>>
     \/ /\ connection \notin verifying \/ ~Reopens
        /\ verifying' = {}
        /\ NoTrouble
        /\ UNCHANGED <<page, dialogId, connection, form, switching, timer,
                       reopened, deletingId, shown, sources>>
     \/ /\ verifying' = {}             (* the session cannot be checked  *)
        /\ Trouble
        /\ UNCHANGED <<page, dialogId, connection, form, switching, timer,
                       reopened, deletingId, shown, sources>>
     \/ /\ connection \in verifying /\ connection # 0   (* there is none     *)
        /\ Trouble /\ Redirect
  /\ UNCHANGED <<calls, server, tangled, missed>>

Continuation(c) ==
  \/ CreateOk(c) \/ CreateFailed(c) \/ OpenOk(c) \/ OpenFailed(c)
  \/ DeleteOk(c) \/ DeleteFailed(c) \/ PostOk(c) \/ PostFailed(c)
  \/ Renews(c) \/ GoesToLogin(c)

Next ==
  \/ Start \/ NewStory \/ TimerFires \/ Submit \/ Verified
  \/ \E d \in Dialogs :
       Open(d) \/ Delete(d) \/ RunSpeaks(d) \/ RunEnds(d) \/ OtherTab(d)
  \/ \E c \in Operations : Serve(c) \/ Continuation(c)
  \/ \E s \in Sources :
       Accept(s) \/ Refuse(s) \/ Lose(s) \/ StreamEnds(s) \/ Dispatch(s)

(* Calls are answered and continued, runs end, events arrive.  The user,   *)
(* the other tab and the network's failures are free.                      *)
Fairness ==
  /\ \A c \in Operations : WF_vars(Serve(c)) /\ WF_vars(Continuation(c))
  /\ \A d \in Dialogs : WF_vars(RunEnds(d))
  /\ \A s \in Sources : WF_vars(Dispatch(s))

Spec == Init /\ [][Next]_vars /\ Fairness

-----------------------------------------------------------------------------
(* Properties.                                                             *)

(* What the page shows belongs to the dialog it sends requests to and      *)
(* listens to, and to no other, and there is one EventSource.              *)
ShownIsAddressed ==
  page = "open" =>
    /\ dialogId # None => shown \subseteq {dialogId}
    /\ \A s \in Sources : sourceState[s] # "closed" =>
         s = connection /\ sourceDialog[s] = dialogId

(* A request in flight goes to the dialog the page shows, also when it is  *)
(* sent again after the session was renewed.                               *)
PostsToShown ==
  page = "open" /\ calls["post"] # NoCall =>
    submitting /\ calls["post"].dialog = dialogId

(* Dialogs are not mixed, by no overlap of clicks, calls, timers, checks   *)
(* and events, unless createDialog() began while a story was being opened  *)
(* or a request submitted: busy() guards every other operation.            *)
OneStory == tangled \/ (ShownIsAddressed /\ PostsToShown)

(* The form is locked by an answer only while the end of a run of this     *)
(* dialog is still to come: buffered events never lock it for good.        *)
LockIsOwed ==
  processing /\ page = "open" /\ ~tangled /\ ~missed =>
    \/ runs[dialogId] > 0
    \/ connection # 0 /\ Overs(connection)

(* The form is unlocked in the end, unless the end of a run was lost while *)
(* the stream was broken (it is never sent again) or operations overlapped *)
(* as in OneStory.                                                         *)
FormUnlocks ==
  (page = "open" /\ busy) ~> (~busy \/ missed \/ tangled \/ page = "left")
=============================================================================
