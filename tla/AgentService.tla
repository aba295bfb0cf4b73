---------------------------- MODULE AgentService -----------------------------
(***************************************************************************)
(* The dialog service of application/agent_service.py: the chain of        *)
(* background runs of every dialog, the events they publish, the history   *)
(* they save, deletion and shutdown.  The event broker is EventBroker.tla, *)
(* whose operations are conjuncts of the actions here.                     *)
(*                                                                         *)
(* One action is the code between two suspensions of an asyncio coroutine. *)
(* Publishing never suspends (the broker's lock is never contended), so it *)
(* belongs to the step that publishes.  The history store is PostgreSQL    *)
(* (db/history.py): a call suspends, and its transaction commits while the *)
(* caller is suspended.  A call made for a user who does not own the       *)
(* dialog finds nothing and changes nothing, so users are left out.        *)
(*                                                                         *)
(* A run is one accepted request together with its asyncio task.  The      *)
(* process starts with no dialogs of its own; a restarted process starts   *)
(* from Init with the dialogs it stored before (see Init).                 *)
(***************************************************************************)
EXTENDS Naturals, Sequences, FiniteSets

CONSTANTS
  Dialogs,    (* dialog identifiers, each created at most once             *)
  Runs,       (* requests: a run each, once accepted                       *)
  Subs,       (* subscription objects                                      *)
  MaxDeltas,  (* bound: text fragments one run publishes                   *)
  QueueSize,  (* capacity of a subscription's queue                        *)
  CLOSED,     (* sentinel of the broker's queues                           *)
  NoDialog,   (* no dialog                                                 *)
  NoRun       (* no task                                                   *)

EventTypes == {"message_start", "message_delta", "message_end",
               "message_error"}

(* The run of an event is not transmitted: it identifies the event here.   *)
RunEvents == [run : Runs, type : EventTypes]

ASSUME ServiceAssumption ==
  /\ QueueSize \in Nat \ {0}
  /\ MaxDeltas \in Nat
  /\ CLOSED \notin RunEvents
  /\ NoDialog \notin Dialogs
  /\ NoRun \notin Runs

VARIABLES
  (* AgentService                                                          *)
  phase,      (* "running" while _accepting; "draining" in shutdown()      *)
              (* until the tasks ended; "down" when shutdown() returned    *)
  creating,   (* the dialog whose creation holds _state_lock               *)
  tails,      (* _dialog_tails: the task the next request waits for        *)
  tasks,      (* _tasks                                                    *)
  (* The runs                                                              *)
  pc,         (* where the request, then its task, stands                  *)
  runDialog,  (* dialog_id of the request                                  *)
  prev,       (* previous_task                                             *)
  cancelled,  (* tasks that cancel() was called on                         *)
  accepted,   (* how many tasks were created                               *)
  ticket,     (* the order of create_task: n for the n-th task             *)
  deltas,     (* how many fragments the run published                      *)
  seen,       (* the history snapshot given to the agent                   *)
  (* The history store                                                     *)
  dialog,     (* row of dialogs: "unused", "stored" or "gone"              *)
  messages,   (* saved pairs, each named by the run that saved it          *)
  (* The broker, and the history of what was published per dialog          *)
  brokerClosed, subscribers, dialogOf, reason, queue, offered, received,
  ended, asking, published

Broker == INSTANCE EventBroker WITH Events <- RunEvents

brokerVars == <<brokerClosed, subscribers, dialogOf, reason, queue, offered,
                received, ended>>
eventVars == <<brokerVars, published>>
storeVars == <<dialog, messages>>
serviceVars == <<phase, creating, tails, tasks>>
requestVars == <<runDialog, prev, accepted, ticket>>
vars == <<serviceVars, pc, requestVars, cancelled, deltas, seen, storeVars,
          eventVars, asking>>

Running == {"reading", "loading", "streaming", "appending", "committed"}
Finished == {"done", "failed", "cancelled"}
Unfinished == {"scheduled", "waiting"} \cup Running
States == {"idle", "checked", "refused"} \cup Unfinished \cup Finished

TypeOK ==
  /\ phase \in {"running", "draining", "down"}
  /\ creating \in Dialogs \cup {NoDialog}
  /\ tails \in [Dialogs -> Runs \cup {NoRun}]
  /\ tasks \in SUBSET Runs
  /\ pc \in [Runs -> States]
  /\ runDialog \in [Runs -> Dialogs \cup {NoDialog}]
  /\ \A r \in Runs : pc[r] # "idle" => runDialog[r] \in Dialogs
  /\ prev \in [Runs -> Runs \cup {NoRun}]
  /\ cancelled \in SUBSET Runs
  /\ accepted \in Nat
  /\ ticket \in [Runs -> 0..accepted]
  /\ deltas \in [Runs -> 0..MaxDeltas]
  /\ seen \in [Runs -> Seq(Runs)]
  /\ dialog \in [Dialogs -> {"unused", "stored", "gone"}]
  /\ messages \in [Dialogs -> Seq(Runs)]
  /\ asking \in [Subs -> Dialogs \cup {NoDialog}]
  /\ published \in [Dialogs -> Seq(RunEvents)]

(* A fresh process.  "stored" rows without messages stand for the dialogs  *)
(* an earlier process left: what they hold is a prefix no run changes.     *)
Init ==
  /\ phase = "running"
  /\ creating = NoDialog
  /\ tails = [d \in Dialogs |-> NoRun]
  /\ tasks = {}
  /\ pc = [r \in Runs |-> "idle"]
  /\ runDialog = [r \in Runs |-> NoDialog]
  /\ prev = [r \in Runs |-> NoRun]
  /\ cancelled = {}
  /\ accepted = 0
  /\ ticket = [r \in Runs |-> 0]
  /\ deltas = [r \in Runs |-> 0]
  /\ seen = [r \in Runs |-> <<>>]
  /\ dialog \in [Dialogs -> {"unused", "stored"}]
  /\ messages = [d \in Dialogs |-> <<>>]
  /\ asking = [s \in Subs |-> NoDialog]
  /\ published = [d \in Dialogs |-> <<>>]
  /\ Broker!Init

-----------------------------------------------------------------------------
(* Dialogs.                                                                *)

LockFree == creating = NoDialog

(* start_dialog holds _state_lock while the store inserts the row.         *)
StartDialog(d) ==
  /\ LockFree /\ phase = "running"
  /\ dialog[d] = "unused"
  /\ creating' = d
  /\ UNCHANGED <<phase, tails, tasks, pc, requestVars, cancelled, deltas, seen,
                 storeVars, eventVars, asking>>

DialogCreated ==
  /\ ~LockFree
  /\ dialog' = [dialog EXCEPT ![creating] = "stored"]
  /\ creating' = NoDialog
  /\ UNCHANGED <<phase, tails, tasks, pc, requestVars, cancelled, deltas, seen,
                 messages, eventVars, asking>>

CreateFails ==
  /\ ~LockFree
  /\ dialog' = [dialog EXCEPT ![creating] = "gone"]
  /\ creating' = NoDialog
  /\ UNCHANGED <<phase, tails, tasks, pc, requestVars, cancelled, deltas, seen,
                 messages, eventVars, asking>>

(* delete_dialog: the row and, by cascade, its messages.  It touches       *)
(* neither the runs nor the subscriptions of the dialog.                   *)
DeleteDialogDroppingStreams(d) ==   (* mutant: forgets the subscriptions   *)
  /\ dialog[d] = "stored"
  /\ dialog' = [dialog EXCEPT ![d] = "gone"]
  /\ messages' = [messages EXCEPT ![d] = <<>>]
  /\ subscribers' = [subscribers EXCEPT ![d] = {}]
  /\ UNCHANGED <<serviceVars, pc, requestVars, cancelled, deltas, seen, asking,
                 brokerClosed, dialogOf, reason, queue, offered, received,
                 ended, published>>
DeleteDialog(d) ==
  /\ dialog[d] = "stored"
  /\ dialog' = [dialog EXCEPT ![d] = "gone"]
  /\ messages' = [messages EXCEPT ![d] = <<>>]
  /\ UNCHANGED <<serviceVars, pc, requestVars, cancelled, deltas, seen,
                 eventVars, asking>>

-----------------------------------------------------------------------------
(* Requests.                                                               *)

(* The first await of submit(): the dialog exists.  Otherwise the request  *)
(* is answered 404 or 503 and leaves no trace.                             *)
SubmitCheck(r, d) ==
  /\ pc[r] = "idle"
  /\ dialog[d] = "stored"
  /\ pc' = [pc EXCEPT ![r] = "checked"]
  /\ runDialog' = [runDialog EXCEPT ![r] = d]
  /\ UNCHANGED <<serviceVars, prev, accepted, ticket, cancelled, deltas, seen, storeVars,
                 eventVars, asking>>

(* The rest of submit(), under _state_lock.  The dialog may have been      *)
(* deleted since the check.                                                *)
SubmitAfterItself(r) ==   (* mutant: the tail is replaced before it is read *)
  /\ pc[r] = "checked" /\ LockFree /\ phase = "running"
  /\ prev' = [prev EXCEPT ![r] = r]
  /\ tails' = [tails EXCEPT ![runDialog[r]] = r]
  /\ tasks' = tasks \cup {r}
  /\ ticket' = [ticket EXCEPT ![r] = accepted + 1]
  /\ accepted' = accepted + 1
  /\ pc' = [pc EXCEPT ![r] = "scheduled"]
  /\ UNCHANGED <<phase, creating, runDialog, cancelled, deltas, seen,
                 storeVars, eventVars, asking>>
Submit(r) ==
  /\ pc[r] = "checked" /\ LockFree /\ phase = "running"
  /\ prev' = [prev EXCEPT ![r] = tails[runDialog[r]]]
  /\ tails' = [tails EXCEPT ![runDialog[r]] = r]
  /\ tasks' = tasks \cup {r}
  /\ ticket' = [ticket EXCEPT ![r] = accepted + 1]
  /\ accepted' = accepted + 1
  /\ pc' = [pc EXCEPT ![r] = "scheduled"]
  /\ UNCHANGED <<phase, creating, runDialog, cancelled, deltas, seen,
                 storeVars, eventVars, asking>>

SubmitRefused(r) ==
  /\ pc[r] = "checked" /\ LockFree /\ phase # "running"
  /\ pc' = [pc EXCEPT ![r] = "refused"]
  /\ UNCHANGED <<serviceVars, requestVars, cancelled, deltas, seen, storeVars,
                 eventVars, asking>>

-----------------------------------------------------------------------------
(* The task of a run: _run_after.                                          *)

Publish(r, type) ==
  LET event == [run |-> r, type |-> type]
  IN  /\ Broker!Publish(runDialog[r], event)
      /\ published' = [published EXCEPT ![runDialog[r]] = Append(@, event)]

Move(r, state) == pc' = [pc EXCEPT ![r] = state]

(* The loop takes the first steps of tasks in the order of create_task.    *)
FirstStep(r) ==
  /\ pc[r] = "scheduled"
  /\ \A q \in Runs : pc[q] = "scheduled" => ticket[r] <= ticket[q]

PreviousOverIgnoringCancel(r) ==    (* mutant: a cancelled task is pending *)
  prev[r] # NoRun => pc[prev[r]] \in {"done", "failed"}
PreviousNotAwaited(r) == TRUE       (* mutant: previous_task is not awaited *)
PreviousOver(r) == prev[r] # NoRun => pc[prev[r]] \in Finished

PreviousCancelled(r) == prev[r] # NoRun /\ pc[prev[r]] = "cancelled"

(* "await previous_task" suspends.                                         *)
WaitAnnounced(r) ==        (* mutant: message_start precedes the awaiting  *)
  /\ FirstStep(r) /\ r \notin cancelled
  /\ ~PreviousOver(r)
  /\ Publish(r, "message_start")
  /\ Move(r, "waiting")
  /\ UNCHANGED <<serviceVars, requestVars, cancelled, deltas, seen, storeVars,
                 asking>>
Wait(r) ==
  /\ FirstStep(r) /\ r \notin cancelled
  /\ ~PreviousOver(r)
  /\ Move(r, "waiting")
  /\ UNCHANGED <<serviceVars, requestVars, cancelled, deltas, seen, storeVars,
                 eventVars, asking>>

(* The previous task, if any, ended and did not raise: message_start goes  *)
(* out before the history is asked for.                                    *)
Begin(r) ==
  /\ FirstStep(r) \/ pc[r] = "waiting"
  /\ r \notin cancelled
  /\ PreviousOver(r) /\ ~PreviousCancelled(r)
  /\ Publish(r, "message_start")
  /\ Move(r, "reading")
  /\ UNCHANGED <<serviceVars, requestVars, cancelled, deltas, seen, storeVars,
                 asking>>

(* history_store.get is two statements: the dialog's row, then its         *)
(* messages.  A deletion in between leaves no messages to read.            *)
CheckHistory(r) ==
  /\ pc[r] = "reading" /\ r \notin cancelled
  /\ dialog[runDialog[r]] = "stored"
  /\ Move(r, "loading")
  /\ UNCHANGED <<serviceVars, requestVars, cancelled, deltas, seen, storeVars,
                 eventVars, asking>>

LoadHistory(r) ==
  /\ pc[r] = "loading" /\ r \notin cancelled
  /\ seen' = [seen EXCEPT ![r] = messages[runDialog[r]]]
  /\ Move(r, "streaming")
  /\ UNCHANGED <<serviceVars, requestVars, cancelled, deltas, storeVars,
                 eventVars, asking>>

Delta(r) ==
  /\ pc[r] = "streaming" /\ r \notin cancelled
  /\ deltas[r] < MaxDeltas
  /\ deltas' = [deltas EXCEPT ![r] = @ + 1]
  /\ Publish(r, "message_delta")
  /\ UNCHANGED <<serviceVars, pc, requestVars, cancelled, seen, storeVars,
                 asking>>

(* The agent's stream ended with a response: history_store.append is sent. *)
RespondWithoutAppend(r) ==     (* mutant: the answer is announced unsaved  *)
  /\ pc[r] = "streaming" /\ r \notin cancelled
  /\ Move(r, "committed")
  /\ UNCHANGED <<serviceVars, requestVars, cancelled, deltas, seen, storeVars,
                 eventVars, asking>>
Respond(r) ==
  /\ pc[r] = "streaming" /\ r \notin cancelled
  /\ Move(r, "appending")
  /\ UNCHANGED <<serviceVars, requestVars, cancelled, deltas, seen, storeVars,
                 eventVars, asking>>

(* The database commits the pair, under the lock of the dialog's row; the  *)
(* task learns of it later, and may have been cancelled meanwhile.         *)
CommitForPrevious(r) ==    (* mutant: the pair of the wrong task is saved  *)
  /\ pc[r] = "appending"
  /\ dialog[runDialog[r]] = "stored"
  /\ messages' = [messages EXCEPT ![runDialog[r]] = Append(@, prev[r])]
  /\ Move(r, "committed")
  /\ UNCHANGED <<serviceVars, requestVars, cancelled, deltas, seen, dialog,
                 eventVars, asking>>
Commit(r) ==
  /\ pc[r] = "appending"
  /\ dialog[runDialog[r]] = "stored"
  /\ messages' = [messages EXCEPT ![runDialog[r]] = Append(@, r)]
  /\ Move(r, "committed")
  /\ UNCHANGED <<serviceVars, requestVars, cancelled, deltas, seen, dialog,
                 eventVars, asking>>

Finish(r) ==
  /\ pc[r] = "committed" /\ r \notin cancelled
  /\ Publish(r, "message_end")
  /\ Move(r, "done")
  /\ UNCHANGED <<serviceVars, requestVars, cancelled, deltas, seen, storeVars,
                 asking>>

(* "except Exception": the store is unavailable or the dialog gone (on get *)
(* or append), the agent failed or ended without a response, or the answer *)
(* to the commit was lost.                                                 *)
RunFailsSilently(r) ==             (* mutant: message_error is forgotten   *)
  /\ pc[r] \in Running /\ r \notin cancelled
  /\ Move(r, "failed")
  /\ UNCHANGED <<serviceVars, requestVars, cancelled, deltas, seen, storeVars,
                 eventVars, asking>>
RunFails(r) ==
  /\ pc[r] \in Running /\ r \notin cancelled
  /\ Publish(r, "message_error")
  /\ Move(r, "failed")
  /\ UNCHANGED <<serviceVars, requestVars, cancelled, deltas, seen, storeVars,
                 asking>>

-----------------------------------------------------------------------------
(* Cancellation, which only shutdown() starts.                             *)

(* asyncio throws CancelledError into a coroutine that has not started:    *)
(* its try block is never entered and nothing is published.                *)
CancelBeforeStart(r) ==
  /\ FirstStep(r) /\ r \in cancelled
  /\ Move(r, "cancelled")
  /\ UNCHANGED <<serviceVars, requestVars, cancelled, deltas, seen, storeVars,
                 eventVars, asking>>

(* Cancelling a task that awaits another cancels that one, so the waiting  *)
(* task ends only after it: the CancelledError of the previous task, or    *)
(* its own if the previous one had just ended.                             *)
CancelWaiting(r) ==
  /\ pc[r] = "waiting" /\ PreviousOver(r)
  /\ r \in cancelled \/ PreviousCancelled(r)
  /\ Publish(r, "message_error")
  /\ Move(r, "cancelled")
  /\ UNCHANGED <<serviceVars, requestVars, cancelled, deltas, seen, storeVars,
                 asking>>

CancelRunning(r) ==
  /\ pc[r] \in Running /\ r \in cancelled
  /\ Publish(r, "message_error")
  /\ Move(r, "cancelled")
  /\ UNCHANGED <<serviceVars, requestVars, cancelled, deltas, seen, storeVars,
                 asking>>

(* _task_done, called by the loop some time after the task ended.          *)
TaskDonePopping(r) ==       (* mutant: pops the tail of a later request    *)
  /\ pc[r] \in Finished /\ r \in tasks
  /\ tasks' = tasks \ {r}
  /\ tails' = [tails EXCEPT ![runDialog[r]] = NoRun]
  /\ UNCHANGED <<phase, creating, pc, requestVars, cancelled, deltas, seen,
                 storeVars, eventVars, asking>>
TaskDone(r) ==
  /\ pc[r] \in Finished /\ r \in tasks
  /\ tasks' = tasks \ {r}
  /\ tails' = [tails EXCEPT ![runDialog[r]] = IF @ = r THEN NoRun ELSE @]
  /\ UNCHANGED <<phase, creating, pc, requestVars, cancelled, deltas, seen,
                 storeVars, eventVars, asking>>

(* shutdown() up to the release of _state_lock.                            *)
ShutdownBegin ==
  /\ LockFree /\ phase = "running"
  /\ phase' = "draining"
  /\ cancelled' = {r \in tasks : pc[r] \notin Finished}
  /\ UNCHANGED <<creating, tails, tasks, pc, requestVars, deltas, seen,
                 storeVars, eventVars, asking>>

(* gather() returned: the rest of shutdown(), the broker's included.       *)
ShutdownFinishEarly ==       (* mutant: the tasks are not awaited          *)
  /\ phase = "draining"
  /\ phase' = "down"
  /\ tasks' = {}
  /\ tails' = [d \in Dialogs |-> NoRun]
  /\ Broker!Shutdown
  /\ UNCHANGED <<creating, pc, requestVars, cancelled, deltas, seen, storeVars,
                 published, asking>>
ShutdownFinish ==
  /\ phase = "draining"
  /\ \A r \in tasks : pc[r] \in Finished
  /\ phase' = "down"
  /\ tasks' = {}
  /\ tails' = [d \in Dialogs |-> NoRun]
  /\ Broker!Shutdown
  /\ UNCHANGED <<creating, pc, requestVars, cancelled, deltas, seen, storeVars,
                 published, asking>>

-----------------------------------------------------------------------------
(* Subscriptions.                                                          *)

unchangedBySubs == <<serviceVars, pc, requestVars, cancelled, deltas, seen,
                     storeVars, published>>

(* The first await of subscribe(); it fails with 404 or 503 otherwise.     *)
SubscribeCheck(s, d) ==
  /\ asking[s] = NoDialog /\ dialogOf[s] = NoDialog
  /\ dialog[d] = "stored"
  /\ asking' = [asking EXCEPT ![s] = d]
  /\ UNCHANGED <<unchangedBySubs, brokerVars>>

(* The rest, under _state_lock; refused with 503 once shutdown() began.    *)
Subscribe(s) ==
  /\ asking[s] # NoDialog
  /\ LockFree /\ phase = "running"
  /\ Broker!Subscribe(s, asking[s])
  /\ asking' = [asking EXCEPT ![s] = NoDialog]
  /\ UNCHANGED unchangedBySubs

Unsubscribe(s) ==
  /\ Broker!Unsubscribe(s)
  /\ UNCHANGED <<unchangedBySubs, asking>>

Receive(s) ==
  /\ Broker!Receive(s)
  /\ UNCHANGED <<unchangedBySubs, asking>>

-----------------------------------------------------------------------------

Task(r) ==
  \/ Wait(r)
  \/ Begin(r)
  \/ CheckHistory(r)
  \/ LoadHistory(r)
  \/ Delta(r)
  \/ Respond(r)
  \/ Commit(r)
  \/ Finish(r)
  \/ RunFails(r)
  \/ CancelBeforeStart(r)
  \/ CancelWaiting(r)
  \/ CancelRunning(r)
  \/ TaskDone(r)

Next ==
  \/ \E d \in Dialogs : StartDialog(d)
  \/ DialogCreated
  \/ CreateFails
  \/ \E d \in Dialogs : DeleteDialog(d)
  \/ \E r \in Runs, d \in Dialogs : SubmitCheck(r, d)
  \/ \E r \in Runs : Submit(r)
  \/ \E r \in Runs : SubmitRefused(r)
  \/ \E r \in Runs : Task(r)
  \/ ShutdownBegin
  \/ ShutdownFinish
  \/ \E s \in Subs, d \in Dialogs : SubscribeCheck(s, d)
  \/ \E s \in Subs : Subscribe(s)
  \/ \E s \in Subs : Unsubscribe(s)
  \/ \E s \in Subs : Receive(s)

Spec == Init /\ [][Next]_vars

(* The event loop runs every ready coroutine; a database call and the      *)
(* agent's stream answer or fail.  Clients owe nothing, and neither does   *)
(* whoever calls shutdown().                                               *)
Fairness ==
  /\ \A r \in Runs : WF_vars(Task(r))
  /\ WF_vars(DialogCreated \/ CreateFails)
  /\ WF_vars(ShutdownFinish)
  /\ \A s \in Subs : WF_vars(Receive(s))

FairSpec == Spec /\ Fairness

-----------------------------------------------------------------------------
(* What the service promises.                                              *)

Terminal == {"message_end", "message_error"}

SavedIn(d) == {messages[d][i] : i \in DOMAIN messages[d]}

(* Requests to one dialog run one at a time: at most one task of a dialog  *)
(* is past "await previous_task" and not ended.                            *)
OneActiveRun ==
  \A q, r \in Runs :
    /\ pc[q] \in Running /\ pc[r] \in Running
    /\ runDialog[q] = runDialog[r]
    => q = r

(* While an accepted request has not ended it is tracked, so that shutdown *)
(* cancels it, and until shutdown the newest one of its dialog is the tail *)
(* the next request will wait for.                                         *)
UnfinishedTracked ==
  \A r \in Runs :
    pc[r] \in Unfinished =>
      /\ r \in tasks
      /\ phase = "running" =>
           /\ tails[runDialog[r]] # NoRun
           /\ runDialog[tails[runDialog[r]]] = runDialog[r]
           /\ ticket[r] <= ticket[tails[runDialog[r]]]

(* Pairs are saved in the order in which the requests were accepted, each  *)
(* once.                                                                   *)
SavedInOrder ==
  \A d \in Dialogs : \A i, j \in DOMAIN messages[d] :
    i < j => ticket[messages[d][i]] < ticket[messages[d][j]]

(* The agent answers with the whole history: between its reading and the   *)
(* saving of its answer nothing else is added to the dialog, and whatever  *)
(* an earlier request saved is in it.                                      *)
ContextComplete ==
  \A r \in Runs :
    /\ pc[r] \in {"streaming", "appending", "committed"}
    /\ dialog[runDialog[r]] = "stored"
    => messages[runDialog[r]] =
         IF pc[r] = "committed" THEN Append(seen[r], r) ELSE seen[r]

(* The events of a dialog are the runs one after another, each of them a   *)
(* start, fragments and one terminal event; a request cancelled while it   *)
(* waited contributes an error alone, after the previous one is over.      *)
MayFollow(a, b) ==
  \/ b.type = "message_start" /\ a.type \in Terminal /\ a.run # b.run
  \/ b.type # "message_start" /\ a.type \notin Terminal /\ a.run = b.run
  \/ b.type = "message_error" /\ a.type \in Terminal /\ a.run # b.run

InOrder(events) ==
  \A i \in 1..(Len(events) - 1) : MayFollow(events[i], events[i + 1])

EventsInOrder ==
  \A d \in Dialogs :
    /\ InOrder(published[d])
    /\ published[d] # <<>> => published[d][1].type = "message_start"

(* A run that ended by itself has told the subscribers how, exactly once.  *)
OutcomePublished ==
  \A r \in Runs :
    LET outcomes == {i \in DOMAIN published[runDialog[r]] :
                       /\ published[runDialog[r]][i].run = r
                       /\ published[runDialog[r]][i].type \in Terminal}
    IN  pc[r] \in {"done", "failed"} =>
          \E i \in outcomes :
            /\ outcomes = {i}
            /\ published[runDialog[r]][i].type =
                 IF pc[r] = "done" THEN "message_end" ELSE "message_error"

(* When shutdown() has returned nothing is left behind: no task runs, no   *)
(* subscription is open, and a request is refused.                         *)
ShutdownQuiet ==
  phase = "down" =>
    /\ \A r \in Runs : pc[r] \notin Unfinished
    /\ \A s \in Subs : dialogOf[s] # NoDialog => reason[s] # "open"

(* A reader that got message_end can rely on the answer being stored, until*)
(* the dialog is deleted.                                                  *)
ReceivedEndIsSaved ==
  \A s \in Subs : \A i \in DOMAIN received[s] :
    /\ received[s][i].type = "message_end"
    /\ dialog[dialogOf[s]] = "stored"
    => received[s][i].run \in SavedIn(dialogOf[s])

(* The service uses the broker only through its operations: as far as the  *)
(* broker's variables go it is a behaviour of EventBroker.                 *)
UsesBroker == Broker!Spec

(* Every accepted request ends, whatever happens to those before it.       *)
RunEnds == \A r \in Runs : pc[r] = "scheduled" ~> pc[r] \in Finished

(* shutdown() returns.                                                     *)
ShutdownReturns == phase = "draining" ~> phase = "down"

(* agent-sse-test-ui REQ-013: "При ошибке или отмене история не            *)
(* изменяется": a run that reported an error saved nothing.                *)
ErrorMeansNotSaved ==
  \A r \in Runs :
    pc[r] \in {"failed", "cancelled"} => r \notin SavedIn(runDialog[r])

=============================================================================
