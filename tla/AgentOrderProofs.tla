--------------------------- MODULE AgentOrderProofs --------------------------
(***************************************************************************)
(* Proofs about AgentService that build on the chain of runs: the order of *)
(* the saved pairs and of the events, the history given to the agent, and  *)
(* what a reader may conclude from an event it received.                   *)
(***************************************************************************)
EXTENDS AgentServiceProofs, SequenceTheorems

-----------------------------------------------------------------------------
(* What any step leaves of a request.                                      *)

Accepted(r) == pc[r] \in Unfinished \cup Finished

(* A task keeps its dialog and its ticket, ends once, and moves on.        *)
Onward(r) ==
  /\ Accepted(r) => Accepted(r)'
  /\ Accepted(r) => runDialog'[r] = runDialog[r] /\ ticket'[r] = ticket[r]
                      /\ prev'[r] = prev[r]
  /\ pc[r] # "idle" => pc'[r] # "idle" /\ runDialog'[r] = runDialog[r]
  /\ pc[r] \in Finished => pc'[r] = pc[r]
  /\ pc[r] \in Running => pc'[r] \in Running \cup Finished
  /\ pc[r] = "waiting" => pc'[r] \in {"waiting"} \cup Running \cup Finished
  /\ pc[r] = "committed" => pc'[r] \in {"committed"} \cup Finished
  /\ ~Accepted(r) /\ Accepted(r)' => /\ pc[r] = "checked"
                                     /\ pc'[r] = "scheduled"
                                     /\ ticket'[r] = accepted + 1

LEMMA OnwardTask ==
  ASSUME TypeOK, NEW t \in Runs, Task(t), NEW r \in Runs
  PROVE  Onward(r)
<1> USE DEF Onward, Accepted, Unfinished, Running, Finished, requestVars,
            FirstStep
<1> SUFFICES ASSUME pc[t] \in Unfinished,
                    \/ pc' = pc
                    \/ \E state \in {"waiting"} \cup Running \cup Finished :
                         /\ Move(t, state)
                         /\ pc[t] = "committed" =>
                              state \in {"committed"} \cup Finished
                         /\ pc[t] \in Running =>
                              state \in Running \cup Finished,
                    UNCHANGED requestVars
             PROVE  Onward(r)
  <2>1. CASE TaskDone(t)
    BY <2>1 DEF TaskDone
  <2>2. CASE Delta(t)
    BY <2>2 DEF Delta
  <2> QED
    BY <2>1, <2>2
       DEF Task, Wait, Begin, CheckHistory, LoadHistory, Respond, Commit,
           Finish, RunFails, CancelBeforeStart, CancelWaiting, CancelRunning
<1> QED
  BY DEF Move, TypeOK

LEMMA OnwardStep ==
  ASSUME TypeOK, [Next]_vars, NEW r \in Runs
  PROVE  Onward(r)
<1> USE DEF Onward, Accepted, Unfinished, Running, Finished, requestVars
<1>1. CASE UNCHANGED <<pc, requestVars>>
  BY <1>1
<1>2. ASSUME NEW t \in Runs, NEW d \in Dialogs, SubmitCheck(t, d)
      PROVE  Onward(r)
  BY <1>2 DEF SubmitCheck, TypeOK
<1>3. ASSUME NEW t \in Runs, Submit(t) PROVE Onward(r)
  BY <1>3 DEF Submit, TypeOK
<1>4. ASSUME NEW t \in Runs, SubmitRefused(t) PROVE Onward(r)
  BY <1>4 DEF SubmitRefused, TypeOK
<1>5. ASSUME NEW t \in Runs, Task(t) PROVE Onward(r)
  BY <1>5, OnwardTask
<1> QED
  BY <1>1, <1>2, <1>3, <1>4, <1>5
     DEF Next, vars, StartDialog, DialogCreated, CreateFails, DeleteDialog,
         ShutdownBegin, ShutdownFinish, SubscribeCheck, Subscribe,
         Unsubscribe, Receive, unchangedBySubs

(* A request accepted later is not before one accepted earlier.            *)
LEMMA BeforeStep ==
  ASSUME ChainInv, ChainInv', [Next]_vars, NEW q \in Runs, NEW r \in Runs,
         Accepted(r), Before(q, r)'
  PROVE  Before(q, r)
<1>1. Onward(q) /\ Onward(r)
  BY OnwardStep DEF ChainInv
<1>2. Accepted(q)' /\ runDialog'[q] = runDialog'[r] /\ ticket'[q] < ticket'[r]
  BY DEF Before, Accepted
<1>3. ticket[r] \in 0..accepted /\ accepted \in Nat /\ ticket[q] \in 0..accepted
  BY DEF ChainInv, TypeOK
<1>4. Accepted(q)
  BY <1>1, <1>2, <1>3 DEF Onward
<1> QED
  BY <1>1, <1>2, <1>4 DEF Onward, Before, Accepted

-----------------------------------------------------------------------------
(* The history: what is saved, in which order, and what the agent read.    *)

(* A request was made for a dialog that was stored, and a dialog being     *)
(* created was not.                                                        *)
DialogsKnown ==
  /\ \A r \in Runs : pc[r] # "idle" => dialog[runDialog[r]] # "unused"
  /\ creating # NoDialog => dialog[creating] = "unused"

(* A saved pair is that of a run of the dialog that committed it, with     *)
(* nothing earlier left to be saved.                                       *)
SavedBehind ==
  \A d \in Dialogs, r \in Runs : r \in SavedIn(d) =>
    /\ runDialog[r] = d
    /\ pc[r] \in {"committed"} \cup Finished
    /\ \A p \in Runs : Before(p, r) => pc[p] \in Finished

(* A run that committed its pair has it stored while the dialog is.        *)
CommittedIsSaved ==
  \A r \in Runs, d \in Dialogs :
    /\ pc[r] \in {"committed", "done"}
    /\ runDialog[r] = d /\ dialog[d] = "stored"
    => r \in SavedIn(d)

HistoryInv ==
  /\ ChainInv
  /\ DialogsKnown
  /\ SavedBehind
  /\ SavedInOrder
  /\ CommittedIsSaved
  /\ ContextComplete

LEMMA HistoryInit == Init => HistoryInv
<1> SUFFICES ASSUME Init PROVE HistoryInv
  OBVIOUS
<1>1. ChainInv
  BY ChainInit
<1>2. \A r \in Runs : pc[r] = "idle"
  BY DEF Init
<1>3. \A d \in Dialogs : messages[d] = <<>> /\ DOMAIN messages[d] = {}
  BY EmptySeq DEF Init
<1>4. creating = NoDialog
  BY DEF Init
<1> QED
  BY <1>1, <1>2, <1>3, <1>4
     DEF HistoryInv, DialogsKnown, SavedBehind, SavedInOrder, SavedIn,
         CommittedIsSaved, ContextComplete

(* The steps that touch the tables are the commit of a pair and a deletion *)
(* of a dialog; a creation concerns a dialog without requests.             *)
LEMMA StoreStep ==
  ASSUME TypeOK, [Next]_vars
  PROVE  \/ \E r \in Runs : Commit(r)
         \/ \E d \in Dialogs : DeleteDialog(d)
         \/ /\ messages' = messages
            /\ \A r \in Runs : pc'[r] = "committed" => pc[r] = "committed"
            /\ \A r \in Runs : pc'[r] = "done" => pc[r] \in {"committed", "done"}
            /\ \A d \in Dialogs : dialog'[d] = dialog[d] \/ creating = d
<1> USE DEF storeVars, TypeOK
<1>1. CASE UNCHANGED <<messages, dialog, pc>>
  BY <1>1
<1>2. ASSUME NEW t \in Runs, NEW d \in Dialogs, SubmitCheck(t, d)
      PROVE  /\ messages' = messages
             /\ \A r \in Runs : pc'[r] = "committed" => pc[r] = "committed"
             /\ \A r \in Runs : pc'[r] = "done" => pc[r] \in {"committed", "done"}
             /\ \A e \in Dialogs : dialog'[e] = dialog[e] \/ creating = e
  BY <1>2 DEF SubmitCheck
<1>3. ASSUME NEW t \in Runs, Submit(t) \/ SubmitRefused(t)
      PROVE  /\ messages' = messages
             /\ \A r \in Runs : pc'[r] = "committed" => pc[r] = "committed"
             /\ \A r \in Runs : pc'[r] = "done" => pc[r] \in {"committed", "done"}
             /\ \A e \in Dialogs : dialog'[e] = dialog[e] \/ creating = e
  BY <1>3 DEF Submit, SubmitRefused
<1>4. ASSUME NEW t \in Runs, Task(t), ~Commit(t)
      PROVE  /\ messages' = messages
             /\ \A r \in Runs : pc'[r] = "committed" => pc[r] = "committed"
             /\ \A r \in Runs : pc'[r] = "done" => pc[r] \in {"committed", "done"}
             /\ \A e \in Dialogs : dialog'[e] = dialog[e] \/ creating = e
  BY <1>4 DEF Task, Wait, Begin, CheckHistory, LoadHistory, Delta, Respond,
         Finish, RunFails, CancelBeforeStart, CancelWaiting, CancelRunning,
         TaskDone, Move
<1>5. CASE DialogCreated \/ CreateFails
  BY <1>5 DEF DialogCreated, CreateFails, LockFree
<1> QED
  BY <1>1, <1>2, <1>3, <1>4, <1>5
     DEF Next, vars, StartDialog, ShutdownBegin, ShutdownFinish,
         SubscribeCheck, Subscribe, Unsubscribe, Receive, unchangedBySubs

LEMMA DialogsKnownStep ==
  ASSUME TypeOK, TypeOK', DialogsKnown, [Next]_vars
  PROVE  DialogsKnown'
<1> USE DEF DialogsKnown, TypeOK, storeVars, serviceVars, requestVars
<1>1. CASE UNCHANGED <<creating, dialog, runDialog>> /\
           \A r \in Runs : pc'[r] # "idle" => pc[r] # "idle"
  BY <1>1
<1>2. ASSUME NEW t \in Runs, NEW d \in Dialogs, SubmitCheck(t, d)
      PROVE  DialogsKnown'
  BY <1>2 DEF SubmitCheck
<1>3. ASSUME NEW d \in Dialogs, StartDialog(d) PROVE DialogsKnown'
  BY <1>3 DEF StartDialog
<1>4. CASE DialogCreated \/ CreateFails
  BY <1>4 DEF DialogCreated, CreateFails, LockFree
<1>5. ASSUME NEW d \in Dialogs, DeleteDialog(d) PROVE DialogsKnown'
  BY <1>5 DEF DeleteDialog
<1>6. ASSUME NEW t \in Runs, Task(t)
      PROVE  UNCHANGED <<creating, dialog, runDialog>> /\
             \A r \in Runs : pc'[r] # "idle" => pc[r] # "idle"
  BY <1>6 DEF Task, Wait, Begin, CheckHistory, LoadHistory, Delta, Respond,
         Commit, Finish, RunFails, CancelBeforeStart, CancelWaiting,
         CancelRunning, TaskDone, Move, FirstStep, Running
<1>7. ASSUME NEW t \in Runs, Submit(t) \/ SubmitRefused(t)
      PROVE  UNCHANGED <<creating, dialog, runDialog>> /\
             \A r \in Runs : pc'[r] # "idle" => pc[r] # "idle"
  BY <1>7 DEF Submit, SubmitRefused
<1> QED
  BY <1>1, <1>2, <1>3, <1>4, <1>5, <1>6, <1>7
     DEF Next, vars, ShutdownBegin, ShutdownFinish,
         SubscribeCheck, Subscribe, Unsubscribe, Receive, unchangedBySubs

LEMMA AppendedAt ==
  ASSUME NEW S, NEW s \in Seq(S), NEW e \in S
  PROVE  /\ DOMAIN Append(s, e) = DOMAIN s \cup {Len(s) + 1}
         /\ \A i \in DOMAIN s : i \in 1..Len(s) /\ Append(s, e)[i] = s[i]
         /\ Append(s, e)[Len(s) + 1] = e
         /\ Len(s) \in Nat
         /\ DOMAIN s = 1..Len(s)
  BY AppendProperties

(* What a commit does to the messages, pair by pair.                       *)
LEMMA CommittedAt ==
  ASSUME TypeOK, NEW r \in Runs, Commit(r), NEW d \in Dialogs,
         NEW i \in DOMAIN messages'[d]
  PROVE  \/ i \in DOMAIN messages[d] /\ messages'[d][i] = messages[d][i]
         \/ /\ d = runDialog[r] /\ messages'[d][i] = r
            /\ i = Len(messages[d]) + 1
<1>1. messages[d] \in Seq(Runs) /\ runDialog[r] \in Dialogs
  BY DEF TypeOK, Commit
<1>2. messages' = [messages EXCEPT ![runDialog[r]] = Append(@, r)]
  BY DEF Commit
<1>3. CASE d = runDialog[r]
  <2>1. messages'[d] = Append(messages[d], r)
    BY <1>2, <1>3 DEF TypeOK
  <2> QED
    BY <1>1, <1>3, <2>1, AppendedAt
<1>4. CASE d # runDialog[r]
  BY <1>2, <1>4 DEF TypeOK
<1> QED
  BY <1>3, <1>4

LEMMA SavedStep ==
  ASSUME TypeOK, [Next]_vars, NEW d \in Dialogs, NEW q \in SavedIn(d)'
  PROVE  q \in Runs /\ (q \in SavedIn(d) \/ (runDialog[q] = d /\ Commit(q)))
<1>1. PICK i \in DOMAIN messages'[d] : messages'[d][i] = q
  BY DEF SavedIn
<1>2. \A j \in DOMAIN messages[d] : messages[d][j] \in Runs
  BY ElementOfSeq DEF TypeOK
<1>3. CASE i \in DOMAIN messages[d] /\ messages'[d][i] = messages[d][i]
  BY <1>1, <1>2, <1>3 DEF SavedIn
<1>4. ASSUME NEW r \in Runs, Commit(r)
      PROVE  q \in Runs /\ (q \in SavedIn(d) \/ (runDialog[q] = d /\ Commit(q)))
  BY <1>1, <1>3, <1>4, CommittedAt
<1>5. ASSUME NEW e \in Dialogs, DeleteDialog(e)
      PROVE  messages'[d] = messages[d]
  BY <1>1, <1>5, EmptySeq DEF DeleteDialog, TypeOK
<1> QED
  BY <1>1, <1>3, <1>4, <1>5, StoreStep

LEMMA SavedBehindStep ==
  ASSUME ChainInv, ChainInv', SavedBehind, [Next]_vars
  PROVE  SavedBehind'
<1> SUFFICES ASSUME NEW d \in Dialogs, NEW q \in Runs, q \in SavedIn(d)'
             PROVE  /\ runDialog'[q] = d
                    /\ pc'[q] \in {"committed"} \cup Finished
                    /\ \A p \in Runs : Before(p, q)' => pc'[p] \in Finished
  BY DEF SavedBehind
<1>0. TypeOK /\ \A p \in Runs : Onward(p)
  BY OnwardStep DEF ChainInv
<1>1. CASE q \in SavedIn(d)
  <2>1. /\ runDialog[q] = d /\ pc[q] \in {"committed"} \cup Finished
        /\ \A p \in Runs : Before(p, q) => pc[p] \in Finished
    BY <1>1 DEF SavedBehind
  <2>2. Accepted(q)
    BY <2>1 DEF Accepted, Unfinished, Running
  <2>3. \A p \in Runs : Before(p, q)' => Before(p, q)
    BY <2>2, BeforeStep
  <2> QED
    BY <1>0, <2>1, <2>2, <2>3 DEF Onward
<1>2. CASE runDialog[q] = d /\ Commit(q)
  <2>1. pc'[q] = "committed" /\ runDialog' = runDialog /\ pc[q] = "appending"
    BY <1>0, <1>2 DEF Commit, Move, TypeOK, requestVars
  <2>2. Accepted(q)
    BY <2>1 DEF Accepted, Unfinished, Running
  <2>3. \A p \in Runs : Before(p, q)' => Before(p, q)
    BY <2>2, BeforeStep
  <2>4. \A p \in Runs : Before(p, q) => pc[p] \in Finished
    BY <2>1 DEF ChainInv, EarlierOver, Running
  <2> QED
    BY <1>0, <1>2, <2>1, <2>3, <2>4 DEF Onward
<1> QED
  BY <1>0, <1>1, <1>2, SavedStep

(* Saved runs have tickets in the order of their pairs: when a run commits,*)
(* a saved run with a later ticket would have had it behind it.            *)
LEMMA SavedInOrderStep ==
  ASSUME ChainInv, ChainInv', SavedBehind, SavedInOrder, [Next]_vars
  PROVE  SavedInOrder'
<1> USE DEF SavedInOrder
<1>0. TypeOK
  BY DEF ChainInv
<1>1. ASSUME NEW d \in Dialogs, NEW i \in DOMAIN messages[d]
      PROVE  messages[d][i] \in Runs /\ Accepted(messages[d][i])
  <2>1. messages[d][i] \in Runs /\ messages[d][i] \in SavedIn(d)
    BY <1>0, <1>1, ElementOfSeq DEF TypeOK, SavedIn
  <2> QED
    BY <2>1 DEF SavedBehind, Accepted, Unfinished, Running
<1>2. ASSUME NEW d \in Dialogs, NEW i \in DOMAIN messages[d]
      PROVE  ticket'[messages[d][i]] = ticket[messages[d][i]]
  <2>1. PICK q \in Runs : q = messages[d][i] /\ Accepted(q)
    BY <1>1, <1>2
  <2>2. Onward(q)
    BY <1>0, OnwardStep
  <2> QED
    BY <2>1, <2>2 DEF Onward
<1>3. ASSUME NEW r \in Runs, Commit(r) PROVE SavedInOrder'
  <2> SUFFICES ASSUME NEW d \in Dialogs, NEW i \in DOMAIN messages'[d],
                      NEW j \in DOMAIN messages'[d], i < j
               PROVE  ticket'[messages'[d][i]] < ticket'[messages'[d][j]]
    OBVIOUS
  <2>0. messages[d] \in Seq(Runs) /\ DOMAIN messages[d] = 1..Len(messages[d])
          /\ Len(messages[d]) \in Nat
    BY <1>0 DEF TypeOK
  <2>1. i \in DOMAIN messages[d] /\ messages'[d][i] = messages[d][i]
    BY <1>0, <1>3, <2>0, CommittedAt
  <2>2. CASE j \in DOMAIN messages[d] /\ messages'[d][j] = messages[d][j]
    BY <1>2, <2>1, <2>2
  <2>3. CASE d = runDialog[r] /\ messages'[d][j] = r
    <3>1. PICK q \in Runs : q = messages[d][i] /\ Accepted(q)
      BY <1>1, <2>1
    <3>2. /\ runDialog[q] = d /\ pc[q] \in {"committed"} \cup Finished
          /\ \A p \in Runs : Before(p, q) => pc[p] \in Finished
      BY <2>1, <3>1 DEF SavedBehind, SavedIn
    <3>3. pc[r] = "appending" /\ Accepted(r) /\ ticket' = ticket
      BY <1>3 DEF Commit, Accepted, Unfinished, Running, requestVars
    <3>4. ~Before(r, q)
      BY <3>2, <3>3 DEF Finished
    <3>5. ticket[q] \in Nat /\ ticket[r] \in Nat /\ ticket[r] > 0
      BY <1>0, <3>3 DEF TypeOK, ChainInv, TicketsUnique, Accepted
    <3>6. ticket[q] # ticket[r]
      BY <3>2, <3>3, <3>5 DEF ChainInv, TicketsUnique, Finished
    <3>7. ticket[q] < ticket[r]
      BY <2>3, <3>1, <3>2, <3>3, <3>4, <3>5, <3>6 DEF Before, Accepted
    <3> QED
      BY <2>1, <2>3, <3>1, <3>3, <3>7
  <2> QED
    BY <1>0, <1>3, <2>2, <2>3, CommittedAt
<1>4. CASE \A d \in Dialogs : messages'[d] = messages[d] \/ messages'[d] = <<>>
  <2> SUFFICES ASSUME NEW d \in Dialogs, NEW i \in DOMAIN messages'[d],
                      NEW j \in DOMAIN messages'[d], i < j
               PROVE  ticket'[messages'[d][i]] < ticket'[messages'[d][j]]
    OBVIOUS
  <2>1. messages'[d] = messages[d]
    BY <1>4, EmptySeq
  <2> QED
    BY <1>2, <2>1
<1>5. ASSUME NEW d \in Dialogs, DeleteDialog(d)
      PROVE  \A e \in Dialogs : messages'[e] = messages[e] \/ messages'[e] = <<>>
  BY <1>0, <1>5 DEF DeleteDialog, TypeOK
<1> QED
  BY <1>0, <1>3, <1>4, <1>5, StoreStep

LEMMA CommittedIsSavedStep ==
  ASSUME TypeOK, DialogsKnown, CommittedIsSaved, [Next]_vars
  PROVE  CommittedIsSaved'
<1> SUFFICES ASSUME NEW r \in Runs, NEW d \in Dialogs,
                    pc'[r] \in {"committed", "done"},
                    runDialog'[r] = d, dialog'[d] = "stored"
             PROVE  r \in SavedIn(d)'
  BY DEF CommittedIsSaved
<1>0. Onward(r)
  BY OnwardStep
<1>1. ASSUME pc[r] \in {"committed", "done"}
      PROVE  runDialog[r] = d /\ (dialog[d] = "stored" => r \in SavedIn(d))
  BY <1>0, <1>1 DEF Onward, TypeOK, CommittedIsSaved
<1>2. ASSUME NEW t \in Runs, Commit(t) PROVE r \in SavedIn(d)'
  <2>1. d = runDialog[r]
    BY <1>0, <1>2 DEF Commit, TypeOK, requestVars, Move
  <2>2. messages[d] \in Seq(Runs)
    BY DEF TypeOK
  <2>3. messages' = [messages EXCEPT ![runDialog[t]] = Append(@, t)]
          /\ dialog' = dialog
    BY <1>2 DEF Commit
  <2>4. CASE t = r
    <3>1. messages'[d] = Append(messages[d], r)
      BY <2>1, <2>3, <2>4 DEF TypeOK
    <3>2. /\ messages'[d][Len(messages[d]) + 1] = r
          /\ Len(messages[d]) + 1 \in DOMAIN messages'[d]
      BY <2>2, <3>1, AppendedAt
    <3> QED
      BY <2>1, <3>2 DEF SavedIn
  <2>5. CASE t # r
    <3>1. pc[r] \in {"committed", "done"}
      BY <1>2, <2>5 DEF Commit, Move, TypeOK
    <3>2. PICK i \in DOMAIN messages[d] : messages[d][i] = r
      BY <1>1, <2>1, <2>3, <3>1 DEF SavedIn
    <3>3. i \in DOMAIN messages'[d] /\ messages'[d][i] = r
      <4>1. CASE runDialog[t] = d
        <5>1. messages'[d] = Append(messages[d], t)
          BY <2>3, <4>1 DEF TypeOK
        <5> QED
          BY <2>2, <3>2, <5>1, AppendedAt
      <4>2. CASE runDialog[t] # d
        BY <2>3, <3>2, <4>2 DEF TypeOK
      <4> QED
        BY <4>1, <4>2
    <3> QED
      BY <2>1, <3>3 DEF SavedIn
  <2> QED
    BY <2>4, <2>5
<1>3. ASSUME NEW e \in Dialogs, DeleteDialog(e)
      PROVE  r \in SavedIn(d)'
  <2>1. pc[r] \in {"committed", "done"} /\ e # d
    BY <1>3 DEF DeleteDialog, TypeOK
  <2>2. messages'[d] = messages[d] /\ dialog[d] = "stored"
    BY <1>3, <2>1 DEF DeleteDialog, TypeOK
  <2> QED
    BY <1>1, <2>1, <2>2 DEF SavedIn
<1>4. ASSUME messages' = messages, pc[r] \in {"committed", "done"},
             \A e \in Dialogs : dialog'[e] = dialog[e] \/ creating = e
      PROVE  r \in SavedIn(d)'
  <2>1. dialog[d] = "stored"
    BY <1>1, <1>4, ServiceAssumption DEF DialogsKnown
  <2> QED
    BY <1>1, <1>4, <2>1 DEF SavedIn
<1> QED
  BY <1>2, <1>3, <1>4, StoreStep

(* A run is given its history by the load, and keeps it.                   *)
LEMMA SeenStep ==
  ASSUME TypeOK, [Next]_vars, NEW r \in Runs,
         pc'[r] \in {"streaming", "appending", "committed"}
  PROVE  \/ LoadHistory(r)
         \/ Commit(r)
         \/ /\ seen'[r] = seen[r]
            /\ pc[r] \in {"streaming", "appending", "committed"}
            /\ pc'[r] = "committed" <=> pc[r] = "committed"
<1> USE DEF TypeOK
<1>1. CASE UNCHANGED <<pc, seen>>
  BY <1>1
<1>2. ASSUME NEW t \in Runs,
             (\E d \in Dialogs : SubmitCheck(t, d)) \/ Submit(t)
               \/ SubmitRefused(t)
      PROVE  UNCHANGED seen /\ pc'[r] = pc[r]
  BY <1>2 DEF SubmitCheck, Submit, SubmitRefused
<1>3. ASSUME NEW t \in Runs, Task(t), t # r
      PROVE  seen'[r] = seen[r] /\ pc'[r] = pc[r]
  BY <1>3 DEF Task, Wait, Begin, CheckHistory, LoadHistory, Delta, Respond,
         Commit, Finish, RunFails, CancelBeforeStart, CancelWaiting,
         CancelRunning, TaskDone, Move
<1>4. CASE Task(r)
  BY <1>4 DEF Task, Wait, Begin, CheckHistory, Delta, Respond,
         Finish, RunFails, CancelBeforeStart, CancelWaiting,
         CancelRunning, TaskDone, Move
<1> QED
  BY <1>1, <1>2, <1>3, <1>4
     DEF Next, vars, StartDialog, DialogCreated, CreateFails, DeleteDialog,
         ShutdownBegin, ShutdownFinish, SubscribeCheck, Subscribe,
         Unsubscribe, Receive, unchangedBySubs

(* Nothing is added to a dialog between the reading of its history and the *)
(* saving of the answer, because the run that reads is its only active one.*)
LEMMA ContextStep ==
  ASSUME TypeOK, DialogsKnown, OneActiveRun, ContextComplete, [Next]_vars
  PROVE  ContextComplete'
<1> SUFFICES ASSUME NEW r \in Runs,
                    pc'[r] \in {"streaming", "appending", "committed"},
                    dialog'[runDialog'[r]] = "stored"
             PROVE  messages'[runDialog'[r]] =
                      IF pc'[r] = "committed" THEN Append(seen'[r], r)
                      ELSE seen'[r]
  BY DEF ContextComplete
<1>1. CASE LoadHistory(r)
  <2>1. /\ seen' = [seen EXCEPT ![r] = messages[runDialog[r]]]
        /\ pc'[r] = "streaming" /\ UNCHANGED <<messages, runDialog>>
    BY <1>1 DEF LoadHistory, Move, TypeOK, requestVars, storeVars
  <2>2. seen'[r] = messages[runDialog[r]]
    BY <2>1 DEF TypeOK
  <2> QED
    BY <2>1, <2>2
<1>2. CASE Commit(r)
  <2>1. /\ messages' = [messages EXCEPT ![runDialog[r]] = Append(@, r)]
        /\ pc[r] = "appending" /\ pc'[r] = "committed"
        /\ dialog[runDialog[r]] = "stored"
        /\ UNCHANGED <<seen, runDialog>> /\ runDialog[r] \in Dialogs
    BY <1>2 DEF Commit, Move, TypeOK, requestVars
  <2>2. messages[runDialog[r]] = seen[r]
    BY <2>1 DEF ContextComplete
  <2>3. messages'[runDialog[r]] = Append(messages[runDialog[r]], r)
    BY <2>1 DEF TypeOK
  <2> QED
    BY <2>1, <2>2, <2>3
<1>3. ASSUME seen'[r] = seen[r],
             pc[r] \in {"streaming", "appending", "committed"},
             pc'[r] = "committed" <=> pc[r] = "committed",
             ~Commit(r)
      PROVE  messages'[runDialog'[r]] =
               IF pc'[r] = "committed" THEN Append(seen'[r], r) ELSE seen'[r]
  <2>1. runDialog'[r] = runDialog[r] /\ runDialog[r] \in Dialogs
    BY <1>3, OnwardStep DEF Onward, TypeOK
  <2>2. \/ messages'[runDialog[r]] = messages[runDialog[r]]
              /\ dialog[runDialog[r]] = "stored"
    <3>1. ASSUME NEW t \in Runs, Commit(t)
          PROVE  messages'[runDialog[r]] = messages[runDialog[r]]
                   /\ dialog[runDialog[r]] = "stored"
      <4>1. t # r /\ pc[t] = "appending"
        BY <1>3, <3>1 DEF Commit
      <4>2. runDialog[t] # runDialog[r]
        BY <1>3, <4>1 DEF OneActiveRun, Running
      <4> QED
        BY <2>1, <3>1, <4>2 DEF Commit, TypeOK
    <3>2. ASSUME NEW e \in Dialogs, DeleteDialog(e)
          PROVE  messages'[runDialog[r]] = messages[runDialog[r]]
                   /\ dialog[runDialog[r]] = "stored"
      BY <2>1, <3>2 DEF DeleteDialog, TypeOK
    <3>3. ASSUME messages' = messages,
                 \A d \in Dialogs : dialog'[d] = dialog[d] \/ creating = d
          PROVE  dialog[runDialog[r]] = "stored"
      BY <1>3, <2>1, <3>3, ServiceAssumption DEF DialogsKnown
    <3> QED
      BY <3>1, <3>2, <3>3, StoreStep
  <2> QED
    BY <1>3, <2>1, <2>2 DEF ContextComplete
<1> QED
  BY <1>1, <1>2, <1>3, SeenStep

(* The inductive invariant of the history.                                 *)
THEOREM HistoryInvariant == Spec => []HistoryInv
<1>1. HistoryInv /\ [Next]_vars => HistoryInv'
  <2> SUFFICES ASSUME HistoryInv, [Next]_vars PROVE HistoryInv'
    OBVIOUS
  <2>1. ChainInv /\ ChainInv' /\ TypeOK /\ TypeOK' /\ OneActiveRun
    BY ChainStep, ChainImpliesOneActive DEF HistoryInv, ChainInv
  <2>2. DialogsKnown' /\ CommittedIsSaved'
    BY <2>1, DialogsKnownStep, CommittedIsSavedStep DEF HistoryInv
  <2>3. SavedBehind' /\ SavedInOrder'
    BY <2>1, SavedBehindStep, SavedInOrderStep DEF HistoryInv
  <2>4. ContextComplete'
    BY <2>1, ContextStep DEF HistoryInv
  <2> QED
    BY <2>1, <2>2, <2>3, <2>4 DEF HistoryInv
<1> QED
  BY <1>1, HistoryInit, PTL DEF Spec

(* The pairs of a dialog are stored in the order in which its requests were*)
(* accepted, each once, whatever fails, is cancelled or deleted between.   *)
THEOREM PairsSavedInOrder == Spec => []SavedInOrder
<1>1. HistoryInv => SavedInOrder
  BY DEF HistoryInv
<1> QED
  BY <1>1, HistoryInvariant, PTL

(* The agent answers with the whole history of the dialog, and its answer  *)
(* is stored right after what it has read.                                 *)
THEOREM AnswersWithWholeHistory == Spec => []ContextComplete
<1>1. HistoryInv => ContextComplete
  BY DEF HistoryInv
<1> QED
  BY <1>1, HistoryInvariant, PTL

-----------------------------------------------------------------------------
(* The events of a dialog.                                                 *)

(* The events published for a dialog, and the latest of them.              *)
ToldIn(d) == {published[d][i] : i \in DOMAIN published[d]}
LatestIn(d) == published[d][Len(published[d])]

(* The tail of a dialog is a request of it, and a task awaits an earlier   *)
(* one of its dialog.                                                      *)
TailsOwn ==
  \A d \in Dialogs : tails[d] # NoRun =>
    Accepted(tails[d]) /\ runDialog[tails[d]] = d

PrevsOwn ==
  \A q, r \in Runs : Accepted(r) /\ prev[r] = q => Before(q, r)

(* A waiting task awaits one that had its first step, so the dialog has    *)
(* events; and one that was cancelled then had nothing before it left.     *)
WaitersBehind ==
  \A r \in Runs, d \in Dialogs : pc[r] = "waiting" /\ runDialog[r] = d =>
    /\ prev[r] # NoRun /\ pc[prev[r]] # "scheduled"
    /\ published[d] # <<>>

CancelledBehind ==
  \A p, q, r \in Runs :
    /\ pc[r] = "waiting" /\ prev[r] = p
    /\ pc[p] = "cancelled" /\ Before(q, p)
    => pc[q] \in Finished

(* Events are of runs that got past the await, terminal ones of runs that  *)
(* ended.                                                                  *)
ToldByRuns ==
  \A d \in Dialogs, e \in RunEvents : e \in ToldIn(d) =>
    /\ runDialog[e.run] = d
    /\ pc[e.run] \in Running \cup Finished
    /\ e.type \in Terminal => pc[e.run] \in Finished
    /\ e.type = "message_end" => pc[e.run] = "done"

(* The latest event of a dialog is the active run's, or a terminal one.    *)
Speaking ==
  \A r \in Runs, d \in Dialogs : pc[r] \in Running /\ runDialog[r] = d =>
    /\ published[d] # <<>>
    /\ LatestIn(d).run = r /\ LatestIn(d).type \notin Terminal

Silent ==
  \A d \in Dialogs :
    /\ published[d] # <<>>
    /\ \A r \in Runs : pc[r] \in Running => runDialog[r] # d
    => LatestIn(d).type \in Terminal

(* Where the terminal events of a run stand, and that it has one, of this  *)
(* type.                                                                   *)
TerminalAt(events, r) ==
  {i \in DOMAIN events : events[i].run = r /\ events[i].type \in Terminal}

ToldOnce(events, r, type) ==
  \E i \in DOMAIN events :
    TerminalAt(events, r) = {i} /\ events[i].type = type

OutcomeOf(state) == IF state = "done" THEN "message_end" ELSE "message_error"

OutcomeOnce ==
  \A r \in Runs, d \in Dialogs :
    pc[r] \in {"done", "failed"} /\ runDialog[r] = d =>
      ToldOnce(published[d], r, OutcomeOf(pc[r]))

StoryInv ==
  /\ ChainInv
  /\ TailsOwn
  /\ PrevsOwn
  /\ WaitersBehind
  /\ CancelledBehind
  /\ ToldByRuns
  /\ Speaking
  /\ Silent
  /\ EventsInOrder
  /\ OutcomeOnce

LEMMA StoryInit == Init => StoryInv
<1> SUFFICES ASSUME Init PROVE StoryInv
  OBVIOUS
<1>1. ChainInv
  BY ChainInit
<1>2. \A r \in Runs : pc[r] = "idle"
  BY DEF Init
<1>3. \A d \in Dialogs : published[d] = <<>> /\ DOMAIN published[d] = {}
  BY EmptySeq DEF Init
<1>4. \A d \in Dialogs : tails[d] = NoRun
  BY DEF Init
<1>5. EventsInOrder
  BY <1>3, EmptySeq DEF EventsInOrder, InOrder
<1> QED
  BY <1>1, <1>2, <1>3, <1>4, <1>5
     DEF StoryInv, TailsOwn, PrevsOwn, WaitersBehind, CancelledBehind,
         ToldByRuns, ToldIn, Speaking, Silent, OutcomeOnce, Accepted, Running,
         Unfinished, Finished

(* No run of the dialog is active while one that has everything before it  *)
(* behind it has not begun.                                                *)
LEMMA NobodySpeaks ==
  ASSUME ChainInv, NEW r \in Runs, pc[r] \in {"scheduled", "waiting"},
         \A q \in Runs : Before(q, r) => pc[q] \in Finished,
         NEW q \in Runs, pc[q] \in Running
  PROVE  runDialog[q] # runDialog[r]
<1> SUFFICES ASSUME runDialog[q] = runDialog[r] PROVE FALSE
  OBVIOUS
<1>1. /\ pc[q] \in Unfinished \cup Finished /\ pc[r] \in Unfinished \cup Finished
      /\ pc[q] \notin Finished /\ pc[r] \notin Finished /\ q # r
  BY DEF Unfinished, Running, Finished
<1>2. ticket[q] \in Nat /\ ticket[r] \in Nat /\ ticket[q] # ticket[r]
  BY <1>1 DEF ChainInv, TypeOK, TicketsUnique
<1>3. Before(q, r) \/ Before(r, q)
  BY <1>1, <1>2 DEF Before
<1> QED
  BY <1>1, <1>3 DEF ChainInv, EarlierOver

(* When the awaited task is over, so is everything before the waiting one. *)
LEMMA WaitedOver ==
  ASSUME ChainInv, CancelledBehind, NEW r \in Runs, pc[r] = "waiting",
         PreviousOver(r), NEW q \in Runs, Before(q, r)
  PROVE  pc[q] \in Finished
<1>1. CASE ~PreviousCancelled(r)
  BY <1>1, NothingEarlierRuns
<1>2. CASE PreviousCancelled(r)
  <2> SUFFICES ASSUME pc[q] \in Unfinished PROVE pc[q] \in Finished
    BY DEF Before
  <2>1. PICK p \in Runs : p = prev[r] /\ pc[p] = "cancelled"
    BY <1>2 DEF PreviousCancelled, ChainInv, TypeOK
  <2>2. runDialog[p] = runDialog[r] /\ ticket[q] <= ticket[p]
    BY <2>1 DEF ChainInv, WaitsForNewest
  <2>3. q # p
    BY <2>1 DEF Unfinished, Running
  <2>4. ticket[q] \in Nat /\ ticket[p] \in Nat /\ ticket[q] > 0
    BY DEF ChainInv, TypeOK, TicketsUnique
  <2>5. ticket[q] # ticket[p]
    BY <2>3, <2>4 DEF ChainInv, TicketsUnique
  <2>6. Before(q, p)
    BY <2>1, <2>2, <2>4, <2>5 DEF Before, Finished
  <2> QED
    BY <2>1, <2>6 DEF CancelledBehind
<1> QED
  BY <1>1, <1>2

-----------------------------------------------------------------------------
(* What publishing an event does to the events of a dialog.                *)

LEMMA PublishedAt ==
  ASSUME TypeOK, NEW r \in Runs, pc[r] # "idle", NEW type \in EventTypes,
         Publish(r, type), NEW d \in Dialogs
  PROVE  /\ d # runDialog[r] => published'[d] = published[d]
         /\ d = runDialog[r] =>
              /\ published'[d] = Append(published[d], [run |-> r, type |-> type])
              /\ published'[d] # <<>>
              /\ LatestIn(d)' = [run |-> r, type |-> type]
              /\ \A e \in ToldIn(d)' :
                   e \in ToldIn(d) \/ e = [run |-> r, type |-> type]
<1> DEFINE e == [run |-> r, type |-> type]
<1>1. /\ published' = [published EXCEPT ![runDialog[r]] = Append(@, e)]
      /\ published[d] \in Seq(RunEvents) /\ e \in RunEvents
      /\ published \in [Dialogs -> Seq(RunEvents)]
  BY DEF Publish, TypeOK, RunEvents
<1> HIDE DEF e
<1>2. CASE d # runDialog[r]
  BY <1>1, <1>2
<1>3. CASE d = runDialog[r]
  <2>1. published'[d] = Append(published[d], e)
    BY <1>1, <1>3
  <2>2. /\ DOMAIN published'[d] = DOMAIN published[d] \cup {Len(published[d]) + 1}
        /\ \A i \in DOMAIN published[d] : published'[d][i] = published[d][i]
        /\ published'[d][Len(published[d]) + 1] = e
    BY <1>1, <2>1, AppendedAt
  <2>3. Len(published'[d]) = Len(published[d]) + 1 /\ published'[d] # <<>>
    BY <1>1, <2>1, <2>2, AppendProperties, EmptySeq
  <2>4. \A x \in ToldIn(d)' : x \in ToldIn(d) \/ x = e
    BY <2>2 DEF ToldIn
  <2>5. LatestIn(d)' = e
    BY <2>2, <2>3 DEF LatestIn
  <2> QED
    BY <1>3, <2>1, <2>3, <2>4, <2>5 DEF e
<1> QED
  BY <1>2, <1>3

(* An event that may follow the latest keeps the events in order.          *)
LEMMA StaysInOrder ==
  ASSUME NEW s \in Seq(RunEvents), NEW e \in RunEvents,
         InOrder(s), s # <<>> => s[1].type = "message_start",
         IF s = <<>> THEN e.type = "message_start" ELSE MayFollow(s[Len(s)], e)
  PROVE  InOrder(Append(s, e)) /\ Append(s, e)[1].type = "message_start"
<1> DEFINE a == Append(s, e)
<1>1. /\ Len(s) \in Nat /\ Len(a) = Len(s) + 1
      /\ \A i \in 1..Len(s) : a[i] = s[i]
      /\ a[Len(s) + 1] = e
      /\ s = <<>> <=> Len(s) = 0
  BY AppendProperties, EmptySeq
<1> HIDE DEF a
<1>2. ASSUME NEW i \in 1..(Len(a) - 1) PROVE MayFollow(a[i], a[i + 1])
  <2>1. CASE i = Len(s)
    <3>1. s # <<>> /\ a[i] = s[Len(s)] /\ a[i + 1] = e
      BY <1>1, <1>2, <2>1
    <3> QED
      BY <3>1
  <2>2. CASE i # Len(s)
    <3>1. i \in 1..(Len(s) - 1) /\ a[i] = s[i] /\ a[i + 1] = s[i + 1]
      BY <1>1, <1>2, <2>2
    <3> QED
      BY <3>1 DEF InOrder
  <2> QED
    BY <2>1, <2>2
<1>3. a[1].type = "message_start"
  BY <1>1
<1> QED
  BY <1>2, <1>3 DEF InOrder, a

(* Where the events come from.                                             *)
Ends(r) == Finish(r) \/ RunFails(r) \/ CancelRunning(r)

QuietStep ==
  /\ published' = published
  /\ \A r \in Runs :
       /\ pc'[r] \in Running <=> pc[r] \in Running
       /\ pc'[r] = "waiting" => pc[r] = "waiting"
       /\ pc'[r] \in {"done", "failed"} => pc'[r] = pc[r]
       /\ pc'[r] = "cancelled" => pc[r] \in {"scheduled", "cancelled"}

LEMMA StorySteps ==
  ASSUME TypeOK, [Next]_vars
  PROVE  \/ QuietStep
         \/ \E r \in Runs : \/ Wait(r)
                            \/ Begin(r)
                            \/ Delta(r)
                            \/ Ends(r)
                            \/ CancelWaiting(r)
<1> USE DEF QuietStep, eventVars, Running, Finished, TypeOK
<1>1. CASE UNCHANGED <<published, pc>>
  BY <1>1
<1>2. ASSUME NEW t \in Runs,
             (\E d \in Dialogs : SubmitCheck(t, d)) \/ Submit(t)
               \/ SubmitRefused(t)
      PROVE  QuietStep
  BY <1>2 DEF SubmitCheck, Submit, SubmitRefused
<1>3. ASSUME NEW t \in Runs, Task(t),
             ~(Wait(t) \/ Begin(t) \/ Delta(t) \/ Ends(t) \/ CancelWaiting(t))
      PROVE  QuietStep
  BY <1>3 DEF Task, Ends, CheckHistory, LoadHistory, Respond, Commit,
         CancelBeforeStart, FirstStep, TaskDone, Move
<1> QED
  BY <1>1, <1>2, <1>3
     DEF Next, vars, StartDialog, DialogCreated, CreateFails, DeleteDialog,
         ShutdownBegin, ShutdownFinish, SubscribeCheck, Subscribe,
         Unsubscribe, Receive, unchangedBySubs

(* What the steps that publish have in common.                             *)
Publishing(r, type, state) ==
  /\ pc[r] \in Unfinished /\ type \in EventTypes
  /\ Publish(r, type)
  /\ pc' = [pc EXCEPT ![r] = state]
  /\ UNCHANGED <<runDialog, prev, ticket>>

LEMMA PublishingSteps ==
  ASSUME TypeOK, NEW r \in Runs
  PROVE  /\ Begin(r) => /\ Publishing(r, "message_start", "reading")
                        /\ pc[r] \in {"scheduled", "waiting"}
                        /\ PreviousOver(r) /\ ~PreviousCancelled(r)
         /\ Delta(r) => Publishing(r, "message_delta", pc[r]) /\ pc[r] \in Running
         /\ Ends(r) => /\ pc[r] \in Running
                       /\ \/ Publishing(r, "message_end", "done")
                          \/ Publishing(r, "message_error", "failed")
                          \/ Publishing(r, "message_error", "cancelled")
         /\ CancelWaiting(r) => /\ Publishing(r, "message_error", "cancelled")
                                /\ pc[r] = "waiting" /\ PreviousOver(r)
  BY DEF Publishing, Begin, Delta, Ends, Finish, RunFails, CancelRunning,
         CancelWaiting, FirstStep, Move, EventTypes, Unfinished, Running,
         requestVars, TypeOK

(* Before a run that begins, or is cancelled while it waits, all is over.  *)
LEMMA TurnSteps ==
  ASSUME ChainInv, CancelledBehind, NEW r \in Runs, Begin(r) \/ CancelWaiting(r)
  PROVE  /\ \A q \in Runs : Before(q, r) => pc[q] \in Finished
         /\ \A q \in Runs : pc[q] \in Running => runDialog[q] # runDialog[r]
<1>0. TypeOK
  BY DEF ChainInv
<1>1. \A q \in Runs : Before(q, r) => pc[q] \in Finished
  <2>1. CASE Begin(r)
    BY <1>0, <2>1, PublishingSteps, NothingEarlierRuns
  <2>2. CASE CancelWaiting(r)
    BY <1>0, <2>2, PublishingSteps, WaitedOver
  <2> QED
    BY <2>1, <2>2
<1>2. pc[r] \in {"scheduled", "waiting"}
  BY <1>0, PublishingSteps
<1> QED
  BY <1>1, <1>2, NobodySpeaks

LEMMA TailsOwnStep ==
  ASSUME TypeOK, TypeOK', TailsOwn, [Next]_vars
  PROVE  TailsOwn'
<1> SUFFICES ASSUME NEW d \in Dialogs, NEW q \in Runs, tails'[d] = q
             PROVE  Accepted(q)' /\ runDialog'[q] = d
  BY ServiceAssumption DEF TailsOwn, TypeOK
<1>0. Onward(q)
  BY OnwardStep
<1>1. CASE tails[d] = q
  BY <1>0, <1>1, ServiceAssumption DEF TailsOwn, Onward
<1>2. ASSUME NEW r \in Runs, Submit(r), tails[d] # q
      PROVE  Accepted(q)' /\ runDialog'[q] = d
  BY <1>2 DEF Submit, TypeOK, Accepted, Unfinished
<1>3. ASSUME NEW r \in Runs, Task(r) PROVE tails'[d] \in {tails[d], NoRun}
  BY <1>3 DEF Task, Wait, Begin, CheckHistory, LoadHistory, Delta, Respond,
         Commit, Finish, RunFails, CancelBeforeStart, CancelWaiting,
         CancelRunning, TaskDone, serviceVars, TypeOK
<1>4. CASE ShutdownFinish
  BY <1>4, ServiceAssumption DEF ShutdownFinish
<1> QED
  BY <1>1, <1>2, <1>3, <1>4, ServiceAssumption
     DEF Next, vars, StartDialog, DialogCreated, CreateFails, DeleteDialog,
         ShutdownBegin, SubscribeCheck, Subscribe, SubmitCheck, SubmitRefused,
         Unsubscribe, Receive, unchangedBySubs, serviceVars

LEMMA PrevsOwnStep ==
  ASSUME ChainInv, ChainInv', TailsOwn, PrevsOwn, [Next]_vars
  PROVE  PrevsOwn'
<1> SUFFICES ASSUME NEW q \in Runs, NEW r \in Runs, Accepted(r)', prev'[r] = q
             PROVE  Before(q, r)'
  BY DEF PrevsOwn
<1>0. TypeOK /\ TypeOK' /\ Onward(q) /\ Onward(r)
  BY OnwardStep DEF ChainInv
<1>1. CASE Accepted(r)
  <2>1. Before(q, r)
    BY <1>0, <1>1 DEF Onward, PrevsOwn
  <2> QED
    BY <1>0, <2>1 DEF Onward, Before, Accepted
<1>2. CASE ~Accepted(r)
  <2>1. pc[r] = "checked" /\ pc'[r] = "scheduled" /\ ticket'[r] = accepted + 1
    BY <1>0, <1>2 DEF Onward
  <2>2. Submit(r)
    <3>1. ASSUME NEW t \in Runs, Task(t) PROVE pc'[r] # "scheduled" \/ pc[r] = "scheduled"
      BY <1>0, <3>1
         DEF Task, Wait, Begin, CheckHistory, LoadHistory, Delta, Respond,
             Commit, Finish, RunFails, CancelBeforeStart, CancelWaiting,
             CancelRunning, TaskDone, Move, TypeOK
    <3>2. ASSUME NEW t \in Runs, Submit(t), t # r PROVE pc'[r] = pc[r]
      BY <1>0, <3>2 DEF Submit, TypeOK
    <3> QED
      BY <1>0, <2>1, <3>1, <3>2
         DEF Next, vars, StartDialog, DialogCreated, CreateFails, DeleteDialog,
             ShutdownBegin, ShutdownFinish, SubscribeCheck, Subscribe,
             SubmitCheck, SubmitRefused, Unsubscribe, Receive,
             unchangedBySubs, TypeOK
  <2>3. /\ tails[runDialog[r]] = q /\ runDialog[r] \in Dialogs
        /\ UNCHANGED runDialog
    BY <1>0, <2>1, <2>2 DEF Submit, TypeOK
  <2>4. Accepted(q) /\ runDialog[q] = runDialog[r]
    BY <2>3, ServiceAssumption DEF TailsOwn
  <2>5. ticket[q] \in 0..accepted /\ accepted \in Nat /\ ticket'[q] = ticket[q]
    BY <1>0, <2>4 DEF TypeOK, Onward
  <2> QED
    BY <1>0, <2>1, <2>3, <2>4, <2>5 DEF Before, Accepted, Onward
<1> QED
  BY <1>1, <1>2

(* Events only come to the events of a dialog.                             *)
LEMMA ToldSteps ==
  ASSUME TypeOK, [Next]_vars, NEW d \in Dialogs
  PROVE  published[d] # <<>> => published'[d] # <<>>
<1>1. ASSUME NEW r \in Runs, NEW type, NEW state, Publishing(r, type, state)
      PROVE  published[d] # <<>> => published'[d] # <<>>
  BY <1>1, PublishedAt DEF Publishing, Unfinished, Running
<1>2. ASSUME NEW r \in Runs, Wait(r) PROVE published' = published
  BY <1>2 DEF Wait, eventVars
<1> QED
  BY <1>1, <1>2, StorySteps, PublishingSteps DEF QuietStep

LEMMA WaitSteps ==
  ASSUME TypeOK, [Next]_vars, NEW r \in Runs, pc'[r] = "waiting", pc[r] # "waiting"
  PROVE  Wait(r)
<1>1. ASSUME NEW t \in Runs, Wait(t), t # r PROVE pc'[r] = pc[r]
  BY <1>1 DEF Wait, Move, TypeOK
<1>2. ASSUME NEW t \in Runs, NEW type, NEW state \in States \ {"waiting"},
             Publishing(t, type, state)
      PROVE  pc'[r] # "waiting"
  BY <1>2 DEF Publishing, TypeOK
<1>3. ASSUME NEW t \in Runs, Delta(t) PROVE pc'[r] = pc[r]
  BY <1>3 DEF Delta
<1> QED
  BY <1>1, <1>2, <1>3, StorySteps, PublishingSteps
     DEF QuietStep, States, Unfinished, Running, Finished

LEMMA WaitersBehindStep ==
  ASSUME ChainInv, ChainInv', PrevsOwn, WaitersBehind, Speaking, [Next]_vars
  PROVE  WaitersBehind'
<1> SUFFICES ASSUME NEW r \in Runs, NEW d \in Dialogs,
                    pc'[r] = "waiting", runDialog'[r] = d
             PROVE  /\ prev'[r] # NoRun /\ pc'[prev'[r]] # "scheduled"
                    /\ published'[d] # <<>>
  BY DEF WaitersBehind
<1>0. TypeOK /\ TypeOK' /\ \A q \in Runs : Onward(q)
  BY OnwardStep DEF ChainInv
<1>1. CASE pc[r] = "waiting"
  <2>1. Accepted(r) /\ runDialog[r] = d /\ prev'[r] = prev[r]
    BY <1>0, <1>1 DEF Accepted, Unfinished, Onward
  <2>2. PICK p \in Runs : p = prev[r]
    BY <1>0, <1>1, <2>1 DEF WaitersBehind, TypeOK
  <2>3. pc[p] # "scheduled" /\ published[d] # <<>>
    BY <1>1, <2>1, <2>2 DEF WaitersBehind
  <2>4. pc[p] \in {"waiting"} \cup Running \cup Finished
    BY <2>1, <2>2, <2>3 DEF PrevsOwn, Before, Unfinished
  <2>5. pc'[p] # "scheduled"
    BY <1>0, <2>4 DEF Onward, Running, Finished
  <2> QED
    BY <1>0, <2>1, <2>2, <2>3, <2>5, ServiceAssumption, ToldSteps
<1>2. CASE pc[r] # "waiting"
  <2>1. Wait(r)
    BY <1>0, <1>2, WaitSteps
  <2>2. /\ ~PreviousOver(r) /\ FirstStep(r) /\ runDialog[r] = d
        /\ UNCHANGED <<prev, published>>
        /\ pc' = [pc EXCEPT ![r] = "waiting"]
    BY <2>1 DEF Wait, eventVars, requestVars, Move
  <2>3. PICK p \in Runs : p = prev[r] /\ pc[p] \notin Finished
    BY <1>0, <2>2 DEF PreviousOver, TypeOK
  <2>4. Before(p, r)
    BY <2>2, <2>3 DEF PrevsOwn, Accepted, FirstStep, Unfinished
  <2>5. pc[p] # "scheduled"
    BY <1>0, <2>2, <2>4 DEF FirstStep, Before, TypeOK
  <2>6. pc[p] \in {"waiting"} \cup Running /\ runDialog[p] = d
    BY <2>2, <2>3, <2>4, <2>5 DEF Before, Unfinished
  <2>7. published[d] # <<>>
    BY <2>6 DEF WaitersBehind, Speaking
  <2>8. pc'[p] # "scheduled"
    BY <1>0, <2>2, <2>5 DEF TypeOK
  <2> QED
    BY <2>2, <2>3, <2>7, <2>8, ServiceAssumption
<1> QED
  BY <1>1, <1>2

LEMMA CancelledBehindStep ==
  ASSUME ChainInv, ChainInv', PrevsOwn, WaitersBehind, CancelledBehind,
         [Next]_vars
  PROVE  CancelledBehind'
<1> SUFFICES ASSUME NEW p \in Runs, NEW q \in Runs, NEW r \in Runs,
                    pc'[r] = "waiting", prev'[r] = p, pc'[p] = "cancelled",
                    Before(q, p)'
             PROVE  pc'[q] \in Finished
  BY DEF CancelledBehind
<1>0. TypeOK /\ TypeOK' /\ \A t \in Runs : Onward(t)
  BY OnwardStep DEF ChainInv
<1>1. SUFFICES ASSUME Accepted(p), \A t \in Runs : Before(t, p) => pc[t] \in Finished
               PROVE  pc'[q] \in Finished
  <2>1. Accepted(p)
    BY <1>0 DEF Onward, Accepted, Finished
  <2>2. \A t \in Runs : Before(t, p) => pc[t] \in Finished
    <3>2. CASE pc[r] = "waiting"
      <4>1. prev[r] = p
        BY <1>0, <3>2 DEF Onward, Accepted, Unfinished
      <4>2. CASE pc[p] = "cancelled"
        BY <3>2, <4>1, <4>2 DEF CancelledBehind
      <4>3. CASE pc[p] # "cancelled"
        <5>1. pc[p] # "scheduled"
          <6>1. runDialog[r] \in Dialogs
            BY <1>0, <3>2 DEF TypeOK
          <6> QED
            BY <3>2, <4>1, <6>1 DEF WaitersBehind
        <5>2. CancelWaiting(p) \/ Ends(p)
          <6>1. ASSUME NEW t \in Runs, NEW type, NEW state,
                       Publishing(t, type, state), t # p
                PROVE  pc'[p] = pc[p]
            BY <1>0, <6>1 DEF Publishing, TypeOK
          <6>2. ASSUME NEW t \in Runs, Wait(t) PROVE pc'[p] \in {pc[p], "waiting"}
            BY <1>0, <6>2 DEF Wait, Move, TypeOK
          <6>3. ASSUME Begin(p) \/ Delta(p) PROVE pc'[p] \in {pc[p], "reading"}
            BY <1>0, <6>3 DEF Begin, Delta, Move, TypeOK
          <6> QED
            BY <1>0, <4>3, <5>1, <6>1, <6>2, <6>3, StorySteps, PublishingSteps
               DEF QuietStep
        <5>3. CASE CancelWaiting(p)
          BY <5>3, TurnSteps
        <5>4. CASE Ends(p)
          BY <1>0, <5>4, PublishingSteps DEF ChainInv, EarlierOver
        <5> QED
          BY <5>2, <5>3, <5>4
      <4> QED
        BY <4>2, <4>3
    <3>3. CASE pc[r] # "waiting"
      <4>1. Wait(r)
        BY <1>0, <3>3, WaitSteps
      <4>2. prev[r] = p /\ ~PreviousOver(r) /\ pc' = [pc EXCEPT ![r] = "waiting"]
        BY <4>1 DEF Wait, Move, requestVars
      <4>3. pc[p] \notin Finished /\ pc'[p] \in {pc[p], "waiting"}
        BY <1>0, <4>2 DEF PreviousOver, TypeOK
      <4> QED
        BY <4>3 DEF Finished
    <3> QED
      BY <3>2, <3>3
  <2> QED
    BY <2>1, <2>2
<1>2. Before(q, p)
  BY <1>1, BeforeStep
<1> QED
  BY <1>0, <1>1, <1>2 DEF Onward

LEMMA ToldByRunsStep ==
  ASSUME TypeOK, TypeOK', ToldByRuns, [Next]_vars
  PROVE  ToldByRuns'
<1> SUFFICES ASSUME NEW d \in Dialogs, NEW e \in RunEvents, e \in ToldIn(d)'
             PROVE  /\ runDialog'[e.run] = d
                    /\ pc'[e.run] \in Running \cup Finished
                    /\ e.type \in Terminal => pc'[e.run] \in Finished
                    /\ e.type = "message_end" => pc'[e.run] = "done"
  BY DEF ToldByRuns
<1>1. PICK r \in Runs : r = e.run
  BY DEF RunEvents
<1>2. CASE e \in ToldIn(d)
  <2>1. /\ runDialog[r] = d /\ pc[r] \in Running \cup Finished
        /\ e.type \in Terminal => pc[r] \in Finished
        /\ e.type = "message_end" => pc[r] = "done"
    BY <1>1, <1>2 DEF ToldByRuns
  <2>2. Onward(r)
    BY OnwardStep
  <2> QED
    BY <1>1, <2>1, <2>2
       DEF Onward, Accepted, Unfinished, Running, Finished
<1>3. ASSUME NEW t \in Runs, NEW type, NEW state, Publishing(t, type, state),
             e \notin ToldIn(d),
             \/ type = "message_start" /\ state = "reading"
             \/ type = "message_delta" /\ state \in Running
             \/ type = "message_end" /\ state = "done"
             \/ type = "message_error" /\ state \in Finished
      PROVE  /\ runDialog'[e.run] = d
             /\ pc'[e.run] \in Running \cup Finished
             /\ e.type \in Terminal => pc'[e.run] \in Finished
             /\ e.type = "message_end" => pc'[e.run] = "done"
  <2>1. d = runDialog[t] /\ e = [run |-> t, type |-> type]
    BY <1>3, PublishedAt DEF Publishing, ToldIn, Unfinished, Running
  <2>2. e.run = t /\ e.type = type /\ runDialog' = runDialog /\ pc'[t] = state
    BY <1>3, <2>1 DEF Publishing, TypeOK
  <2> QED
    BY <1>3, <2>1, <2>2 DEF Terminal, Running, Finished
<1>4. ASSUME NEW t \in Runs, Wait(t) PROVE published' = published
  BY <1>4 DEF Wait, eventVars
<1> QED
  BY <1>2, <1>3, <1>4, StorySteps, PublishingSteps
     DEF QuietStep, ToldIn, Running, Finished

LEMMA SpeakingStep ==
  ASSUME ChainInv, ChainInv', CancelledBehind, Speaking, [Next]_vars
  PROVE  Speaking'
<1> SUFFICES ASSUME NEW r \in Runs, NEW d \in Dialogs,
                    pc'[r] \in Running, runDialog'[r] = d
             PROVE  /\ published'[d] # <<>>
                    /\ LatestIn(d)'.run = r /\ LatestIn(d)'.type \notin Terminal
  BY DEF Speaking
<1>0. TypeOK /\ Onward(r) /\ OneActiveRun
  BY OnwardStep, ChainImpliesOneActive DEF ChainInv
<1>1. ASSUME pc[r] \in Running, published'[d] = published[d]
      PROVE  /\ published'[d] # <<>>
             /\ LatestIn(d)'.run = r /\ LatestIn(d)'.type \notin Terminal
  <2>1. runDialog[r] = d
    BY <1>0, <1>1 DEF Onward, Running
  <2> QED
    BY <1>1, <2>1 DEF Speaking, LatestIn
<1>2. ASSUME NEW type \in EventTypes \ Terminal, NEW state,
             Publishing(r, type, state)
      PROVE  /\ published'[d] # <<>>
             /\ LatestIn(d)'.run = r /\ LatestIn(d)'.type \notin Terminal
  <2>1. pc[r] # "idle" /\ type \in EventTypes /\ Publish(r, type) /\ d = runDialog[r]
    BY <1>2 DEF Publishing, Unfinished, Running
  <2>2. published'[d] # <<>> /\ LatestIn(d)' = [run |-> r, type |-> type]
    BY <1>0, <2>1, PublishedAt
  <2> QED
    BY <1>2, <2>2
<1>3. ASSUME NEW t \in Runs, NEW type, NEW state, Publishing(t, type, state),
             t # r, pc[r] \in Running => runDialog[t] # runDialog[r]
      PROVE  pc[r] \in Running /\ published'[d] = published[d]
  <2>1. pc[r] \in Running /\ runDialog[r] = d
    BY <1>0, <1>3 DEF Publishing, TypeOK
  <2> QED
    BY <1>0, <1>3, <2>1, PublishedAt DEF Publishing, Unfinished, Running
<1>4. ASSUME NEW t \in Runs, t # r, Begin(t) \/ Delta(t) \/ Ends(t) \/ CancelWaiting(t)
      PROVE  pc[r] \in Running /\ published'[d] = published[d]
  <2>1. pc[r] \in Running => runDialog[t] # runDialog[r]
    BY <1>0, <1>4, TurnSteps, PublishingSteps DEF OneActiveRun
  <2> QED
    BY <1>0, <1>3, <1>4, <2>1, PublishingSteps
<1>5. ASSUME Begin(r) \/ Delta(r)
      PROVE  /\ published'[d] # <<>>
             /\ LatestIn(d)'.run = r /\ LatestIn(d)'.type \notin Terminal
  BY <1>0, <1>2, <1>5, PublishingSteps DEF EventTypes, Terminal
<1>6. ~Ends(r) /\ ~CancelWaiting(r)
  <2> SUFFICES ASSUME Ends(r) \/ CancelWaiting(r) PROVE FALSE
    OBVIOUS
  <2>1. \E state \in Finished : pc' = [pc EXCEPT ![r] = state]
    BY <1>0, PublishingSteps DEF Publishing, Finished
  <2>2. pc \in [Runs -> States]
    BY <1>0 DEF TypeOK
  <2> QED
    BY <2>1, <2>2 DEF Finished, Running
<1>7. ASSUME NEW t \in Runs, Wait(t)
      PROVE  pc[r] \in Running /\ published'[d] = published[d]
  <2>1. published' = published /\ pc' = [pc EXCEPT ![t] = "waiting"]
    BY <1>7 DEF Wait, Move, eventVars
  <2>2. pc'[r] = pc[r]
    BY <1>0, <2>1 DEF TypeOK, Running
  <2> QED
    BY <2>1, <2>2
<1> QED
  BY <1>0, <1>1, <1>4, <1>5, <1>6, <1>7, StorySteps DEF QuietStep

LEMMA SilentStep ==
  ASSUME TypeOK, Silent, [Next]_vars
  PROVE  Silent'
<1> SUFFICES ASSUME NEW d \in Dialogs, published'[d] # <<>>,
                    \A r \in Runs : pc'[r] \in Running => runDialog'[r] # d
             PROVE  LatestIn(d)'.type \in Terminal
  BY DEF Silent
<1>1. ASSUME published'[d] = published[d],
             \A r \in Runs : pc[r] \in Running => pc'[r] \in Running
                                                \/ runDialog[r] # d
      PROVE  LatestIn(d)'.type \in Terminal
  <2>1. \A r \in Runs : pc[r] \in Running => runDialog[r] # d
    BY <1>1, OnwardStep DEF Onward, Running
  <2> QED
    BY <1>1, <2>1 DEF Silent, LatestIn
<1>2. ASSUME NEW t \in Runs, NEW type, NEW state, Publishing(t, type, state),
             type \in Terminal \/ state \in Running
      PROVE  LatestIn(d)'.type \in Terminal
  <2>1. /\ pc'[t] = state /\ pc[t] # "idle" /\ runDialog' = runDialog
        /\ \A r \in Runs : r # t => pc'[r] = pc[r]
    BY <1>2 DEF Publishing, TypeOK, Unfinished, Running
  <2>2. CASE d = runDialog[t]
    <3>1. type \in Terminal
      BY <1>2, <2>1, <2>2
    <3>2. LatestIn(d)' = [run |-> t, type |-> type]
      BY <1>2, <2>1, <2>2, PublishedAt DEF Publishing
    <3> QED
      BY <3>1, <3>2
  <2>3. CASE d # runDialog[t]
    BY <1>1, <1>2, <2>1, <2>3, PublishedAt DEF Publishing
  <2> QED
    BY <2>2, <2>3
<1>3. ASSUME NEW t \in Runs, Wait(t) PROVE LatestIn(d)'.type \in Terminal
  BY <1>1, <1>3 DEF Wait, Move, FirstStep, TypeOK, Running, eventVars
<1> QED
  BY <1>1, <1>2, <1>3, StorySteps, PublishingSteps
     DEF QuietStep, Terminal, Running

LEMMA EventsInOrderStep ==
  ASSUME ChainInv, WaitersBehind, CancelledBehind, ToldByRuns, Speaking, Silent,
         EventsInOrder, [Next]_vars
  PROVE  EventsInOrder'
<1> SUFFICES ASSUME NEW d \in Dialogs
             PROVE  /\ InOrder(published'[d])
                    /\ published'[d] # <<>> =>
                         published'[d][1].type = "message_start"
  BY DEF EventsInOrder, InOrder, MayFollow
<1>0. /\ TypeOK /\ published[d] \in Seq(RunEvents) /\ InOrder(published[d])
      /\ published[d] # <<>> => published[d][1].type = "message_start"
  BY DEF ChainInv, TypeOK, EventsInOrder
<1>1. CASE published'[d] = published[d]
  BY <1>0, <1>1
<1>2. ASSUME published[d] # <<>>
      PROVE  LatestIn(d) \in RunEvents /\ LatestIn(d) \in ToldIn(d)
  <2>1. Len(published[d]) \in DOMAIN published[d]
    BY <1>0, <1>2, LenProperties, EmptySeq
  <2> QED
    BY <1>0, <2>1, ElementOfSeq DEF LatestIn, ToldIn
<1>3. ASSUME NEW t \in Runs, NEW type \in EventTypes, NEW state,
             Publishing(t, type, state), d = runDialog[t],
             IF published[d] = <<>> THEN type = "message_start"
             ELSE MayFollow(LatestIn(d), [run |-> t, type |-> type])
      PROVE  /\ InOrder(published'[d])
             /\ published'[d] # <<>> => published'[d][1].type = "message_start"
  <2>1. published'[d] = Append(published[d], [run |-> t, type |-> type])
    BY <1>0, <1>3, PublishedAt DEF Publishing, Unfinished, Running
  <2>2. PICK e \in RunEvents : e = [run |-> t, type |-> type]
    BY DEF RunEvents
  <2> QED
    BY <1>0, <1>3, <2>1, <2>2, StaysInOrder DEF LatestIn
<1>4. ASSUME NEW t \in Runs, NEW type, NEW state, Publishing(t, type, state),
             d # runDialog[t]
      PROVE  published'[d] = published[d]
  BY <1>0, <1>4, PublishedAt DEF Publishing, Unfinished, Running
<1>5. ASSUME NEW t \in Runs, Begin(t) \/ CancelWaiting(t), d = runDialog[t],
             published[d] # <<>>
      PROVE  LatestIn(d).type \in Terminal /\ LatestIn(d).run # t
  <2>1. LatestIn(d).type \in Terminal
    BY <1>5, TurnSteps DEF Silent
  <2>2. pc[LatestIn(d).run] \in Finished
    BY <1>2, <1>5, <2>1 DEF ToldByRuns
  <2>3. pc[t] \in {"scheduled", "waiting"}
    BY <1>0, <1>5, PublishingSteps
  <2> QED
    BY <2>1, <2>2, <2>3 DEF Finished
<1>6. ASSUME NEW t \in Runs, Begin(t), d = runDialog[t]
      PROVE  /\ InOrder(published'[d])
             /\ published'[d] # <<>> => published'[d][1].type = "message_start"
  <2>1. Publishing(t, "message_start", "reading")
    BY <1>0, <1>6, PublishingSteps
  <2>2. published[d] # <<>> =>
          MayFollow(LatestIn(d), [run |-> t, type |-> "message_start"])
    BY <1>5, <1>6 DEF MayFollow
  <2> QED
    BY <1>3, <1>6, <2>1, <2>2 DEF EventTypes
<1>7. ASSUME NEW t \in Runs, CancelWaiting(t), d = runDialog[t]
      PROVE  /\ InOrder(published'[d])
             /\ published'[d] # <<>> => published'[d][1].type = "message_start"
  <2>1. Publishing(t, "message_error", "cancelled") /\ pc[t] = "waiting"
    BY <1>0, <1>7, PublishingSteps
  <2>2. published[d] # <<>>
    BY <1>7, <2>1 DEF WaitersBehind
  <2>3. MayFollow(LatestIn(d), [run |-> t, type |-> "message_error"])
    BY <1>5, <1>7, <2>2 DEF MayFollow
  <2> QED
    BY <1>3, <1>7, <2>1, <2>2, <2>3 DEF EventTypes
<1>8. ASSUME NEW t \in Runs, pc[t] \in Running, d = runDialog[t],
             NEW type \in EventTypes \ {"message_start"}, NEW state,
             Publishing(t, type, state)
      PROVE  /\ InOrder(published'[d])
             /\ published'[d] # <<>> => published'[d][1].type = "message_start"
  <2>1. published[d] # <<>> /\ LatestIn(d).run = t
          /\ LatestIn(d).type \notin Terminal
    BY <1>8 DEF Speaking
  <2>2. MayFollow(LatestIn(d), [run |-> t, type |-> type])
    BY <1>8, <2>1 DEF MayFollow
  <2> QED
    BY <1>3, <1>8, <2>1, <2>2
<1>9. ASSUME NEW t \in Runs, Delta(t) \/ Ends(t), d = runDialog[t]
      PROVE  /\ InOrder(published'[d])
             /\ published'[d] # <<>> => published'[d][1].type = "message_start"
  BY <1>0, <1>8, <1>9, PublishingSteps DEF EventTypes
<1>10. ASSUME NEW t \in Runs, Wait(t) PROVE published' = published
  BY <1>10 DEF Wait, eventVars
<1>11. ASSUME NEW t \in Runs, d # runDialog[t],
              Begin(t) \/ Delta(t) \/ Ends(t) \/ CancelWaiting(t)
       PROVE  published'[d] = published[d]
  BY <1>0, <1>4, <1>11, PublishingSteps
<1> QED
  BY <1>0, <1>1, <1>6, <1>7, <1>9, <1>10, <1>11, StorySteps DEF QuietStep

LEMMA TerminalAppended ==
  ASSUME NEW s \in Seq(RunEvents), NEW e \in RunEvents, NEW r
  PROVE  /\ e.run # r => TerminalAt(Append(s, e), r) = TerminalAt(s, r)
         /\ e.run # r => \A type :
              ToldOnce(s, r, type) => ToldOnce(Append(s, e), r, type)
         /\ e.run = r /\ e.type \in Terminal /\ TerminalAt(s, r) = {} =>
              ToldOnce(Append(s, e), r, e.type)
<1> DEFINE a == Append(s, e)
           n == Len(s) + 1
<1>1. /\ DOMAIN a = DOMAIN s \cup {n}
      /\ \A i \in DOMAIN s : a[i] = s[i]
      /\ a[n] = e /\ n \notin DOMAIN s
  BY AppendedAt
<1> HIDE DEF a, n
<1>2. e.run # r => TerminalAt(a, r) = TerminalAt(s, r)
  BY <1>1 DEF TerminalAt
<1>3. ASSUME e.run # r, NEW type, ToldOnce(s, r, type) PROVE ToldOnce(a, r, type)
  BY <1>1, <1>2, <1>3 DEF ToldOnce
<1>4. ASSUME e.run = r, e.type \in Terminal, TerminalAt(s, r) = {}
      PROVE  ToldOnce(a, r, e.type)
  <2>1. TerminalAt(a, r) = {n}
    BY <1>1, <1>4 DEF TerminalAt
  <2> QED
    BY <1>1, <2>1 DEF ToldOnce
<1> QED
  BY <1>2, <1>3, <1>4 DEF a

LEMMA OutcomeOnceStep ==
  ASSUME ChainInv, ToldByRuns, OutcomeOnce, [Next]_vars
  PROVE  OutcomeOnce'
<1> DEFINE Told(r, d) == ToldOnce(published'[d], r, OutcomeOf(pc'[r]))
<1> SUFFICES ASSUME NEW r \in Runs, NEW d \in Dialogs,
                    pc'[r] \in {"done", "failed"}, runDialog'[r] = d
             PROVE  Told(r, d)
  BY DEF OutcomeOnce, OutcomeOf, ToldOnce, TerminalAt
<1>0. TypeOK /\ Onward(r) /\ published[d] \in Seq(RunEvents)
  BY OnwardStep DEF ChainInv, TypeOK
<1>1. pc'[r] = pc[r] => ToldOnce(published[d], r, OutcomeOf(pc'[r]))
  BY <1>0 DEF Onward, OutcomeOnce, Finished
<1>2. ASSUME NEW t \in Runs, NEW type \in EventTypes, NEW state,
             Publishing(t, type, state)
      PROVE  published'[d] = IF runDialog[t] = d
                             THEN Append(published[d], [run |-> t, type |-> type])
                             ELSE published[d]
  BY <1>0, <1>2, PublishedAt DEF Publishing, Unfinished, Running
<1>3. ASSUME NEW t \in Runs, NEW type \in EventTypes, NEW state,
             Publishing(t, type, state), t # r
      PROVE  Told(r, d)
  <2>1. pc'[r] = pc[r]
    BY <1>0, <1>3 DEF Publishing, TypeOK
  <2>2. PICK e \in RunEvents : e = [run |-> t, type |-> type]
    BY DEF RunEvents
  <2>3. ToldOnce(Append(published[d], e), r, OutcomeOf(pc'[r]))
    BY <1>0, <1>1, <1>3, <2>1, <2>2, TerminalAppended
  <2> QED
    BY <1>1, <1>2, <1>3, <2>1, <2>2, <2>3
<1>4. ASSUME NEW type \in EventTypes, NEW state, Publishing(r, type, state),
             pc[r] \in Running, type = OutcomeOf(state)
      PROVE  Told(r, d)
  <2>1. runDialog[r] = d /\ pc'[r] = state
    BY <1>0, <1>4 DEF Publishing, TypeOK
  <2>2. TerminalAt(published[d], r) = {}
    <3> SUFFICES ASSUME NEW i \in DOMAIN published[d],
                        published[d][i].run = r, published[d][i].type \in Terminal
                 PROVE  FALSE
      BY DEF TerminalAt
    <3>1. published[d][i] \in RunEvents /\ published[d][i] \in ToldIn(d)
      BY <1>0, ElementOfSeq DEF ToldIn
    <3>2. pc[r] \in Finished
      BY <3>1 DEF ToldByRuns
    <3> QED
      BY <1>4, <3>2 DEF Running, Finished
  <2>3. PICK e \in RunEvents : e = [run |-> r, type |-> type]
    BY DEF RunEvents
  <2>4. e.run = r /\ e.type = type /\ type \in Terminal
    BY <1>4, <2>3 DEF OutcomeOf, Terminal
  <2>5. ToldOnce(Append(published[d], e), r, type)
    BY <1>0, <2>2, <2>4, TerminalAppended
  <2> QED
    BY <1>2, <1>4, <2>1, <2>3, <2>5
<1>5. Ends(r) => Told(r, d)
  <2> HIDE DEF Told
  <2>1. /\ OutcomeOf("done") = "message_end"
        /\ OutcomeOf("failed") = "message_error"
        /\ OutcomeOf("cancelled") = "message_error"
    BY DEF OutcomeOf
  <2> QED
    BY <1>0, <1>4, <2>1, PublishingSteps DEF EventTypes
<1>6. ~(Begin(r) \/ Delta(r) \/ CancelWaiting(r))
  <2> SUFFICES ASSUME Begin(r) \/ Delta(r) \/ CancelWaiting(r) PROVE FALSE
    OBVIOUS
  <2>1. \E state \in {"reading", "cancelled"} \cup Running :
          pc' = [pc EXCEPT ![r] = state]
    BY <1>0, PublishingSteps DEF Publishing
  <2>2. pc \in [Runs -> States]
    BY <1>0 DEF TypeOK
  <2> QED
    BY <2>1, <2>2 DEF Running
<1>7. ASSUME NEW t \in Runs, t # r,
             Begin(t) \/ Delta(t) \/ Ends(t) \/ CancelWaiting(t)
      PROVE  Told(r, d)
  <2> HIDE DEF Told
  <2> QED
    BY <1>0, <1>3, <1>7, PublishingSteps DEF EventTypes
<1>8. ASSUME NEW t \in Runs, Wait(t) PROVE Told(r, d)
  <2>1. published' = published /\ pc' = [pc EXCEPT ![t] = "waiting"]
    BY <1>8 DEF Wait, Move, eventVars
  <2>2. pc'[r] = pc[r]
    BY <1>0, <2>1 DEF TypeOK
  <2> QED
    BY <1>1, <2>1, <2>2
<1>9. QuietStep => Told(r, d)
  BY <1>1 DEF QuietStep
<1> HIDE DEF Told
<1> QED
  BY <1>0, <1>5, <1>6, <1>7, <1>8, <1>9, StorySteps

(* The inductive invariant of the events.                                  *)
THEOREM StoryInvariant == Spec => []StoryInv
<1>1. StoryInv /\ [Next]_vars => StoryInv'
  <2> SUFFICES ASSUME StoryInv, [Next]_vars PROVE StoryInv'
    OBVIOUS
  <2>1. ChainInv /\ ChainInv' /\ TypeOK /\ TypeOK'
    BY ChainStep DEF StoryInv, ChainInv
  <2>2. TailsOwn' /\ PrevsOwn'
    BY <2>1, TailsOwnStep, PrevsOwnStep DEF StoryInv
  <2>3. WaitersBehind' /\ CancelledBehind'
    BY <2>1, WaitersBehindStep, CancelledBehindStep DEF StoryInv
  <2>4. ToldByRuns' /\ Speaking' /\ Silent'
    BY <2>1, ToldByRunsStep, SpeakingStep, SilentStep DEF StoryInv
  <2>5. EventsInOrder' /\ OutcomeOnce'
    BY <2>1, EventsInOrderStep, OutcomeOnceStep DEF StoryInv
  <2> QED
    BY <2>1, <2>2, <2>3, <2>4, <2>5 DEF StoryInv
<1> QED
  BY <1>1, StoryInit, PTL DEF Spec

(* The events of a dialog are its runs one after another, each a start,    *)
(* fragments and one terminal event, whatever overlaps, fails or is        *)
(* cancelled.                                                              *)
THEOREM EventsTellOneStory == Spec => []EventsInOrder
<1>1. StoryInv => EventsInOrder
  BY DEF StoryInv
<1> QED
  BY <1>1, StoryInvariant, PTL

(* The subscribers of a dialog are told once how a run ended.              *)
THEOREM OutcomeTold == Spec => []OutcomePublished
<1>1. StoryInv => OutcomePublished
  <2> SUFFICES ASSUME StoryInv, NEW r \in Runs, pc[r] \in {"done", "failed"}
               PROVE  LET outcomes == TerminalAt(published[runDialog[r]], r)
                      IN  \E i \in outcomes :
                            /\ outcomes = {i}
                            /\ published[runDialog[r]][i].type = OutcomeOf(pc[r])
    BY DEF OutcomePublished, TerminalAt, OutcomeOf
  <2>1. runDialog[r] \in Dialogs
    BY DEF StoryInv, ChainInv, TypeOK
  <2> QED
    BY <2>1 DEF StoryInv, OutcomeOnce, ToldOnce
<1> QED
  BY <1>1, StoryInvariant, PTL

-----------------------------------------------------------------------------
(* What a reader holds was told in its dialog.                             *)

OnlyTold ==
  \A s \in Subs, d \in Dialogs, x \in RunEvents :
    dialogOf[s] = d /\ BrokerProofs!Holds(s, x) => x \in ToldIn(d)

LEMMA BrokerSteps ==
  ASSUME TypeOK, [Next]_vars
  PROVE  \/ BrokerProofs!Manage \/ UNCHANGED brokerVars
         \/ \E r \in Runs, type \in EventTypes :
              pc[r] # "idle" /\ Publish(r, type)
<1> USE DEF eventVars, brokerVars
<1>1. ASSUME NEW r \in Runs, Task(r)
      PROVE  \/ UNCHANGED brokerVars
             \/ \E type \in EventTypes : pc[r] # "idle" /\ Publish(r, type)
  BY <1>1 DEF Task, Wait, Begin, CheckHistory, LoadHistory, Delta, Respond,
              Commit, Finish, RunFails, CancelBeforeStart, CancelWaiting,
              CancelRunning, TaskDone, FirstStep, EventTypes, Running
<1>2. CASE ShutdownFinish
  BY <1>2, SameManage DEF ShutdownFinish, Broker!Manage
<1>3. ASSUME NEW s \in Subs, Subscribe(s) \/ Unsubscribe(s) \/ Receive(s)
      PROVE  BrokerProofs!Manage
  BY <1>3, SameManage
     DEF Subscribe, Unsubscribe, Receive, TypeOK, Broker!Manage
<1> QED
  BY <1>1, <1>2, <1>3
     DEF Next, vars, StartDialog, DialogCreated, CreateFails, DeleteDialog,
         SubmitCheck, Submit, SubmitRefused, ShutdownBegin, SubscribeCheck

(* Nothing that was told is taken back.                                    *)
LEMMA ToldStays ==
  ASSUME TypeOK, [Next]_vars, NEW d \in Dialogs, NEW x \in ToldIn(d)
  PROVE  x \in ToldIn(d)'
<1>1. CASE published' = published
  BY <1>1 DEF ToldIn
<1>2. ASSUME NEW r \in Runs, NEW type, NEW state, Publishing(r, type, state)
      PROVE  x \in ToldIn(d)'
  <2>1. \/ published'[d] = published[d]
        \/ published'[d] = Append(published[d], [run |-> r, type |-> type])
    BY <1>2, PublishedAt DEF Publishing, Unfinished, Running
  <2>2. CASE published'[d] = published[d]
    BY <2>2 DEF ToldIn
  <2>3. CASE published'[d] = Append(published[d], [run |-> r, type |-> type])
    <3>1. published[d] \in Seq(RunEvents) /\ [run |-> r, type |-> type] \in RunEvents
      BY <1>2 DEF TypeOK, RunEvents, Publishing
    <3>2. PICK i \in DOMAIN published[d] : published[d][i] = x
      BY DEF ToldIn
    <3>3. i \in DOMAIN published'[d] /\ published'[d][i] = x
      BY <2>3, <3>1, <3>2, AppendedAt
    <3> QED
      BY <3>3 DEF ToldIn
  <2> QED
    BY <2>1, <2>2, <2>3
<1>3. ASSUME NEW r \in Runs, Wait(r) PROVE published' = published
  BY <1>3 DEF Wait, eventVars
<1> QED
  BY <1>1, <1>2, <1>3, StorySteps, PublishingSteps DEF QuietStep

LEMMA OnlyToldStep ==
  ASSUME TypeOK, TypeOK', BrokerProofs!BrokerInv, BrokerProofs!BrokerInv',
         OnlyTold, [Next]_vars
  PROVE  OnlyTold'
<1> SUFFICES ASSUME NEW s \in Subs, NEW d \in Dialogs, NEW x \in RunEvents,
                    dialogOf'[s] = d, BrokerProofs!Holds(s, x)'
             PROVE  x \in ToldIn(d)'
  BY DEF OnlyTold
<1>1. /\ BrokerProofs!TypeOK /\ BrokerProofs!TypeOK'
      /\ BrokerProofs!ClosedBrokerEmpty /\ BrokerProofs!RegisteredIffOpen
      /\ BrokerProofs!FreshUntouched
  BY DEF BrokerProofs!BrokerInv
<1>2. ASSUME BrokerProofs!Holds(s, x) PROVE x \in ToldIn(d)'
  <2>1. dialogOf[s] # NoDialog
    BY <1>1, <1>2, EmptySeq DEF BrokerProofs!FreshUntouched,
       BrokerProofs!Holds, BrokerProofs!Among
  <2>2. \/ dialogOf' = dialogOf
        \/ \E t \in Subs, b \in Dialogs :
             dialogOf[t] = NoDialog /\ dialogOf' = [dialogOf EXCEPT ![t] = b]
    BY BrokerStep
       DEF Broker!Next, Broker!Manage, Broker!Subscribe, Broker!Unsubscribe,
           Broker!CloseDialog, Broker!Shutdown, Broker!Receive,
           Broker!Publish, brokerVars
  <2>3. dialogOf \in [Subs -> Dialogs \cup {NoDialog}]
    BY <1>1 DEF BrokerProofs!TypeOK
  <2>4. dialogOf[s] = d
    BY <2>1, <2>2, <2>3
  <2> QED
    BY <1>2, <2>4, ToldStays DEF OnlyTold
<1>3. CASE BrokerProofs!Manage \/ UNCHANGED brokerVars
  <2>1. BrokerProofs!Manage \/ UNCHANGED BrokerProofs!brokerVars
    BY <1>3 DEF brokerVars, BrokerProofs!brokerVars
  <2>2. BrokerProofs!Holds(s, x)
    BY <1>1, <2>1, BrokerProofs!ManagedHolds, ServiceAssumption
  <2> QED
    BY <1>2, <2>2
<1>4. ASSUME NEW r \in Runs, NEW type \in EventTypes, pc[r] # "idle",
             Publish(r, type)
      PROVE  x \in ToldIn(d)'
  <2> DEFINE e == [run |-> r, type |-> type]
  <2>1. e \in RunEvents /\ runDialog[r] \in Dialogs
    BY <1>4 DEF RunEvents, TypeOK
  <2>2. BrokerProofs!Publish(runDialog[r], e)
    BY <1>4, <2>1, SamePublish DEF Publish
  <2>3. BrokerProofs!Holds(s, x) \/ (x = e /\ dialogOf[s] = runDialog[r])
    BY <1>1, <2>1, <2>2, BrokerProofs!PublishedHolds, ServiceAssumption
  <2>4. CASE x = e /\ dialogOf[s] = runDialog[r]
    <3>1. d = runDialog[r]
      BY <2>2, <2>4 DEF BrokerProofs!Publish
    <3>2. published'[d] = Append(published[d], e) /\ published[d] \in Seq(RunEvents)
      BY <1>4, <3>1, PublishedAt DEF TypeOK
    <3>3. Len(published[d]) + 1 \in DOMAIN published'[d]
          /\ published'[d][Len(published[d]) + 1] = e
      BY <2>1, <3>2, AppendedAt
    <3> QED
      BY <2>4, <3>3 DEF ToldIn
  <2> QED
    BY <1>2, <2>3, <2>4
<1> QED
  BY <1>3, <1>4, BrokerSteps

LEMMA OnlyToldAlways == Spec => []OnlyTold
<1>1. Init => OnlyTold
  BY EmptySeq DEF Init, Broker!Init, OnlyTold, BrokerProofs!Holds,
                  BrokerProofs!Among
<1> QED
  BY <1>1, OnlyToldStep, ServiceTypeCorrect, BrokerInvariantInService, PTL
     DEF Spec

(* A reader that received message_end can rely on the answer being stored, *)
(* until the dialog is deleted: whatever is cancelled, closed or lost in   *)
(* between, no other path leads that event to it.                          *)
THEOREM EndMeansSaved == Spec => []ReceivedEndIsSaved
<1>1. ASSUME TypeOK, BrokerProofs!BrokerInv, HistoryInv, StoryInv, OnlyTold
      PROVE  ReceivedEndIsSaved
  <2> SUFFICES ASSUME NEW s \in Subs, NEW i \in DOMAIN received[s],
                      received[s][i].type = "message_end",
                      dialog[dialogOf[s]] = "stored"
               PROVE  received[s][i].run \in SavedIn(dialogOf[s])
    BY DEF ReceivedEndIsSaved
  <2>1. received[s] \in Seq(RunEvents) /\ received[s][i] \in RunEvents
    BY <1>1 DEF BrokerProofs!BrokerInv, BrokerProofs!TypeOK
  <2>2. PICK x \in RunEvents : x = received[s][i]
    BY <2>1
  <2>3. BrokerProofs!Holds(s, x)
    BY <2>2 DEF BrokerProofs!Holds, BrokerProofs!Among
  <2>4. dialogOf[s] # NoDialog
    BY <1>1, <2>3, EmptySeq DEF BrokerProofs!BrokerInv,
       BrokerProofs!FreshUntouched, BrokerProofs!Holds, BrokerProofs!Among
  <2>5. PICK d \in Dialogs : d = dialogOf[s]
    BY <1>1, <2>4 DEF BrokerProofs!BrokerInv, BrokerProofs!TypeOK
  <2>6. x \in ToldIn(d)
    BY <1>1, <2>3, <2>5 DEF OnlyTold
  <2>7. runDialog[x.run] = d /\ pc[x.run] = "done" /\ x.run \in Runs
    BY <1>1, <2>2, <2>6 DEF StoryInv, ToldByRuns, RunEvents
  <2>8. x.run \in SavedIn(d)
    BY <1>1, <2>5, <2>7 DEF HistoryInv, CommittedIsSaved
  <2> QED
    BY <2>2, <2>5, <2>8
<1> QED
  BY <1>1, ServiceTypeCorrect, BrokerInvariantInService, HistoryInvariant,
     StoryInvariant, OnlyToldAlways, PTL

=============================================================================
