-------------------------- MODULE AgentServiceProofs -------------------------
(***************************************************************************)
(* Proofs about AgentService, for any dialogs, requests, subscriptions,    *)
(* queue size and number of text fragments.                                *)
(***************************************************************************)
EXTENDS AgentService, TLAPS

-----------------------------------------------------------------------------
(* Types.                                                                  *)

LEMMA TypeInit == Init => TypeOK
  BY ServiceAssumption DEF Init, TypeOK, States

(* Every event of a run goes to its dialog.                                *)
LEMMA PublishType ==
  ASSUME TypeOK, NEW r \in Runs, NEW type \in EventTypes, Publish(r, type)
  PROVE  published' \in [Dialogs -> Seq(RunEvents)]
<1>1. [run |-> r, type |-> type] \in RunEvents
  BY DEF RunEvents
<1>2. \A d \in Dialogs :
        Append(published[d], [run |-> r, type |-> type]) \in Seq(RunEvents)
  BY <1>1 DEF TypeOK
<1> QED
  BY <1>2 DEF Publish, TypeOK

(* The service's steps that leave its own variables but pc and the events. *)
LEMMA TypeMove ==
  ASSUME TypeOK, NEW r \in Runs, NEW state \in States, Move(r, state),
         pc[r] # "idle",
         published' \in [Dialogs -> Seq(RunEvents)],
         UNCHANGED <<serviceVars, requestVars, cancelled, deltas, seen,
                     storeVars, asking>>
  PROVE  TypeOK'
  BY DEF TypeOK, Move, serviceVars, requestVars, storeVars

LEMMA TypeTask ==
  ASSUME TypeOK, NEW r \in Runs, Task(r)
  PROVE  TypeOK'
<1> USE DEF States, Unfinished, Running, Finished, eventVars, FirstStep
<1>0. published' = published => published' \in [Dialogs -> Seq(RunEvents)]
  BY DEF TypeOK
<1>1. CASE Wait(r)
  BY <1>0, <1>1, TypeMove DEF Wait
<1>2. CASE Begin(r)
  BY <1>2, PublishType, TypeMove DEF Begin, EventTypes
<1>3. CASE CheckHistory(r)
  BY <1>0, <1>3, TypeMove DEF CheckHistory
<1>4. CASE LoadHistory(r)
  <2>1. runDialog[r] \in Dialogs /\ messages[runDialog[r]] \in Seq(Runs)
    BY <1>4 DEF LoadHistory, TypeOK
  <2>2. seen' \in [Runs -> Seq(Runs)]
    BY <1>4, <2>1 DEF LoadHistory, TypeOK
  <2> QED
    BY <1>4, <2>2
       DEF LoadHistory, TypeOK, Move, serviceVars, requestVars, storeVars
<1>5. CASE Delta(r)
  <2>1. published' \in [Dialogs -> Seq(RunEvents)]
    BY <1>5, PublishType DEF Delta, EventTypes
  <2>2. deltas' \in [Runs -> 0..MaxDeltas]
    BY <1>5, ServiceAssumption DEF Delta, TypeOK
  <2> QED
    BY <1>5, <2>1, <2>2
       DEF Delta, TypeOK, serviceVars, requestVars, storeVars
<1>6. CASE Respond(r)
  BY <1>0, <1>6, TypeMove DEF Respond
<1>7. CASE Commit(r)
  BY <1>7 DEF Commit, TypeOK, Move, serviceVars, requestVars
<1>8. CASE Finish(r)
  BY <1>8, PublishType, TypeMove DEF Finish, EventTypes
<1>9. CASE RunFails(r)
  BY <1>9, PublishType, TypeMove DEF RunFails, EventTypes
<1>10. CASE CancelBeforeStart(r)
  BY <1>0, <1>10, TypeMove DEF CancelBeforeStart
<1>11. CASE CancelWaiting(r)
  BY <1>11, PublishType, TypeMove DEF CancelWaiting, EventTypes
<1>12. CASE CancelRunning(r)
  BY <1>12, PublishType, TypeMove DEF CancelRunning, EventTypes
<1>13. CASE TaskDone(r)
  BY <1>13 DEF TaskDone, TypeOK, requestVars, storeVars
<1> QED
  BY <1>1, <1>2, <1>3, <1>4, <1>5, <1>6, <1>7, <1>8, <1>9, <1>10, <1>11,
     <1>12, <1>13 DEF Task

LEMMA TypeStep == TypeOK /\ [Next]_vars => TypeOK'
<1> SUFFICES ASSUME TypeOK, [Next]_vars PROVE TypeOK'
  OBVIOUS
<1> USE DEF TypeOK, serviceVars, requestVars, storeVars, eventVars
<1>1. ASSUME NEW d \in Dialogs, StartDialog(d) PROVE TypeOK'
  BY <1>1 DEF StartDialog
<1>2. CASE DialogCreated
  BY <1>2 DEF DialogCreated
<1>3. CASE CreateFails
  BY <1>3 DEF CreateFails
<1>4. ASSUME NEW d \in Dialogs, DeleteDialog(d) PROVE TypeOK'
  BY <1>4 DEF DeleteDialog
<1>5. ASSUME NEW r \in Runs, NEW d \in Dialogs, SubmitCheck(r, d) PROVE TypeOK'
  BY <1>5 DEF SubmitCheck, States
<1>6. ASSUME NEW r \in Runs, Submit(r) PROVE TypeOK'
  <2>1. tails[runDialog[r]] \in Runs \cup {NoRun}
    BY <1>6 DEF Submit
  <2>2. accepted' \in Nat /\ ticket' \in [Runs -> 0..accepted']
    BY <1>6 DEF Submit
  <2>3. /\ pc' \in [Runs -> States]
        /\ \A q \in Runs : pc'[q] # "idle" => runDialog'[q] \in Dialogs
    BY <1>6 DEF Submit, States, Unfinished
  <2> QED
    BY <1>6, <2>1, <2>2, <2>3 DEF Submit
<1>7. ASSUME NEW r \in Runs, SubmitRefused(r) PROVE TypeOK'
  BY <1>7 DEF SubmitRefused, States
<1>8. ASSUME NEW r \in Runs, Task(r) PROVE TypeOK'
  BY <1>8, TypeTask
<1>9. CASE ShutdownBegin
  BY <1>9 DEF ShutdownBegin
<1>10. CASE ShutdownFinish
  BY <1>10 DEF ShutdownFinish
<1>11. ASSUME NEW s \in Subs, NEW d \in Dialogs, SubscribeCheck(s, d)
       PROVE  TypeOK'
  BY <1>11 DEF SubscribeCheck, unchangedBySubs
<1>12. ASSUME NEW s \in Subs, Subscribe(s) PROVE TypeOK'
  BY <1>12 DEF Subscribe, unchangedBySubs
<1>13. ASSUME NEW s \in Subs, Unsubscribe(s) PROVE TypeOK'
  BY <1>13 DEF Unsubscribe, unchangedBySubs
<1>14. ASSUME NEW s \in Subs, Receive(s) PROVE TypeOK'
  BY <1>14 DEF Receive, unchangedBySubs
<1>15. CASE UNCHANGED vars
  BY <1>15 DEF vars
<1> QED
  BY <1>1, <1>2, <1>3, <1>4, <1>5, <1>6, <1>7, <1>8, <1>9, <1>10, <1>11,
     <1>12, <1>13, <1>14, <1>15 DEF Next

(* Whatever the clients, the agent and the store do, the service's         *)
(* variables keep their types.                                             *)
THEOREM ServiceTypeCorrect == Spec => []TypeOK
  BY TypeInit, TypeStep, PTL DEF Spec

-----------------------------------------------------------------------------
(* The inductive invariant of the chain of runs.                           *)

(* q was accepted for the dialog of r before r was.                        *)
Before(q, r) ==
  /\ pc[q] \in Unfinished \cup Finished
  /\ pc[r] \in Unfinished \cup Finished
  /\ runDialog[q] = runDialog[r]
  /\ ticket[q] < ticket[r]

(* A task has a ticket of its own.                                         *)
TicketsUnique ==
  /\ \A r \in Runs : pc[r] \in Unfinished \cup Finished <=> ticket[r] > 0
  /\ \A q, r \in Runs : ticket[q] = ticket[r] /\ ticket[q] > 0 => q = r

(* Only shutdown() cancels.                                                *)
NothingCancelledYet ==
  phase = "running" =>
    cancelled = {} /\ \A r \in Runs : pc[r] # "cancelled"

(* A run that got past "await previous_task", and did not end by being     *)
(* cancelled, has all the earlier runs of its dialog behind it.            *)
EarlierOver ==
  \A q, r \in Runs :
    Before(q, r) /\ pc[r] \in Running \cup {"done", "failed"} =>
      pc[q] \in Finished

(* A run that did not get there waits for a run of its dialog no unfinished*)
(* earlier one comes after.                                                *)
WaitsForNewest ==
  \A q, r \in Runs :
    Before(q, r) /\ pc[r] \in {"scheduled", "waiting"} /\ pc[q] \in Unfinished =>
      /\ prev[r] # NoRun
      /\ runDialog[prev[r]] = runDialog[r]
      /\ ticket[q] <= ticket[prev[r]]

ChainInv ==
  /\ TypeOK
  /\ TicketsUnique
  /\ NothingCancelledYet
  /\ EarlierOver
  /\ WaitsForNewest
  /\ UnfinishedTracked

(* At most one unfinished run of a dialog is past the await: the later of  *)
(* two would have the earlier one behind it.                               *)
LEMMA ChainImpliesOneActive == ChainInv => OneActiveRun
<1> SUFFICES ASSUME ChainInv, NEW q \in Runs, NEW r \in Runs,
                    pc[q] \in Running, pc[r] \in Running,
                    runDialog[q] = runDialog[r], q # r
             PROVE  FALSE
  BY DEF OneActiveRun
<1>1. ticket[q] \in Nat /\ ticket[r] \in Nat /\ ticket[q] # ticket[r]
  BY DEF ChainInv, TypeOK, TicketsUnique, Unfinished
<1>2. Before(q, r) \/ Before(r, q)
  BY <1>1 DEF Before, Unfinished
<1> QED
  BY <1>2 DEF ChainInv, EarlierOver, Running, Finished

LEMMA ChainInit == Init => ChainInv
<1> SUFFICES ASSUME Init PROVE ChainInv
  OBVIOUS
<1>1. TypeOK
  BY TypeInit
<1>2. \A r \in Runs : pc[r] = "idle" /\ ticket[r] = 0
  BY DEF Init
<1>3. \A r \in Runs : pc[r] \notin Unfinished \cup Finished
  BY <1>2 DEF Unfinished, Running, Finished
<1>4. TicketsUnique
  BY <1>2, <1>3 DEF TicketsUnique
<1>5. NothingCancelledYet
  BY <1>2 DEF Init, NothingCancelledYet
<1> QED
  BY <1>1, <1>3, <1>4, <1>5
     DEF ChainInv, EarlierOver, WaitsForNewest, UnfinishedTracked, Before

(* A run whose previous one is over, and was not cancelled, comes after    *)
(* finished runs only.                                                     *)
LEMMA NothingEarlierRuns ==
  ASSUME ChainInv, NEW q \in Runs, NEW r \in Runs, Before(q, r),
         pc[r] \in {"scheduled", "waiting"},
         PreviousOver(r), ~PreviousCancelled(r)
  PROVE  pc[q] \in Finished
<1> SUFFICES ASSUME pc[q] \in Unfinished PROVE FALSE
  BY DEF Before
<1> DEFINE p == prev[r]
<1>1. /\ p \in Runs /\ p # NoRun /\ runDialog[p] = runDialog[r]
      /\ ticket[q] <= ticket[p]
  BY DEF ChainInv, TypeOK, WaitsForNewest
<1>2. pc[p] \in {"done", "failed"}
  BY <1>1 DEF PreviousOver, PreviousCancelled, Finished
<1>3. q # p
  BY <1>2 DEF Unfinished, Running
<1>4. ticket[q] < ticket[p]
  <2>1. ticket[q] \in Nat /\ ticket[p] \in Nat /\ ticket[q] > 0
    BY <1>1 DEF ChainInv, TypeOK, TicketsUnique
  <2>2. ticket[q] # ticket[p]
    BY <1>1, <1>3, <2>1 DEF ChainInv, TicketsUnique
  <2> QED
    BY <1>1, <2>1, <2>2
<1>5. Before(q, p)
  BY <1>1, <1>2, <1>4 DEF Before, Finished
<1>6. pc[q] \in Finished
  BY <1>1, <1>2, <1>5 DEF ChainInv, EarlierOver
<1> QED
  BY <1>6 DEF Unfinished, Running, Finished

LEMMA TicketOnlyIfAccepted ==
  ASSUME ChainInv, NEW r \in Runs, pc[r] \notin Unfinished \cup Finished
  PROVE  ticket[r] = 0
<1>1. ticket[r] \in Nat /\ ~(ticket[r] > 0)
  BY DEF ChainInv, TypeOK, TicketsUnique
<1> QED
  BY <1>1

(* A step of a task that was accepted and has not ended.                   *)
LEMMA MoveKeepsChain ==
  ASSUME ChainInv, TypeOK',
         NEW r \in Runs, NEW state \in {"waiting"} \cup Running \cup Finished,
         pc[r] \in Unfinished, Move(r, state),
         UNCHANGED <<serviceVars, requestVars, cancelled>>,
         \/ state \notin Running \cup {"done", "failed"}
         \/ pc[r] \in Running
         \/ \A q \in Runs : Before(q, r) => pc[q] \in Finished,
         state = "waiting" => pc[r] = "scheduled",
         state = "cancelled" => phase # "running"
  PROVE  ChainInv'
<1> USE DEF ChainInv
<1>1. /\ pc' = [pc EXCEPT ![r] = state] /\ pc \in [Runs -> States]
      /\ UNCHANGED <<phase, tails, tasks, runDialog, prev, ticket, cancelled>>
  BY DEF Move, serviceVars, requestVars, TypeOK
<1>2. \A q \in Runs :
        /\ pc'[q] = IF q = r THEN state ELSE pc[q]
        /\ pc'[q] \in Unfinished \cup Finished <=>
             pc[q] \in Unfinished \cup Finished
        /\ pc'[q] \in Unfinished => pc[q] \in Unfinished
        /\ pc[q] \in Finished => pc'[q] \in Finished
  BY <1>1 DEF Unfinished, Running, Finished
<1>3. \A q, t \in Runs : Before(q, t)' <=> Before(q, t)
  BY <1>1, <1>2 DEF Before
<1>4. TicketsUnique'
  BY <1>1, <1>2 DEF TicketsUnique
<1>5. NothingCancelledYet'
  BY <1>1, <1>2 DEF NothingCancelledYet
<1>6. EarlierOver'
  <2> SUFFICES ASSUME NEW q \in Runs, NEW t \in Runs, Before(q, t),
                      pc'[t] \in Running \cup {"done", "failed"}
               PROVE  pc'[q] \in Finished
    BY <1>3 DEF EarlierOver
  <2>1. pc[q] \in Finished
    BY <1>2 DEF EarlierOver
  <2> QED
    BY <1>2, <2>1
<1>7. WaitsForNewest'
  <2> SUFFICES ASSUME NEW q \in Runs, NEW t \in Runs, Before(q, t),
                      pc'[t] \in {"scheduled", "waiting"},
                      pc'[q] \in Unfinished
               PROVE  /\ prev[t] # NoRun
                      /\ runDialog[prev[t]] = runDialog[t]
                      /\ ticket[q] <= ticket[prev[t]]
    BY <1>1, <1>3 DEF WaitsForNewest
  <2>1. pc[t] \in {"scheduled", "waiting"} /\ pc[q] \in Unfinished
    BY <1>2 DEF Running, Finished
  <2> QED
    BY <2>1 DEF WaitsForNewest
<1>8. UnfinishedTracked'
  BY <1>1, <1>2 DEF UnfinishedTracked
<1> QED
  BY <1>4, <1>5, <1>6, <1>7, <1>8

LEMMA TaskKeepsChain ==
  ASSUME ChainInv, TypeOK', NEW r \in Runs, Task(r)
  PROVE  ChainInv'
<1> USE DEF Running, Finished, Unfinished
<1>0. \/ cancelled = {} /\ \A q \in Runs : pc[q] # "cancelled"
      \/ phase # "running"
  BY DEF ChainInv, NothingCancelledYet
<1>1. CASE Wait(r)
  BY <1>1, MoveKeepsChain DEF Wait, FirstStep
<1>2. CASE Begin(r)
  <2>1. pc[r] \in {"scheduled", "waiting"} /\ PreviousOver(r)
          /\ ~PreviousCancelled(r)
    BY <1>2 DEF Begin, FirstStep
  <2>2. \A q \in Runs : Before(q, r) => pc[q] \in Finished
    BY <2>1, NothingEarlierRuns
  <2> QED
    BY <1>2, <2>1, <2>2, MoveKeepsChain DEF Begin
<1>3. CASE CheckHistory(r)
  BY <1>3, MoveKeepsChain DEF CheckHistory
<1>4. CASE LoadHistory(r)
  BY <1>4, MoveKeepsChain DEF LoadHistory
<1>5. CASE Delta(r)
  <2>1. pc[r] \in Running /\ Move(r, pc[r])
    BY <1>5 DEF Delta, Move, ChainInv, TypeOK
  <2> QED
    BY <1>5, <2>1, MoveKeepsChain DEF Delta
<1>6. CASE Respond(r)
  BY <1>6, MoveKeepsChain DEF Respond
<1>7. CASE Commit(r)
  BY <1>7, MoveKeepsChain DEF Commit
<1>8. CASE Finish(r)
  BY <1>8, MoveKeepsChain DEF Finish
<1>9. CASE RunFails(r)
  BY <1>9, MoveKeepsChain DEF RunFails
<1>10. CASE CancelBeforeStart(r)
  BY <1>0, <1>10, MoveKeepsChain DEF CancelBeforeStart, FirstStep
<1>11. CASE CancelWaiting(r)
  <2>1. phase # "running"
    BY <1>0, <1>11
       DEF CancelWaiting, PreviousCancelled, ChainInv, TypeOK
  <2> QED
    BY <1>11, <2>1, MoveKeepsChain DEF CancelWaiting
<1>12. CASE CancelRunning(r)
  BY <1>0, <1>12, MoveKeepsChain DEF CancelRunning
<1>13. CASE TaskDone(r)
  <2>1. /\ pc[r] \in Finished /\ tasks' = tasks \ {r}
        /\ tails' = [tails EXCEPT ![runDialog[r]] = IF @ = r THEN NoRun ELSE @]
        /\ UNCHANGED <<phase, pc, runDialog, prev, ticket, cancelled>>
    BY <1>13 DEF TaskDone, requestVars
  <2>2. \A q, t \in Runs : Before(q, t)' <=> Before(q, t)
    BY <2>1 DEF Before
  <2>3. TicketsUnique' /\ NothingCancelledYet' /\ EarlierOver' /\ WaitsForNewest'
    BY <2>1, <2>2 DEF ChainInv, TicketsUnique, NothingCancelledYet, EarlierOver,
                      WaitsForNewest
  <2>4. UnfinishedTracked'
    <3> SUFFICES ASSUME NEW q \in Runs, pc[q] \in Unfinished
                 PROVE  /\ q \in tasks'
                        /\ phase = "running" =>
                             /\ tails'[runDialog[q]] # NoRun
                             /\ runDialog[tails'[runDialog[q]]] = runDialog[q]
                             /\ ticket[q] <= ticket[tails'[runDialog[q]]]
      BY <2>1 DEF UnfinishedTracked
    <3>1. q # r /\ q \in tasks
      BY <2>1 DEF ChainInv, UnfinishedTracked
    <3>2. CASE phase = "running"
      <4>1. /\ tails[runDialog[q]] # NoRun
            /\ runDialog[tails[runDialog[q]]] = runDialog[q]
            /\ ticket[q] <= ticket[tails[runDialog[q]]]
        BY <3>2 DEF ChainInv, UnfinishedTracked
      <4>2. tails[runDialog[q]] # r
        <5> SUFFICES ASSUME tails[runDialog[q]] = r PROVE FALSE
          OBVIOUS
        <5>1. ticket[q] < ticket[r]
          BY <3>1, <4>1 DEF ChainInv, TypeOK, TicketsUnique
        <5>2. Before(q, r) /\ pc[r] # "cancelled"
          BY <2>1, <3>2, <4>1, <5>1 DEF Before, ChainInv, NothingCancelledYet
        <5> QED
          BY <2>1, <5>2 DEF ChainInv, EarlierOver
      <4>3. tails'[runDialog[q]] = tails[runDialog[q]]
        BY <2>1, <4>2 DEF ChainInv, TypeOK
      <4> QED
        BY <2>1, <3>1, <4>1, <4>3
    <3> QED
      BY <2>1, <3>1, <3>2
  <2> QED
    BY <2>3, <2>4 DEF ChainInv
<1> QED
  BY <1>1, <1>2, <1>3, <1>4, <1>5, <1>6, <1>7, <1>8, <1>9, <1>10, <1>11,
     <1>12, <1>13 DEF Task

(* submit() puts the new run behind the newest unfinished one.             *)
LEMMA SubmitKeepsChain ==
  ASSUME ChainInv, TypeOK', NEW r \in Runs, Submit(r)
  PROVE  ChainInv'
<1> DEFINE d == runDialog[r]
<1>0. pc[r] = "checked" /\ pc[r] \notin Unfinished \cup Finished
  BY DEF Submit, Unfinished, Running, Finished
<1>1. /\ pc[r] = "checked" /\ phase = "running" /\ ticket[r] = 0
      /\ d \in Dialogs /\ accepted \in Nat
      /\ \A q \in Runs : ticket[q] \in 0..accepted
  BY <1>0, TicketOnlyIfAccepted DEF Submit, ChainInv, TypeOK
<1>2. /\ prev' = [prev EXCEPT ![r] = tails[d]]
      /\ tails' = [tails EXCEPT ![d] = r]
      /\ tasks' = tasks \cup {r}
      /\ ticket' = [ticket EXCEPT ![r] = accepted + 1]
      /\ pc' = [pc EXCEPT ![r] = "scheduled"]
      /\ UNCHANGED <<phase, runDialog, cancelled>>
  BY DEF Submit
<1> HIDE DEF d
<1>3. /\ \A q \in Runs : pc'[q] = IF q = r THEN "scheduled" ELSE pc[q]
      /\ \A q \in Runs : ticket'[q] = IF q = r THEN accepted + 1 ELSE ticket[q]
      /\ \A q \in Runs : prev'[q] = IF q = r THEN tails[d] ELSE prev[q]
  BY <1>2 DEF ChainInv, TypeOK
<1>4. ~(pc[r] \in Unfinished \cup Finished)
  BY <1>1 DEF Unfinished, Running, Finished
<1>5. \A q, t \in Runs :
        Before(q, t)' <=> \/ t # r /\ Before(q, t)
                          \/ /\ t = r /\ q # r
                             /\ pc[q] \in Unfinished \cup Finished
                             /\ runDialog[q] = d
  <2> SUFFICES ASSUME NEW q \in Runs, NEW t \in Runs
               PROVE  Before(q, t)' <=>
                        \/ t # r /\ Before(q, t)
                        \/ /\ t = r /\ q # r
                           /\ pc[q] \in Unfinished \cup Finished
                           /\ runDialog[q] = d
    OBVIOUS
  <2>1. CASE q = r
    BY <1>1, <1>2, <1>3, <1>4, <2>1 DEF Before
  <2>2. CASE q # r /\ t = r
    BY <1>1, <1>2, <1>3, <2>2 DEF Before, Unfinished, d
  <2>3. CASE q # r /\ t # r
    BY <1>2, <1>3, <2>3 DEF Before
  <2> QED
    BY <2>1, <2>2, <2>3
<1>6. TicketsUnique'
  BY <1>1, <1>3 DEF ChainInv, TicketsUnique, Unfinished
<1>7. NothingCancelledYet'
  BY <1>2, <1>3 DEF ChainInv, NothingCancelledYet
<1>8. EarlierOver'
  <2> SUFFICES ASSUME NEW q \in Runs, NEW t \in Runs, Before(q, t)',
                      pc'[t] \in Running \cup {"done", "failed"}
               PROVE  pc'[q] \in Finished
    BY DEF EarlierOver
  <2>1. t # r
    BY <1>3 DEF Running
  <2>2. Before(q, t) /\ q # r
    BY <1>4, <1>5, <2>1 DEF Before
  <2> QED
    BY <1>3, <2>1, <2>2 DEF ChainInv, EarlierOver
<1>9. WaitsForNewest'
  <2> SUFFICES ASSUME NEW q \in Runs, NEW t \in Runs, Before(q, t)',
                      pc'[t] \in {"scheduled", "waiting"},
                      pc'[q] \in Unfinished
               PROVE  /\ prev'[t] # NoRun
                      /\ runDialog[prev'[t]] = runDialog[t]
                      /\ ticket'[q] <= ticket'[prev'[t]]
    BY <1>2 DEF WaitsForNewest
  <2>1. CASE t = r
    <3>1. q # r /\ pc[q] \in Unfinished /\ runDialog[q] = d
      BY <1>3, <1>5, <2>1
    <3>2. /\ tails[d] # NoRun /\ runDialog[tails[d]] = d
          /\ ticket[q] <= ticket[tails[d]] /\ tails[d] \in Runs
      BY <1>1, <3>1 DEF ChainInv, UnfinishedTracked, TypeOK
    <3>3. tails[d] # r
      BY <1>1, <3>1, <3>2 DEF ChainInv, TicketsUnique
    <3> QED
      BY <1>3, <2>1, <3>1, <3>2, <3>3 DEF d
  <2>2. CASE t # r
    <3>1. Before(q, t) /\ q # r
      BY <1>4, <1>5, <2>2 DEF Before
    <3>2. pc[t] \in {"scheduled", "waiting"} /\ pc[q] \in Unfinished
      BY <1>3, <2>2, <3>1
    <3>3. /\ prev[t] # NoRun /\ runDialog[prev[t]] = runDialog[t]
          /\ ticket[q] <= ticket[prev[t]] /\ prev[t] \in Runs
      BY <3>1, <3>2 DEF ChainInv, WaitsForNewest, TypeOK
    <3>4. prev[t] # r
      BY <1>1, <3>2, <3>3 DEF ChainInv, TicketsUnique
    <3> QED
      BY <1>3, <2>2, <3>1, <3>3, <3>4
  <2> QED
    BY <2>1, <2>2
<1>10. UnfinishedTracked'
  <2> SUFFICES ASSUME NEW q \in Runs, pc'[q] \in Unfinished
               PROVE  /\ q \in tasks'
                      /\ tails'[runDialog[q]] # NoRun
                      /\ runDialog[tails'[runDialog[q]]] = runDialog[q]
                      /\ ticket'[q] <= ticket'[tails'[runDialog[q]]]
    BY <1>2 DEF UnfinishedTracked
  <2>0. runDialog[q] \in Dialogs
    BY <1>1, <1>3 DEF ChainInv, TypeOK, Unfinished, Running, d
  <2>1. CASE runDialog[q] = d
    <3>1. tails'[d] = r /\ runDialog[r] = d
      BY <1>1, <1>2 DEF ChainInv, TypeOK, d
    <3>2. q \in tasks'
      BY <1>2, <1>3 DEF ChainInv, UnfinishedTracked
    <3>3. ticket'[q] <= ticket'[r]
      BY <1>1, <1>3
    <3> QED
      BY <2>1, <3>1, <3>2, <3>3, ServiceAssumption
  <2>2. CASE runDialog[q] # d
    <3>1. q # r /\ pc[q] \in Unfinished
      BY <1>3, <2>2 DEF d
    <3>2. tails'[runDialog[q]] = tails[runDialog[q]]
      BY <1>2, <2>0, <2>2 DEF ChainInv, TypeOK
    <3>3. /\ q \in tasks /\ tails[runDialog[q]] # NoRun
          /\ runDialog[tails[runDialog[q]]] = runDialog[q]
          /\ ticket[q] <= ticket[tails[runDialog[q]]]
          /\ tails[runDialog[q]] \in Runs
      BY <1>1, <2>0, <3>1 DEF ChainInv, UnfinishedTracked, TypeOK
    <3>4. tails[runDialog[q]] # r
      BY <2>2, <3>3 DEF d
    <3> QED
      BY <1>2, <1>3, <3>1, <3>2, <3>3, <3>4
  <2> QED
    BY <2>1, <2>2
<1> QED
  BY <1>6, <1>7, <1>8, <1>9, <1>10 DEF ChainInv

(* A request before it is accepted, or refused, is no part of the chain.   *)
LEMMA UnacceptedKeepsChain ==
  ASSUME ChainInv, TypeOK', NEW r \in Runs,
         NEW state \in {"checked", "refused"}, Move(r, state),
         pc[r] \in {"idle", "checked"},
         \A q \in Runs : q # r => runDialog'[q] = runDialog[q],
         UNCHANGED <<serviceVars, prev, ticket, cancelled>>
  PROVE  ChainInv'
<1>1. /\ \A q \in Runs : pc'[q] = IF q = r THEN state ELSE pc[q]
      /\ UNCHANGED <<phase, tails, tasks, prev, ticket, cancelled>>
  BY DEF Move, serviceVars, ChainInv, TypeOK
<1>0. pc[r] \notin Unfinished \cup Finished
  BY DEF Unfinished, Running, Finished
<1>2. /\ pc[r] \notin Unfinished \cup Finished
      /\ pc'[r] \notin Unfinished \cup Finished
      /\ ticket[r] = 0
  BY <1>0, <1>1, TicketOnlyIfAccepted DEF Unfinished, Running, Finished
<1>3. \A q, t \in Runs :
        /\ Before(q, t)' <=> Before(q, t)
        /\ Before(q, t) => q # r /\ t # r
  BY <1>1, <1>2 DEF Before
<1>4. TicketsUnique' /\ NothingCancelledYet' /\ EarlierOver'
  BY <1>1, <1>2, <1>3
     DEF ChainInv, TicketsUnique, NothingCancelledYet, EarlierOver
<1>5. \A q \in Runs : pc[q] \in Unfinished => ticket[q] \in Nat \ {0}
  BY DEF ChainInv, TypeOK, TicketsUnique
<1>6. WaitsForNewest'
  <2> SUFFICES ASSUME NEW q \in Runs, NEW t \in Runs, Before(q, t),
                      pc[t] \in {"scheduled", "waiting"}, pc[q] \in Unfinished,
                      q # r, t # r
               PROVE  /\ prev[t] # NoRun
                      /\ runDialog'[prev[t]] = runDialog'[t]
                      /\ ticket[q] <= ticket[prev[t]]
    BY <1>1, <1>3 DEF WaitsForNewest
  <2>1. /\ prev[t] # NoRun /\ runDialog[prev[t]] = runDialog[t]
        /\ ticket[q] <= ticket[prev[t]] /\ prev[t] \in Runs
    BY DEF ChainInv, WaitsForNewest, TypeOK
  <2>2. prev[t] # r
    BY <1>2, <1>5, <2>1
  <2> QED
    BY <2>1, <2>2
<1>7. UnfinishedTracked'
  <2> SUFFICES ASSUME NEW q \in Runs, pc[q] \in Unfinished, q # r
               PROVE  /\ q \in tasks
                      /\ phase = "running" =>
                           /\ tails[runDialog[q]] # NoRun
                           /\ runDialog'[tails[runDialog[q]]] = runDialog[q]
                           /\ ticket[q] <= ticket[tails[runDialog[q]]]
    BY <1>1, <1>2 DEF UnfinishedTracked
  <2>1. runDialog[q] \in Dialogs
    BY DEF ChainInv, TypeOK, Unfinished, Running
  <2>2. CASE phase = "running"
    <3>1. /\ tails[runDialog[q]] # NoRun
          /\ runDialog[tails[runDialog[q]]] = runDialog[q]
          /\ ticket[q] <= ticket[tails[runDialog[q]]]
          /\ tails[runDialog[q]] \in Runs
      BY <2>1, <2>2 DEF ChainInv, UnfinishedTracked, TypeOK
    <3>2. tails[runDialog[q]] # r
      BY <1>2, <1>5, <3>1
    <3> QED
      BY <3>1, <3>2 DEF ChainInv, UnfinishedTracked
  <2> QED
    BY <2>2 DEF ChainInv, UnfinishedTracked
<1> QED
  BY <1>4, <1>6, <1>7 DEF ChainInv

LEMMA OthersKeepChain ==
  ASSUME ChainInv, TypeOK',
         UNCHANGED <<tails, tasks, phase, pc, runDialog, prev, ticket, cancelled>>
  PROVE  ChainInv'
  BY DEF ChainInv, TicketsUnique, NothingCancelledYet, EarlierOver,
         WaitsForNewest, UnfinishedTracked, Before

LEMMA ChainStep == ChainInv /\ [Next]_vars => ChainInv'
<1> SUFFICES ASSUME ChainInv, [Next]_vars PROVE ChainInv'
  OBVIOUS
<1>0. TypeOK'
  BY TypeStep DEF ChainInv
<1> USE <1>0 DEF serviceVars, requestVars
<1>1. ASSUME NEW d \in Dialogs, StartDialog(d) PROVE ChainInv'
  BY <1>1, OthersKeepChain DEF StartDialog
<1>2. CASE DialogCreated
  BY <1>2, OthersKeepChain DEF DialogCreated
<1>3. CASE CreateFails
  BY <1>3, OthersKeepChain DEF CreateFails
<1>4. ASSUME NEW d \in Dialogs, DeleteDialog(d) PROVE ChainInv'
  BY <1>4, OthersKeepChain DEF DeleteDialog
<1>5. ASSUME NEW r \in Runs, NEW d \in Dialogs, SubmitCheck(r, d)
      PROVE  ChainInv'
  <2>1. \A q \in Runs : q # r => runDialog'[q] = runDialog[q]
    BY <1>5 DEF SubmitCheck, ChainInv, TypeOK
  <2> QED
    BY <1>5, <2>1, UnacceptedKeepsChain DEF SubmitCheck, Move
<1>6. ASSUME NEW r \in Runs, Submit(r) PROVE ChainInv'
  BY <1>6, SubmitKeepsChain
<1>7. ASSUME NEW r \in Runs, SubmitRefused(r) PROVE ChainInv'
  BY <1>7, UnacceptedKeepsChain DEF SubmitRefused, Move
<1>8. ASSUME NEW r \in Runs, Task(r) PROVE ChainInv'
  BY <1>8, TaskKeepsChain
<1>9. CASE ShutdownBegin
  BY <1>9 DEF ShutdownBegin, ChainInv, TicketsUnique, NothingCancelledYet,
              EarlierOver, WaitsForNewest, UnfinishedTracked, Before
<1>10. CASE ShutdownFinish
  <2>1. \A r \in Runs : pc[r] \notin Unfinished
    BY <1>10 DEF ShutdownFinish, ChainInv, UnfinishedTracked, Unfinished,
                 Running, Finished
  <2> QED
    BY <1>10, <2>1
       DEF ShutdownFinish, ChainInv, TicketsUnique, NothingCancelledYet,
           EarlierOver, WaitsForNewest, UnfinishedTracked, Before
<1>11. ASSUME NEW s \in Subs, NEW d \in Dialogs, SubscribeCheck(s, d)
       PROVE  ChainInv'
  BY <1>11, OthersKeepChain DEF SubscribeCheck, unchangedBySubs
<1>12. ASSUME NEW s \in Subs, Subscribe(s) PROVE ChainInv'
  BY <1>12, OthersKeepChain DEF Subscribe, unchangedBySubs
<1>13. ASSUME NEW s \in Subs, Unsubscribe(s) PROVE ChainInv'
  BY <1>13, OthersKeepChain DEF Unsubscribe, unchangedBySubs
<1>14. ASSUME NEW s \in Subs, Receive(s) PROVE ChainInv'
  BY <1>14, OthersKeepChain DEF Receive, unchangedBySubs
<1>15. CASE UNCHANGED vars
  BY <1>15, OthersKeepChain DEF vars
<1> QED
  BY <1>1, <1>2, <1>3, <1>4, <1>5, <1>6, <1>7, <1>8, <1>9, <1>10, <1>11,
     <1>12, <1>13, <1>14, <1>15 DEF Next

THEOREM ChainInvariant == Spec => []ChainInv
<1>1. Init => ChainInv
  BY ChainInit
<1> QED
  BY <1>1, ChainStep, PTL DEF Spec

(* The chain of tails serialises the requests of a dialog, however they,   *)
(* the done callbacks, deletions and shutdown interleave.                  *)
THEOREM OneRunAtATime == Spec => []OneActiveRun
  BY ChainInvariant, ChainImpliesOneActive, PTL

(* No accepted request is ever lost to shutdown(), and the tail a new      *)
(* request would wait for is the newest unfinished one or a later one.     *)
THEOREM NoRunForgotten == Spec => []UnfinishedTracked
<1>1. ChainInv => UnfinishedTracked
  BY DEF ChainInv
<1> QED
  BY <1>1, ChainInvariant, PTL

-----------------------------------------------------------------------------
(* The service and the broker.                                             *)

BrokerProofs == INSTANCE EventBrokerProofs WITH Events <- RunEvents

LEMMA BrokerStep ==
  ASSUME TypeOK, [Next]_vars
  PROVE  Broker!Next \/ UNCHANGED brokerVars
<1> USE DEF eventVars, brokerVars
<1>1. ASSUME NEW d \in Dialogs, StartDialog(d) PROVE UNCHANGED brokerVars
  BY <1>1 DEF StartDialog
<1>2. CASE DialogCreated
  BY <1>2 DEF DialogCreated
<1>3. CASE CreateFails
  BY <1>3 DEF CreateFails
<1>4. ASSUME NEW d \in Dialogs, DeleteDialog(d) PROVE UNCHANGED brokerVars
  BY <1>4 DEF DeleteDialog
<1>5. ASSUME NEW r \in Runs, NEW d \in Dialogs, SubmitCheck(r, d)
      PROVE  UNCHANGED brokerVars
  BY <1>5 DEF SubmitCheck
<1>6. ASSUME NEW r \in Runs, Submit(r) PROVE UNCHANGED brokerVars
  BY <1>6 DEF Submit
<1>7. ASSUME NEW r \in Runs, SubmitRefused(r) PROVE UNCHANGED brokerVars
  BY <1>7 DEF SubmitRefused
<1>8. ASSUME NEW r \in Runs, Task(r)
      PROVE  Broker!Next \/ UNCHANGED brokerVars
  <2>1. ASSUME NEW type \in EventTypes, Publish(r, type), pc[r] # "idle"
        PROVE  Broker!Next
    <3>1. [run |-> r, type |-> type] \in RunEvents /\ runDialog[r] \in Dialogs
      BY <2>1 DEF RunEvents, TypeOK
    <3> QED
      BY <2>1, <3>1 DEF Publish, Broker!Next
  <2>2. CASE \E type \in EventTypes : Publish(r, type) /\ pc[r] # "idle"
    BY <2>1, <2>2
  <2>3. (\E type \in EventTypes : Publish(r, type) /\ pc[r] # "idle")
          \/ UNCHANGED brokerVars
    BY <1>8 DEF Task, Wait, Begin, CheckHistory, LoadHistory, Delta, Respond,
                Commit, Finish, RunFails, CancelBeforeStart, CancelWaiting,
                CancelRunning, TaskDone, FirstStep, EventTypes, Running
  <2> QED
    BY <2>2, <2>3
<1>9. CASE ShutdownBegin
  BY <1>9 DEF ShutdownBegin
<1>10. CASE ShutdownFinish
  BY <1>10 DEF ShutdownFinish, Broker!Next, Broker!Manage
<1>11. ASSUME NEW s \in Subs, NEW d \in Dialogs, SubscribeCheck(s, d)
       PROVE  UNCHANGED brokerVars
  BY <1>11 DEF SubscribeCheck
<1>12. ASSUME NEW s \in Subs, Subscribe(s) PROVE Broker!Next
  BY <1>12 DEF Subscribe, TypeOK, Broker!Next, Broker!Manage
<1>13. ASSUME NEW s \in Subs, Unsubscribe(s) PROVE Broker!Next
  BY <1>13 DEF Unsubscribe, Broker!Next, Broker!Manage
<1>14. ASSUME NEW s \in Subs, Receive(s) PROVE Broker!Next
  BY <1>14 DEF Receive, Broker!Next, Broker!Manage
<1>15. CASE UNCHANGED vars
  BY <1>15 DEF vars
<1> QED
  BY <1>1, <1>2, <1>3, <1>4, <1>5, <1>6, <1>7, <1>8, <1>9, <1>10, <1>11,
     <1>12, <1>13, <1>14, <1>15 DEF Next

(* Whatever the service does with the broker is one of the broker's own    *)
(* operations, so that what is proved of EventBroker holds in the service. *)
THEOREM ServiceUsesBroker == Spec => UsesBroker
<1>1. Init => Broker!Init
  BY DEF Init
<1>2. TypeOK /\ [Next]_vars => [Broker!Next]_(Broker!brokerVars)
  BY BrokerStep DEF brokerVars, Broker!brokerVars
<1> QED
  BY <1>1, <1>2, ServiceTypeCorrect, PTL DEF Spec, UsesBroker, Broker!Spec

(* The instance of the broker's proofs is about the same broker.           *)
LEMMA SameManage == Broker!Manage => BrokerProofs!Manage
  BY DEF Broker!Manage, BrokerProofs!Manage,
         Broker!Subscribe, BrokerProofs!Subscribe,
         Broker!Unsubscribe, BrokerProofs!Unsubscribe,
         Broker!CloseDialog, BrokerProofs!CloseDialog,
         Broker!Shutdown, BrokerProofs!Shutdown,
         Broker!Receive, BrokerProofs!Receive,
         Broker!Close, BrokerProofs!Close, Broker!Drained, BrokerProofs!Drained,
         Broker!IsFull, BrokerProofs!IsFull,
         Broker!Discarded, BrokerProofs!Discarded

LEMMA SamePublish ==
  ASSUME NEW d \in Dialogs, NEW event \in RunEvents, Broker!Publish(d, event)
  PROVE  BrokerProofs!Publish(d, event)
  BY DEF Broker!Publish, BrokerProofs!Publish,
         Broker!Reached, BrokerProofs!Reached,
         Broker!Accepts, BrokerProofs!Accepts,
         Broker!IsFull, BrokerProofs!IsFull,
         Broker!Discarded, BrokerProofs!Discarded,
         Broker!OfferedQueue, BrokerProofs!OfferedQueue,
         Broker!OfferedReason, BrokerProofs!OfferedReason

LEMMA SameBroker == Broker!Spec => BrokerProofs!Spec
<1>1. Broker!Init => BrokerProofs!Init
  BY DEF Broker!Init, BrokerProofs!Init
<1>2. [Broker!Next]_(Broker!brokerVars) =>
        [BrokerProofs!Next]_(BrokerProofs!brokerVars)
  BY SameManage, SamePublish
     DEF Broker!Next, BrokerProofs!Next, Broker!brokerVars,
         BrokerProofs!brokerVars
<1> QED
  BY <1>1, <1>2, PTL DEF Broker!Spec, BrokerProofs!Spec

(* The broker's inductive invariant in the service.                        *)
THEOREM BrokerInvariantInService == Spec => []BrokerProofs!BrokerInv
<1>1. BrokerProofs!Spec => []BrokerProofs!BrokerInv
  BY BrokerProofs!BrokerInvariant, ServiceAssumption
<1> QED
  BY <1>1, SameBroker, ServiceUsesBroker, PTL DEF UsesBroker

-----------------------------------------------------------------------------
(* What shutdown() leaves behind.                                          *)

DownMeansClosed == phase = "down" => tasks = {} /\ brokerClosed

LEMMA DownStep ==
  TypeOK /\ DownMeansClosed /\ [Next]_vars => DownMeansClosed'
<1> SUFFICES ASSUME TypeOK, DownMeansClosed, [Next]_vars PROVE DownMeansClosed'
  OBVIOUS
<1>1. brokerClosed => brokerClosed'
  BY BrokerStep DEF Broker!Next, Broker!Manage, Broker!Subscribe,
       Broker!Unsubscribe, Broker!CloseDialog, Broker!Shutdown,
       Broker!Receive, Broker!Publish, brokerVars
<1>2. phase' = "down" => phase = "down" \/ ShutdownFinish
  BY DEF Next, vars, serviceVars, StartDialog, DialogCreated, CreateFails,
         DeleteDialog, SubmitCheck, Submit, SubmitRefused, Task, Wait, Begin,
         CheckHistory, LoadHistory, Delta, Respond, Commit, Finish, RunFails,
         CancelBeforeStart, CancelWaiting, CancelRunning, TaskDone,
         ShutdownBegin, SubscribeCheck, Subscribe, Unsubscribe, Receive,
         unchangedBySubs
<1>3. CASE ShutdownFinish
  BY <1>3 DEF ShutdownFinish, Broker!Shutdown, DownMeansClosed
<1>4. CASE phase = "down" /\ ~ShutdownFinish
  <2>1. tasks' \subseteq tasks
    BY <1>4 DEF Next, vars, serviceVars, StartDialog, DialogCreated, CreateFails,
         DeleteDialog, SubmitCheck, Submit, SubmitRefused, Task, Wait, Begin,
         CheckHistory, LoadHistory, Delta, Respond, Commit, Finish, RunFails,
         CancelBeforeStart, CancelWaiting, CancelRunning, TaskDone,
         ShutdownBegin, SubscribeCheck, Subscribe, Unsubscribe, Receive,
         unchangedBySubs
  <2> QED
    BY <1>1, <1>4, <2>1 DEF DownMeansClosed
<1> QED
  BY <1>2, <1>3, <1>4 DEF DownMeansClosed

(* When shutdown() has returned, no task is left to publish anything and   *)
(* no subscription is open, so no reader waits for ever.                   *)
THEOREM ShutdownLeavesNothing == Spec => []ShutdownQuiet
<1>1. Init => DownMeansClosed
  BY DEF Init, DownMeansClosed
<1>2. Spec => []DownMeansClosed
  BY <1>1, DownStep, ServiceTypeCorrect, PTL DEF Spec
<1>3. ASSUME ChainInv, DownMeansClosed, BrokerProofs!BrokerInv
      PROVE  ShutdownQuiet
  <2> SUFFICES ASSUME phase = "down"
               PROVE  /\ \A r \in Runs : pc[r] \notin Unfinished
                      /\ \A s \in Subs : dialogOf[s] # NoDialog => reason[s] # "open"
    BY DEF ShutdownQuiet
  <2>1. \A r \in Runs : pc[r] \notin Unfinished
    BY <1>3 DEF DownMeansClosed, ChainInv, UnfinishedTracked
  <2>2. ASSUME NEW s \in Subs, dialogOf[s] # NoDialog, reason[s] = "open"
        PROVE  FALSE
    <3>1. dialogOf[s] \in Dialogs
      BY <1>3, <2>2 DEF BrokerProofs!BrokerInv, BrokerProofs!TypeOK
    <3>2. s \in subscribers[dialogOf[s]]
      BY <1>3, <2>2, <3>1
         DEF BrokerProofs!BrokerInv, BrokerProofs!RegisteredIffOpen
    <3> QED
      BY <1>3, <3>1, <3>2 DEF DownMeansClosed, BrokerProofs!BrokerInv,
                              BrokerProofs!ClosedBrokerEmpty
  <2> QED
    BY <2>1, <2>2
<1> QED
  BY <1>2, <1>3, ChainInvariant, BrokerInvariantInService, PTL

=============================================================================
