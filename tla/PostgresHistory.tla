-------------------------- MODULE PostgresHistory ----------------------------
(***************************************************************************)
(* The history store in PostgreSQL (db/history.py and, for the             *)
(* administrator's side of reports, db/reports.py), shared by every        *)
(* process that serves requests.                                           *)
(*                                                                         *)
(* A client is a coroutine inside a call.  A call is one transaction of    *)
(* one or more statements at READ COMMITTED: each statement sees what is   *)
(* committed when it starts, so one action is one statement, the last one  *)
(* together with the commit.  Rows that another transaction has not        *)
(* committed are invisible and appear with its commit.  A transaction may  *)
(* be rolled back at any point (a lost connection, a cancelled caller).    *)
(* A call with a single statement is one action; the constants, the other  *)
(* variables and what the store promises are those of HistoryStore.tla.    *)
(***************************************************************************)
EXTENDS Naturals, Sequences, FiniteSetsExt

CONSTANTS Dialogs, Exchanges, Scores, None, Clients

ASSUME ClientsAssumption == None \notin Clients

VARIABLES
  dialogs, title, issued, feedback, reports,
  rows,      (* table messages                                             *)
  lock,      (* the client that holds the row of a dialog FOR UPDATE       *)
  pc,        (* per client, the statement to execute next                  *)
  dialog,    (* per client, the dialog it appends to                       *)
  exchange,  (* per client, what it appends, rates or reports              *)
  position   (* per client, the position after the last message            *)

tables == <<dialogs, title, issued, feedback, reports, rows>>
calls == <<lock, pc, dialog, exchange, position>>
vars == <<tables, calls>>

Statements == {"idle", "last", "insert", "rate", "clear", "report"}

Rows == [dialog : Dialogs, position : Nat, exchange : Exchanges,
         role : {"user", "assistant"}]

RowsOf(d) == {row \in rows : row.dialog = d}

(* The messages of a dialog ORDER BY position.                             *)
Ordered(d) ==
  [i \in 1..Cardinality(RowsOf(d)) |->
     LET row == CHOOSE r \in RowsOf(d) :
                  Cardinality({q \in RowsOf(d) : q.position < r.position})
                    = i - 1
     IN  [exchange |-> row.exchange, role |-> row.role]]

Store == INSTANCE HistoryStore WITH
           messages <- [d \in Dialogs |-> Ordered(d)]

TypeOK ==
  /\ dialogs \in [Dialogs -> {"unused", "stored", "gone"}]
  /\ title \in [Dialogs -> Exchanges \cup {None}]
  /\ issued \in SUBSET Exchanges
  /\ feedback \in [Exchanges -> Scores \cup {None}]
  /\ reports \in Seq(Store!Reports)
  /\ rows \in SUBSET Rows
  /\ lock \in [Dialogs -> Clients \cup {None}]
  /\ pc \in [Clients -> Statements]
  /\ dialog \in [Clients -> Dialogs \cup {None}]
  /\ exchange \in [Clients -> Exchanges \cup {None}]
  /\ position \in [Clients -> Nat]

Init ==
  /\ dialogs = [d \in Dialogs |-> "unused"]
  /\ title = [d \in Dialogs |-> None]
  /\ issued = {}
  /\ feedback = [e \in Exchanges |-> None]
  /\ reports = <<>>
  /\ rows = {}
  /\ lock = [d \in Dialogs |-> None]
  /\ pc = [c \in Clients |-> "idle"]
  /\ dialog = [c \in Clients |-> None]
  /\ exchange = [c \in Clients |-> None]
  /\ position = [c \in Clients |-> 0]

-----------------------------------------------------------------------------

(* The client leaves its transaction, which gives up its locks.            *)
EndCall(c) ==
  /\ pc' = [pc EXCEPT ![c] = "idle"]
  /\ dialog' = [dialog EXCEPT ![c] = None]
  /\ exchange' = [exchange EXCEPT ![c] = None]
  /\ position' = [position EXCEPT ![c] = 0]
  /\ lock' = [d \in Dialogs |-> IF lock[d] = c THEN None ELSE lock[d]]

Rollback(c) ==
  /\ pc[c] # "idle"
  /\ EndCall(c)
  /\ UNCHANGED tables

Create(d) ==
  /\ dialogs[d] = "unused"
  /\ dialogs' = [dialogs EXCEPT ![d] = "stored"]
  /\ UNCHANGED <<title, issued, feedback, reports, rows, calls>>

(* append: SELECT ... FOR UPDATE, which waits for the row.                 *)
LockDialogShared(c, d, e) ==     (* mutant: a plain SELECT                 *)
  /\ pc[c] = "idle"
  /\ dialogs[d] = "stored"
  /\ e \notin issued /\ \A other \in Clients : exchange[other] # e
  /\ pc' = [pc EXCEPT ![c] = "last"]
  /\ dialog' = [dialog EXCEPT ![c] = d]
  /\ exchange' = [exchange EXCEPT ![c] = e]
  /\ UNCHANGED <<tables, lock, position>>
LockDialog(c, d, e) ==
  /\ pc[c] = "idle"
  /\ dialogs[d] = "stored" /\ lock[d] = None
  /\ e \notin issued /\ \A other \in Clients : exchange[other] # e
  /\ lock' = [lock EXCEPT ![d] = c]
  /\ pc' = [pc EXCEPT ![c] = "last"]
  /\ dialog' = [dialog EXCEPT ![c] = d]
  /\ exchange' = [exchange EXCEPT ![c] = e]
  /\ UNCHANGED <<tables, position>>

ReadLastPositionRaw(c) ==        (* mutant: max() of no rows is NULL       *)
  /\ pc[c] = "last"
  /\ position' =
       [position EXCEPT
          ![c] = LET taken == {row.position : row \in RowsOf(dialog[c])}
                 IN  IF taken = {} THEN None ELSE Max(taken) + 1]
  /\ pc' = [pc EXCEPT ![c] = "insert"]
  /\ UNCHANGED <<tables, lock, dialog, exchange>>
ReadLastPosition(c) ==
  /\ pc[c] = "last"
  /\ position' =
       [position EXCEPT
          ![c] = LET taken == {row.position : row \in RowsOf(dialog[c])}
                 IN  IF taken = {} THEN 0 ELSE Max(taken) + 1]
  /\ pc' = [pc EXCEPT ![c] = "insert"]
  /\ UNCHANGED <<tables, lock, dialog, exchange>>

Row(c, offset, role) ==
  [dialog |-> dialog[c], position |-> position[c] + offset,
   exchange |-> exchange[c], role |-> role]

(* The two rows, then the title, then COMMIT.                              *)
InsertMessagesRetitled(c) ==     (* mutant: every request renames          *)
  /\ pc[c] = "insert"
  /\ rows' = rows \cup {Row(c, 0, "user"), Row(c, 1, "assistant")}
  /\ title' = [title EXCEPT ![dialog[c]] = exchange[c]]
  /\ issued' = issued \cup {exchange[c]}
  /\ EndCall(c)
  /\ UNCHANGED <<dialogs, feedback, reports>>
InsertMessages(c) ==
  /\ pc[c] = "insert"
  /\ rows' = rows \cup {Row(c, 0, "user"), Row(c, 1, "assistant")}
  /\ title' = [title EXCEPT ![dialog[c]] = IF @ = None THEN exchange[c] ELSE @]
  /\ issued' = issued \cup {exchange[c]}
  /\ EndCall(c)
  /\ UNCHANGED <<dialogs, feedback, reports>>

(* The answers of a set of rows, which the foreign keys of ratings (ON     *)
(* DELETE CASCADE) and reports (ON DELETE SET NULL) point to.              *)
AnswersIn(set) == {row.exchange : row \in {r \in set : r.role = "assistant"}}

(* DELETE waits for the row, and takes everything that hangs on it.        *)
Delete(d) ==
  /\ dialogs[d] = "stored" /\ lock[d] = None
  /\ dialogs' = [dialogs EXCEPT ![d] = "gone"]
  /\ title' = [title EXCEPT ![d] = None]
  /\ rows' = rows \ RowsOf(d)
  /\ feedback' =
       [e \in Exchanges |->
          IF e \in AnswersIn(RowsOf(d)) THEN None ELSE feedback[e]]
  /\ reports' =
       [i \in DOMAIN reports |->
          IF reports[i].message \in AnswersIn(RowsOf(d))
            THEN [reports[i] EXCEPT !.message = None]
            ELSE reports[i]]
  /\ UNCHANGED <<issued, calls>>

-----------------------------------------------------------------------------
(* Ratings and reports of an answer.  The first statement of each call     *)
(* looks for the answer, without a lock; otherwise the call ends with 404. *)

OwnAnswer(c, e, statement) ==
  /\ pc[c] = "idle"
  /\ e \in AnswersIn(rows)
  /\ pc' = [pc EXCEPT ![c] = statement]
  /\ exchange' = [exchange EXCEPT ![c] = e]
  /\ UNCHANGED <<tables, lock, dialog, position>>

(* The foreign key of the inserted rating must find the message; if it was *)
(* deleted meanwhile the call fails (Rollback).                            *)
SetFeedback(c, score) ==
  /\ pc[c] = "rate"
  /\ exchange[c] \in AnswersIn(rows)
  /\ feedback' = [feedback EXCEPT ![exchange[c]] = score]
  /\ EndCall(c)
  /\ UNCHANGED <<dialogs, title, issued, reports, rows>>

ClearFeedback(c) ==
  /\ pc[c] = "clear"
  /\ feedback' = [feedback EXCEPT ![exchange[c]] = None]
  /\ EndCall(c)
  /\ UNCHANGED <<dialogs, title, issued, reports, rows>>

(* The subquery of the INSERT: the user message of the dialog with the     *)
(* greatest position below the answer's.                                   *)
RequestOf(e) ==
  LET answer == CHOOSE row \in rows : row.exchange = e /\ row.role = "assistant"
      earlier == {row \in RowsOf(answer.dialog) :
                    row.role = "user" /\ row.position < answer.position}
  IN  IF earlier = {}
        THEN None
        ELSE (CHOOSE row \in earlier :
                \A other \in earlier : other.position <= row.position).exchange

(* INSERT ... SELECT finds the answer, and ON CONFLICT DO NOTHING finds no *)
(* report with its message_id, committed or about to be.                   *)
ReportableTwice(e) == e \in AnswersIn(rows)   (* mutant: no UNIQUE         *)
Reportable(e) ==
  /\ e \in AnswersIn(rows)
  /\ \A i \in DOMAIN reports : reports[i].message # e

InsertReport(c) ==
  /\ pc[c] = "report"
  /\ Reportable(exchange[c])
  /\ reports' =
       Append(reports, Store!NewReport(exchange[c], RequestOf(exchange[c])))
  /\ EndCall(c)
  /\ UNCHANGED <<dialogs, title, issued, feedback, rows>>

(* No row came back: ReportExistsError.                                    *)
ReportExists(c) ==
  /\ pc[c] = "report"
  /\ ~Reportable(exchange[c])
  /\ EndCall(c)
  /\ UNCHANGED tables

(* The administrator's decision: one UPDATE.                               *)
ReviewedKeepingSeen(report, status) ==  (* mutant: seen_at is kept         *)
  IF status = "new"
    THEN [report EXCEPT !.status = "new", !.owed = FALSE]
    ELSE [report EXCEPT !.status = status,
                        !.owed = @ \/ report.status = "new"]
Reviewed(report, status) ==
  IF status = "new"
    THEN [report EXCEPT !.status = "new", !.seen = FALSE, !.owed = FALSE]
    ELSE [report EXCEPT !.status = status,
                        !.owed = @ \/ report.status = "new"]

SetStatus(i, status) ==
  /\ reports' = [reports EXCEPT ![i] = Reviewed(@, status)]
  /\ UNCHANGED <<dialogs, title, issued, feedback, rows, calls>>

(* mark_report_news_seen: one UPDATE of those that are news.               *)
UnseenNews(i) == reports[i].status # "new" /\ ~reports[i].seen

MarkSeen(ids) ==
  /\ reports' =
       [i \in DOMAIN reports |->
          IF i \in ids /\ UnseenNews(i)
            THEN [reports[i] EXCEPT !.seen = TRUE, !.owed = FALSE]
            ELSE reports[i]]
  /\ UNCHANGED <<dialogs, title, issued, feedback, rows, calls>>

-----------------------------------------------------------------------------

Next ==
  \/ \E c \in Clients : Rollback(c)
  \/ \E d \in Dialogs : Create(d)
  \/ \E c \in Clients, d \in Dialogs, e \in Exchanges : LockDialog(c, d, e)
  \/ \E c \in Clients : ReadLastPosition(c)
  \/ \E c \in Clients : InsertMessages(c)
  \/ \E d \in Dialogs : Delete(d)
  \/ \E c \in Clients, e \in Exchanges, statement \in {"rate", "clear", "report"} :
       OwnAnswer(c, e, statement)
  \/ \E c \in Clients, score \in Scores : SetFeedback(c, score)
  \/ \E c \in Clients : ClearFeedback(c)
  \/ \E c \in Clients : InsertReport(c)
  \/ \E c \in Clients : ReportExists(c)
  \/ \E i \in DOMAIN reports, status \in Store!Statuses : SetStatus(i, status)
  \/ \E ids \in SUBSET DOMAIN reports : MarkSeen(ids)

Spec == Init /\ [][Next]_vars

-----------------------------------------------------------------------------
(* Properties.                                                             *)

(* Appends to one dialog, from any number of processes, do not collide:    *)
(* positions count up from 0 without gaps, requests and answers alternate, *)
(* and the two messages of an exchange are neighbours.                     *)
PositionsDense ==
  \A d \in Dialogs :
    /\ {row.position : row \in RowsOf(d)} = 0..(Cardinality(RowsOf(d)) - 1)
    /\ \A row \in RowsOf(d) :
         LET other == IF row.role = "user"
                        THEN [row EXCEPT !.role = "assistant", !.position = @ + 1]
                        ELSE [row EXCEPT !.role = "user", !.position = @ - 1]
         IN  other \in rows

(* What HistoryStore promises of reports, ratings and titles.              *)
OneReportPerAnswer == Store!OneReportPerAnswer
ReviewIsNewsUntilSeen == Store!ReviewIsNewsUntilSeen

(* Every call has the effect of one atomic operation of HistoryStore.      *)
ImplementsStore == Store!Spec

=============================================================================
