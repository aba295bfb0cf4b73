---------------------------- MODULE HistoryStore -----------------------------
(***************************************************************************)
(* What the history store promises (dialogs/history.py): the contract      *)
(* HistoryStore, as InMemoryHistoryStore keeps it, one operation at a time *)
(* under its lock.  PostgresHistory.tla implements it.                     *)
(*                                                                         *)
(* An exchange is the request and the answer of one append; it stands for  *)
(* both texts and, with the role, for the identifier of a message, which   *)
(* is handed out once.  A call for a foreign dialog or report changes      *)
(* nothing, so users are left out; so are reasons, comments and times.     *)
(***************************************************************************)
EXTENDS Naturals, Sequences

CONSTANTS
  Dialogs,
  Exchanges,
  Scores,       (* MIN_SCORE..MAX_SCORE                                    *)
  None          (* no message, no title, no score                          *)

VARIABLES
  dialogs,      (* "unused", "stored" or "gone"                            *)
  messages,     (* per dialog, in order                                    *)
  title,        (* per dialog: the exchange whose request names it         *)
  issued,       (* message identifiers handed out                          *)
  feedback,     (* the score of each answer                                *)
  reports       (* in the order they were made                             *)

storeVars == <<dialogs, messages, title, issued, feedback, reports>>

Roles == {"user", "assistant"}
Messages == [exchange : Exchanges, role : Roles]
Statuses == {"new", "resolved", "dismissed"}

(* message is None once the dialog is deleted.  owed is history: a review  *)
(* was concluded, and its news has not been dismissed by the user.         *)
Reports ==
  [message : Exchanges \cup {None},
   request : Exchanges \cup {None}, answer : Exchanges,
   status : Statuses, seen : BOOLEAN, owed : BOOLEAN]

TypeOK ==
  /\ dialogs \in [Dialogs -> {"unused", "stored", "gone"}]
  /\ messages \in [Dialogs -> Seq(Messages)]
  /\ title \in [Dialogs -> Exchanges \cup {None}]
  /\ issued \in SUBSET Exchanges
  /\ feedback \in [Exchanges -> Scores \cup {None}]
  /\ reports \in Seq(Reports)

Init ==
  /\ dialogs = [d \in Dialogs |-> "unused"]
  /\ messages = [d \in Dialogs |-> <<>>]
  /\ title = [d \in Dialogs |-> None]
  /\ issued = {}
  /\ feedback = [e \in Exchanges |-> None]
  /\ reports = <<>>

-----------------------------------------------------------------------------

Request(e) == [exchange |-> e, role |-> "user"]
Answer(e) == [exchange |-> e, role |-> "assistant"]

In(message, d) == \E i \in DOMAIN messages[d] : messages[d][i] = message
Answered(e) == \E d \in Dialogs : In(Answer(e), d)

Create(d) ==
  /\ dialogs[d] = "unused"
  /\ dialogs' = [dialogs EXCEPT ![d] = "stored"]
  /\ UNCHANGED <<messages, title, issued, feedback, reports>>

(* Both messages at once; the first request names the dialog.              *)
Save(d, e) ==
  /\ dialogs[d] = "stored"
  /\ e \notin issued
  /\ messages' = [messages EXCEPT ![d] = @ \o <<Request(e), Answer(e)>>]
  /\ title' = [title EXCEPT ![d] = IF @ = None THEN e ELSE @]
  /\ issued' = issued \cup {e}
  /\ UNCHANGED <<dialogs, feedback, reports>>

(* The ratings go with the messages, the reports stay.                     *)
Delete(d) ==
  /\ dialogs[d] = "stored"
  /\ dialogs' = [dialogs EXCEPT ![d] = "gone"]
  /\ messages' = [messages EXCEPT ![d] = <<>>]
  /\ title' = [title EXCEPT ![d] = None]
  /\ feedback' =
       [e \in Exchanges |-> IF In(Answer(e), d) THEN None ELSE feedback[e]]
  /\ reports' =
       [i \in DOMAIN reports |->
          IF \E e \in Exchanges :
               In(Answer(e), d) /\ reports[i].message = e
            THEN [reports[i] EXCEPT !.message = None]
            ELSE reports[i]]
  /\ UNCHANGED issued

Rate(e, score) ==
  /\ Answered(e)
  /\ feedback' = [feedback EXCEPT ![e] = score]
  /\ UNCHANGED <<dialogs, messages, title, issued, reports>>

Reported(e) == \E i \in DOMAIN reports : reports[i].message = e

(* The nearest request before the answer.                                  *)
RequestBefore(d, i) ==
  LET earlier == {j \in 1..(i - 1) : messages[d][j].role = "user"}
  IN  IF earlier = {}
        THEN None
        ELSE messages[d][CHOOSE j \in earlier :
                           \A k \in earlier : k <= j].exchange

NewReport(e, request) ==
  [message |-> e, request |-> request, answer |-> e, status |-> "new",
   seen |-> FALSE, owed |-> FALSE]

Report(e) ==
  /\ ~Reported(e)
  /\ \E d \in Dialogs : \E i \in DOMAIN messages[d] :
       /\ messages[d][i] = Answer(e)
       /\ reports' = Append(reports, NewReport(e, RequestBefore(d, i)))
  /\ UNCHANGED <<dialogs, messages, title, issued, feedback>>

(* The administrator's decision, whatever the status was.                  *)
Reviewed(report, status) ==
  IF status = "new"
    THEN [report EXCEPT !.status = "new", !.seen = FALSE, !.owed = FALSE]
    ELSE [report EXCEPT !.status = status,
                        !.owed = @ \/ report.status = "new"]

SetStatus(i, status) ==
  /\ i \in DOMAIN reports
  /\ reports' = [reports EXCEPT ![i] = Reviewed(@, status)]
  /\ UNCHANGED <<dialogs, messages, title, issued, feedback>>

IsNews(report) == report.status # "new" /\ ~report.seen

(* Ids that are not news are skipped.                                      *)
MarkSeen(ids) ==
  /\ reports' =
       [i \in DOMAIN reports |->
          IF i \in ids /\ IsNews(reports[i])
            THEN [reports[i] EXCEPT !.seen = TRUE, !.owed = FALSE]
            ELSE reports[i]]
  /\ UNCHANGED <<dialogs, messages, title, issued, feedback>>

Next ==
  \/ \E d \in Dialogs : Create(d)
  \/ \E d \in Dialogs, e \in Exchanges : Save(d, e)
  \/ \E d \in Dialogs : Delete(d)
  \/ \E e \in Exchanges, score \in Scores \cup {None} : Rate(e, score)
  \/ \E e \in Exchanges : Report(e)
  \/ \E i \in DOMAIN reports, status \in Statuses : SetStatus(i, status)
  \/ \E ids \in SUBSET DOMAIN reports : MarkSeen(ids)

Spec == Init /\ [][Next]_storeVars

-----------------------------------------------------------------------------
(* What follows from the contract.                                         *)

(* One answer is reported once, and stays so when its dialog is deleted    *)
(* and its report forgets which message it was about.                      *)
OneReportPerAnswer ==
  \A i, j \in DOMAIN reports : reports[i].answer = reports[j].answer => i = j

(* A concluded review is news until the user dismissed it, every time the  *)
(* report is reviewed anew, and also when the dialog is gone.              *)
ReviewIsNewsUntilSeen ==
  \A i \in DOMAIN reports :
    IsNews(reports[i]) <=> reports[i].owed

=============================================================================
