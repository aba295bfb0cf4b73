----------------------- MODULE PostgresHistoryProofs -------------------------
(***************************************************************************)
(* Theorems about PostgresHistory, for any number of clients, dialogs and  *)
(* exchanges.                                                              *)
(*                                                                         *)
(* One invariant carries them.  A client that appends holds its dialog's   *)
(* row (Holds), so the position it read is still the next one (Counted)    *)
(* and positions stay dense; an exchange is saved once (Saved), so a       *)
(* report that has lost its message cannot be made again (Reported).       *)
(* Dense positions make the rows of a dialog the sequence HistoryStore     *)
(* speaks of (Placed), which is the refinement.                            *)
(***************************************************************************)
EXTENDS PostgresHistory, FiniteSetTheorems, SequenceTheorems, TLAPS

USE ClientsAssumption

Appending(c) == pc[c] \in {"last", "insert"}

Holds ==
  \A c \in Clients : Appending(c) =>
    /\ dialog[c] \in Dialogs /\ lock[dialog[c]] = c
    /\ exchange[c] \in Exchanges \ issued
    /\ \A b \in Clients \ {c} : Appending(b) => exchange[b] # exchange[c]

Dense ==
  \A d \in Dialogs :
    /\ IsFiniteSet(RowsOf(d))
    /\ {row.position : row \in RowsOf(d)} = 0..(Cardinality(RowsOf(d)) - 1)

Paired(row) ==
  IF row.role = "user"
    THEN [row EXCEPT !.role = "assistant", !.position = @ + 1]
    ELSE [row EXCEPT !.role = "user", !.position = @ - 1]
Pairs == \A row \in rows : Paired(row) \in rows

Counted ==
  \A c \in Clients :
    pc[c] = "insert" => position[c] = Cardinality(RowsOf(dialog[c]))

Saved ==
  /\ \A row \in rows : row.exchange \in issued
  /\ \A row, other \in rows :
       row.exchange = other.exchange => row.dialog = other.dialog

Reported ==
  /\ \A i \in DOMAIN reports :
       /\ reports[i].answer \in issued
       /\ reports[i].answer \in AnswersIn(rows)
            => reports[i].message = reports[i].answer
  /\ OneReportPerAnswer

Unread(report) ==
  /\ Store!IsNews(report) <=> report.owed
  /\ report.status = "new" => ~report.seen
News == \A i \in DOMAIN reports : Unread(reports[i])

Inv ==
  /\ TypeOK
  /\ Holds /\ Dense /\ Pairs /\ Counted /\ Saved /\ Reported /\ News

LEMMA InvInit == Init => Inv
<1> SUFFICES ASSUME Init PROVE Inv
  OBVIOUS
<1>1. \A d \in Dialogs : RowsOf(d) = {}
  BY DEF Init, RowsOf
<1>2. Dense
  BY <1>1, FS_EmptySet DEF Dense
<1>3. TypeOK
  BY EmptySeq DEF Init, TypeOK, Statements
<1>4. reports = <<>> /\ DOMAIN reports = {}
  BY DEF Init
<1>5. Reported /\ News
  BY <1>4 DEF Reported, News, OneReportPerAnswer, Store!OneReportPerAnswer
<1> QED
  BY <1>2, <1>3, <1>5 DEF Init, Inv, Holds, Appending, Pairs, Counted, Saved

-----------------------------------------------------------------------------
(* What is left of a call when it ends.                                    *)

LEMMA EndTypes ==
  ASSUME TypeOK, NEW c \in Clients, EndCall(c)
  PROVE  /\ lock' \in [Dialogs -> Clients \cup {None}]
         /\ pc' \in [Clients -> Statements]
         /\ dialog' \in [Clients -> Dialogs \cup {None}]
         /\ exchange' \in [Clients -> Exchanges \cup {None}]
         /\ position' \in [Clients -> Nat]
<1> USE DEF TypeOK, EndCall
<1>1. lock' \in [Dialogs -> Clients \cup {None}]
  OBVIOUS
<1>2. pc' \in [Clients -> Statements]
  BY DEF Statements
<1>3. dialog' \in [Clients -> Dialogs \cup {None}]
  OBVIOUS
<1>4. exchange' \in [Clients -> Exchanges \cup {None}]
  OBVIOUS
<1>5. position' \in [Clients -> Nat]
  OBVIOUS
<1> QED
  BY <1>1, <1>2, <1>3, <1>4, <1>5

(* Holds after a call that handed out no identifier, or its own.           *)
LEMMA EndHolds ==
  ASSUME Inv, NEW c \in Clients, EndCall(c),
         \/ UNCHANGED issued
         \/ Appending(c) /\ issued' = issued \cup {exchange[c]}
  PROVE  Holds'
<1>1. \A b \in Clients \ {c} : /\ pc'[b] = pc[b] /\ dialog'[b] = dialog[b]
                              /\ exchange'[b] = exchange[b]
  BY DEF EndCall, Inv, TypeOK
<1>2. pc'[c] = "idle"
  BY DEF EndCall, Inv, TypeOK
<1>3. \A b \in Clients \ {c} : Appending(b) =>
        /\ lock'[dialog[b]] = b
        /\ exchange[b] \notin issued'
  BY DEF EndCall, Inv, TypeOK, Holds
<1> QED
  BY <1>1, <1>2, <1>3 DEF Inv, Holds, Appending

LEMMA EndCounted ==
  ASSUME Inv, NEW c \in Clients, EndCall(c), UNCHANGED rows
  PROVE  Counted'
BY DEF EndCall, Inv, TypeOK, Counted, RowsOf

LEMMA SameRows ==
  ASSUME Inv, UNCHANGED rows PROVE Dense' /\ Pairs'
BY DEF Inv, Dense, Pairs, RowsOf

LEMMA SameReports ==
  ASSUME Inv, UNCHANGED <<rows, issued, reports>>
  PROVE  Saved' /\ Reported' /\ News'
BY DEF Inv, Saved, Reported, News, AnswersIn, OneReportPerAnswer,
   Store!OneReportPerAnswer

(* A call that ends without writing, or writes only a rating.              *)
LEMMA EndKeeps ==
  ASSUME Inv, NEW c \in Clients, EndCall(c),
         feedback' \in [Exchanges -> Scores \cup {None}],
         UNCHANGED <<dialogs, title, issued, reports, rows>>
  PROVE  Inv'
<1>1. TypeOK'
  BY EndTypes DEF Inv, TypeOK
<1> QED
  BY <1>1, EndHolds, EndCounted, SameRows, SameReports DEF Inv

-----------------------------------------------------------------------------
(* Appending.                                                              *)

LEMMA LockKeeps ==
  ASSUME Inv, NEW c \in Clients, NEW d \in Dialogs, NEW e \in Exchanges,
         LockDialog(c, d, e)
  PROVE  Inv'
<1>1. /\ pc[c] = "idle" /\ pc' = [pc EXCEPT ![c] = "last"]
      /\ lock[d] = None /\ lock' = [lock EXCEPT ![d] = c]
      /\ dialog' = [dialog EXCEPT ![c] = d]
      /\ exchange' = [exchange EXCEPT ![c] = e]
      /\ e \notin issued /\ \A b \in Clients : exchange[b] # e
      /\ UNCHANGED <<dialogs, title, issued, feedback, reports, rows, position>>
  BY DEF LockDialog, tables
<1>2. TypeOK'
  BY <1>1 DEF Inv, TypeOK, Statements
<1>3. Holds'
  BY <1>1 DEF Inv, TypeOK, Holds, Appending
<1>4. Counted'
  BY <1>1 DEF Inv, TypeOK, Counted, RowsOf
<1> QED
  BY <1>1, <1>2, <1>3, <1>4, SameRows, SameReports DEF Inv

LEMMA NextOfRange ==
  ASSUME NEW n \in Nat, NEW taken, taken = 0..(n - 1)
  PROVE  (IF taken = {} THEN 0 ELSE Max(taken) + 1) = n
<1>1. CASE n = 0
  BY <1>1
<1>2. CASE n > 0
  <2>1. n - 1 \in taken /\ \A x \in taken : n - 1 >= x
    BY <1>2
  <2>2. \A m \in taken : (\A x \in taken : m >= x) => m = n - 1
    BY <2>1
  <2>3. Max(taken) = n - 1
    BY <2>1, <2>2 DEF Max
  <2> QED
    BY <2>1, <2>3
<1> QED
  BY <1>1, <1>2

LEMMA LastPosition ==
  ASSUME Inv, NEW d \in Dialogs, NEW taken,
         taken = {row.position : row \in RowsOf(d)}
  PROVE  (IF taken = {} THEN 0 ELSE Max(taken) + 1) = Cardinality(RowsOf(d))
<1>1. Cardinality(RowsOf(d)) \in Nat
  BY FS_CardinalityType DEF Inv, Dense
<1>2. taken = 0..(Cardinality(RowsOf(d)) - 1)
  BY DEF Inv, Dense
<1> QED
  BY <1>1, <1>2, NextOfRange

LEMMA ReadKeeps ==
  ASSUME Inv, NEW c \in Clients, ReadLastPosition(c) PROVE Inv'
<1>1. /\ pc[c] = "last" /\ pc' = [pc EXCEPT ![c] = "insert"]
      /\ UNCHANGED <<dialogs, title, issued, feedback, reports, rows, lock,
                     dialog, exchange>>
  BY DEF ReadLastPosition, tables
<1>2. dialog[c] \in Dialogs
  BY <1>1 DEF Inv, Holds, Appending
<1>3. position' = [position EXCEPT ![c] = Cardinality(RowsOf(dialog[c]))]
  <2>1. \A taken : taken = {row.position : row \in RowsOf(dialog[c])} =>
          (IF taken = {} THEN 0 ELSE Max(taken) + 1)
            = Cardinality(RowsOf(dialog[c]))
    BY <1>2, LastPosition
  <2> QED
    BY <2>1 DEF ReadLastPosition
<1>4. Cardinality(RowsOf(dialog[c])) \in Nat
  BY <1>2, FS_CardinalityType DEF Inv, Dense
<1>5. TypeOK'
  BY <1>1, <1>3, <1>4 DEF Inv, TypeOK, Statements
<1>6. Holds'
  BY <1>1 DEF Inv, TypeOK, Holds, Appending
<1>7. Counted'
  <2>1. \A b \in Clients : pc'[b] = "insert" =>
          position'[b] = Cardinality(RowsOf(dialog[b]))
    BY <1>1, <1>3 DEF Inv, TypeOK, Counted
  <2>2. \A b \in Clients : RowsOf(dialog[b])' = RowsOf(dialog[b])
    BY <1>1 DEF RowsOf
  <2> QED
    BY <2>1, <2>2 DEF Counted
<1> QED
  BY <1>1, <1>5, <1>6, <1>7, SameRows, SameReports DEF Inv

(* The two new rows of an append.                                          *)
LEMMA InsertedRows ==
  ASSUME Inv, NEW c \in Clients, InsertMessages(c),
         NEW d, d = dialog[c], NEW first, first = Row(c, 0, "user"),
         NEW second, second = Row(c, 1, "assistant")
  PROVE  /\ d \in Dialogs
         /\ first \in Rows /\ second \in Rows
         /\ rows' = rows \cup {first, second}
         /\ position[c] = Cardinality(RowsOf(d))
         /\ first = [dialog |-> d, position |-> position[c],
                     exchange |-> exchange[c], role |-> "user"]
         /\ second = [dialog |-> d, position |-> position[c] + 1,
                      exchange |-> exchange[c], role |-> "assistant"]
<1>1. pc[c] = "insert" /\ position[c] \in Nat
  BY DEF InsertMessages, Inv, TypeOK
<1>2. d \in Dialogs /\ exchange[c] \in Exchanges
  BY <1>1 DEF Inv, Holds, Appending
<1>3. position[c] + 0 = position[c]
  BY <1>1
<1>4. position[c] = Cardinality(RowsOf(d))
  BY <1>1 DEF Inv, Counted
<1> QED
  BY <1>1, <1>2, <1>3, <1>4 DEF Row, Rows, InsertMessages

LEMMA InsertDense ==
  ASSUME Inv, NEW c \in Clients, InsertMessages(c)
  PROVE  Dense' /\ Pairs'
<1>0. PICK d, first, second, n :
        /\ d = dialog[c] /\ n = Cardinality(RowsOf(d))
        /\ first = Row(c, 0, "user") /\ second = Row(c, 1, "assistant")
  OBVIOUS
<1>1. /\ d \in Dialogs
      /\ rows' = rows \cup {first, second}
      /\ first = [dialog |-> d, position |-> n,
                  exchange |-> exchange[c], role |-> "user"]
      /\ second = [dialog |-> d, position |-> n + 1,
                   exchange |-> exchange[c], role |-> "assistant"]
  BY <1>0, InsertedRows
<1>2. /\ IsFiniteSet(RowsOf(d)) /\ n \in Nat
      /\ {row.position : row \in RowsOf(d)} = 0..(n - 1)
  BY <1>0, <1>1, FS_CardinalityType DEF Inv, Dense
<1>3. PICK new : new = RowsOf(d)' /\ new = (RowsOf(d) \cup {first}) \cup {second}
  <2>1. RowsOf(d)' = (RowsOf(d) \cup {first}) \cup {second}
    BY <1>1 DEF RowsOf
  <2> QED
    BY <2>1
<1>4. \A other \in Dialogs \ {d} : RowsOf(other)' = RowsOf(other)
  BY <1>1 DEF RowsOf
<1>5. first \notin RowsOf(d) /\ second \notin RowsOf(d) /\ first # second
  <2>1. n \notin 0..(n - 1) /\ n + 1 \notin 0..(n - 1) /\ n # n + 1
    BY <1>2
  <2> QED
    BY <1>1, <1>2, <2>1
<1>6. /\ IsFiniteSet(RowsOf(d) \cup {first})
      /\ Cardinality(RowsOf(d) \cup {first}) = n + 1
  BY <1>0, <1>2, <1>5, FS_AddElement
<1>7. /\ IsFiniteSet(new) /\ Cardinality(new) = n + 1 + 1
  BY <1>3, <1>5, <1>6, FS_AddElement
<1>8. {row.position : row \in new} = 0..(n + 1)
  <2>1. {row.position : row \in new} = 0..(n - 1) \cup {n, n + 1}
    BY <1>1, <1>2, <1>3
  <2> QED
    BY <1>2, <2>1
<1>9. Dense'
  <2>1. Cardinality(new) - 1 = n + 1
    BY <1>2, <1>7
  <2>2. \A other \in Dialogs \ {d} :
          /\ IsFiniteSet(RowsOf(other)')
          /\ {row.position : row \in RowsOf(other)'}
                = 0..(Cardinality(RowsOf(other)') - 1)
    BY <1>4 DEF Inv, Dense
  <2>3. IsFiniteSet(new) /\ {row.position : row \in new} = 0..(Cardinality(new) - 1)
    BY <1>7, <1>8, <2>1
  <2>4. \A other \in Dialogs :
          /\ IsFiniteSet(RowsOf(other)')
          /\ {row.position : row \in RowsOf(other)'}
                = 0..(Cardinality(RowsOf(other)') - 1)
    BY <1>3, <2>2, <2>3
  <2> QED
    BY <2>4 DEF Dense
<1>10. Pairs'
  <2>0. PICK e : e = exchange[c]
    OBVIOUS
  <2>1. Paired([dialog |-> d, position |-> n, exchange |-> e, role |-> "user"])
          = [dialog |-> d, position |-> n + 1, exchange |-> e, role |-> "assistant"]
    BY DEF Paired
  <2>2. Paired([dialog |-> d, position |-> n + 1, exchange |-> e,
                role |-> "assistant"])
          = [dialog |-> d, position |-> n, exchange |-> e, role |-> "user"]
    <3>1. \A k, j : k - 1 = j =>
            Paired([dialog |-> d, position |-> k, exchange |-> e,
                    role |-> "assistant"])
              = [dialog |-> d, position |-> j, exchange |-> e, role |-> "user"]
      BY DEF Paired
    <3> QED
      BY <1>2, <3>1
  <2>3. Paired(first) = second /\ Paired(second) = first
    BY <1>1, <2>0, <2>1, <2>2
  <2>4. \A row \in rows' : Paired(row) \in rows'
    BY <1>1, <2>3 DEF Inv, Pairs
  <2> QED
    BY <2>4 DEF Pairs
<1> QED
  BY <1>9, <1>10

LEMMA InsertKeeps ==
  ASSUME Inv, NEW c \in Clients, InsertMessages(c) PROVE Inv'
<1>0. PICK d, first, second :
        /\ d = dialog[c]
        /\ first = Row(c, 0, "user") /\ second = Row(c, 1, "assistant")
  OBVIOUS
<1>1. /\ d \in Dialogs
      /\ first \in Rows /\ second \in Rows
      /\ rows' = rows \cup {first, second}
      /\ first.dialog = d /\ second.dialog = d
      /\ first.exchange = exchange[c] /\ second.exchange = exchange[c]
  BY <1>0, InsertedRows
<1>2. /\ EndCall(c) /\ Appending(c) /\ issued' = issued \cup {exchange[c]}
      /\ title' = [title EXCEPT ![d] = IF @ = None THEN exchange[c] ELSE @]
      /\ exchange[c] \in Exchanges \ issued /\ lock[d] = c
      /\ UNCHANGED <<dialogs, feedback, reports>>
  BY <1>0 DEF InsertMessages, Appending, Inv, Holds
<1>3. TypeOK'
  <2>1. rows' \in SUBSET Rows /\ issued' \in SUBSET Exchanges
    BY <1>1, <1>2 DEF Inv, TypeOK
  <2>2. title' \in [Dialogs -> Exchanges \cup {None}]
    BY <1>1, <1>2 DEF Inv, TypeOK
  <2> QED
    BY <1>2, <2>1, <2>2, EndTypes DEF Inv, TypeOK
<1>4. Counted'
  <2>1. \A b \in Clients : pc'[b] = "insert" =>
          /\ b # c /\ pc[b] = "insert"
          /\ position'[b] = position[b] /\ dialog'[b] = dialog[b]
    BY <1>2 DEF EndCall, Inv, TypeOK
  <2>2. \A b \in Clients \ {c} : pc[b] = "insert" => dialog[b] # d
    BY <1>2 DEF Inv, Holds, Appending
  <2>3. \A other : other # d => RowsOf(other)' = RowsOf(other)
    BY <1>1 DEF RowsOf
  <2>4. \A b \in Clients : pc'[b] = "insert" =>
          position'[b] = Cardinality(RowsOf(dialog[b])')
    <3> SUFFICES ASSUME NEW b \in Clients, pc'[b] = "insert"
                 PROVE  position'[b] = Cardinality(RowsOf(dialog[b])')
      OBVIOUS
    <3>1. PICK own : own = dialog[b] /\ own = dialog'[b]
      BY <2>1
    <3>2. RowsOf(own)' = RowsOf(own)
      BY <2>1, <2>2, <2>3, <3>1
    <3>3. position'[b] = Cardinality(RowsOf(own))
      BY <2>1, <3>1 DEF Inv, Counted
    <3> QED
      BY <3>1, <3>2, <3>3 DEF RowsOf
  <2> QED
    BY <2>4 DEF Counted
<1>5. Saved'
  BY <1>1, <1>2 DEF Inv, Saved
<1>6. Reported'
  BY <1>1, <1>2 DEF Inv, Reported, AnswersIn, OneReportPerAnswer,
     Store!OneReportPerAnswer
<1>7. News'
  BY <1>2 DEF Inv, News
<1> QED
  BY <1>2, <1>3, <1>4, <1>5, <1>6, <1>7, InsertDense, EndHolds DEF Inv

-----------------------------------------------------------------------------
(* Deleting.                                                               *)

LEMMA DeleteReports ==
  ASSUME Inv, NEW d \in Dialogs, Delete(d)
  PROVE  /\ reports' \in Seq(Store!Reports)
         /\ DOMAIN reports' = DOMAIN reports
         /\ \A i \in DOMAIN reports :
              /\ reports'[i].answer = reports[i].answer
              /\ reports'[i].status = reports[i].status
              /\ reports'[i].seen = reports[i].seen
              /\ reports'[i].owed = reports[i].owed
              /\ reports[i].message \notin AnswersIn(RowsOf(d))
                   => reports'[i].message = reports[i].message
<1>1. reports' = [i \in DOMAIN reports |->
                   IF reports[i].message \in AnswersIn(RowsOf(d))
                     THEN [reports[i] EXCEPT !.message = None]
                     ELSE reports[i]]
  BY DEF Delete
<1>2. reports \in Seq(Store!Reports) /\ DOMAIN reports = 1..Len(reports)
      /\ Len(reports) \in Nat
  BY LenProperties DEF Inv, TypeOK
<1>3. \A i \in DOMAIN reports : reports[i] \in Store!Reports
  BY <1>2, ElementOfSeq
<1>4. \A i \in DOMAIN reports : reports'[i] \in Store!Reports
  BY <1>1, <1>3 DEF Store!Reports
<1>5. reports' \in [1..Len(reports) -> Store!Reports]
  BY <1>1, <1>2, <1>4
<1>6. reports' \in Seq(Store!Reports)
  BY <1>2, <1>5, SeqDef
<1>7. DOMAIN reports' = DOMAIN reports
  BY <1>1
<1>8. \A i \in DOMAIN reports :
              /\ reports'[i].answer = reports[i].answer
              /\ reports'[i].status = reports[i].status
              /\ reports'[i].seen = reports[i].seen
              /\ reports'[i].owed = reports[i].owed
              /\ reports[i].message \notin AnswersIn(RowsOf(d))
                   => reports'[i].message = reports[i].message
  BY <1>1, <1>3 DEF Store!Reports
<1> QED
  BY <1>6, <1>7, <1>8

LEMMA DeleteKeeps ==
  ASSUME Inv, NEW d \in Dialogs, Delete(d) PROVE Inv'
<1>1. /\ lock[d] = None /\ rows' = rows \ RowsOf(d)
      /\ dialogs' = [dialogs EXCEPT ![d] = "gone"]
      /\ title' = [title EXCEPT ![d] = None]
      /\ feedback' = [e \in Exchanges |->
            IF e \in AnswersIn(RowsOf(d)) THEN None ELSE feedback[e]]
      /\ UNCHANGED <<issued, lock, pc, dialog, exchange, position>>
  BY DEF Delete, calls
<1>2. PICK gone : gone = RowsOf(d)' /\ gone = {}
  BY <1>1 DEF RowsOf
<1>3. \A other \in Dialogs \ {d} : RowsOf(other)' = RowsOf(other)
  BY <1>1 DEF RowsOf
<1>4. TypeOK'
  <2>1. feedback' \in [Exchanges -> Scores \cup {None}]
    BY <1>1 DEF Inv, TypeOK
  <2>2. /\ dialogs' \in [Dialogs -> {"unused", "stored", "gone"}]
        /\ title' \in [Dialogs -> Exchanges \cup {None}]
        /\ rows' \in SUBSET Rows
    BY <1>1 DEF Inv, TypeOK
  <2> QED
    BY <1>1, <2>1, <2>2, DeleteReports DEF Inv, TypeOK
<1>5. Holds'
  BY <1>1 DEF Inv, Holds, Appending
<1>6. Dense'
  <2>1. \A other \in Dialogs \ {d} :
          /\ IsFiniteSet(RowsOf(other)')
          /\ {row.position : row \in RowsOf(other)'}
                = 0..(Cardinality(RowsOf(other)') - 1)
    BY <1>3 DEF Inv, Dense
  <2>2. /\ IsFiniteSet(gone)
        /\ {row.position : row \in gone} = 0..(Cardinality(gone) - 1)
    BY <1>2, FS_EmptySet
  <2>3. \A other \in Dialogs :
          /\ IsFiniteSet(RowsOf(other)')
          /\ {row.position : row \in RowsOf(other)'}
                = 0..(Cardinality(RowsOf(other)') - 1)
    BY <1>2, <2>1, <2>2
  <2> QED
    BY <2>3 DEF Dense
<1>7. Pairs'
  <2>1. \A row \in rows : Paired(row).dialog = row.dialog
    BY DEF Inv, TypeOK, Rows, Paired
  <2>2. \A row \in rows' : Paired(row) \in rows'
    BY <1>1, <2>1 DEF Inv, Pairs, RowsOf
  <2> QED
    BY <2>2 DEF Pairs
<1>8. Counted'
  <2>1. ASSUME NEW c \in Clients, pc[c] = "insert"
        PROVE  position[c] = Cardinality(RowsOf(dialog[c])')
    <3>1. PICK own : own = dialog[c]
      OBVIOUS
    <3>2. own \in Dialogs \ {d}
      BY <1>1, <2>1, <3>1 DEF Inv, Holds, Appending
    <3>3. RowsOf(own)' = RowsOf(own)
      BY <1>3, <3>2
    <3> QED
      BY <1>1, <2>1, <3>1, <3>3 DEF Inv, Counted, RowsOf
  <2> QED
    BY <1>1, <2>1 DEF Counted
<1>9. Saved'
  BY <1>1 DEF Inv, Saved
<1>10. Reported'
  <2>1. ASSUME NEW i \in DOMAIN reports,
               reports[i].answer \in AnswersIn(rows)'
        PROVE  reports'[i].message = reports[i].answer
    <3>1. /\ reports[i].answer \in AnswersIn(rows)
          /\ reports[i].answer \notin AnswersIn(RowsOf(d))
      BY <1>1, <2>1 DEF AnswersIn, RowsOf, Inv, Saved
    <3> QED
      BY <3>1, DeleteReports DEF Inv, Reported
  <2>2. OneReportPerAnswer'
    BY DeleteReports
    DEF Inv, Reported, OneReportPerAnswer, Store!OneReportPerAnswer
  <2> QED
    BY <1>1, <2>1, <2>2, DeleteReports DEF Inv, Reported
<1>11. News'
  BY DeleteReports DEF Inv, News, Unread, Store!IsNews
<1> QED
  BY <1>4, <1>5, <1>6, <1>7, <1>8, <1>9, <1>10, <1>11 DEF Inv

-----------------------------------------------------------------------------
(* Reports.                                                                *)

LEMMA RequestType ==
  ASSUME Inv, NEW e, e \in AnswersIn(rows)
  PROVE  RequestOf(e) \in Exchanges \cup {None}
<1> DEFINE answer == CHOOSE row \in rows :
                       row.exchange = e /\ row.role = "assistant"
           earlier == {row \in RowsOf(answer.dialog) :
                         row.role = "user" /\ row.position < answer.position}
<1>1. answer \in rows /\ answer.role = "assistant"
  BY DEF AnswersIn
<1>2. \A row \in rows : row \in Rows
  BY DEF Inv, TypeOK
<1> HIDE DEF answer
<1> DEFINE request == [answer EXCEPT !.role = "user",
                                     !.position = answer.position - 1]
<1>3. request \in rows
  BY <1>1 DEF Inv, Pairs, Paired
<1>4. /\ request \in earlier
      /\ \A other \in earlier : other.position <= request.position
  <2>1. /\ request.dialog = answer.dialog /\ request.role = "user"
        /\ request.position = answer.position - 1
    BY <1>1, <1>2 DEF Rows
  <2> HIDE DEF request
  <2> QED
    BY <1>1, <1>2, <1>3, <2>1 DEF RowsOf, Rows
<1> HIDE DEF request
<1>5. (CHOOSE row \in earlier :
        \A other \in earlier : other.position <= row.position) \in earlier
  BY <1>4
<1>6. \A row \in earlier : row.exchange \in Exchanges
  BY <1>2 DEF RowsOf, Rows
<1> QED
  BY <1>5, <1>6 DEF RequestOf, answer

LEMMA ReportKeeps ==
  ASSUME Inv, NEW c \in Clients, InsertReport(c) PROVE Inv'
<1>0. PICK e, report :
        e = exchange[c] /\ report = Store!NewReport(e, RequestOf(e))
  OBVIOUS
<1>1. /\ e \in AnswersIn(rows) /\ \A i \in DOMAIN reports : reports[i].message # e
      /\ reports' = Append(reports, report)
      /\ EndCall(c)
      /\ UNCHANGED <<dialogs, title, issued, feedback, rows>>
  BY <1>0 DEF InsertReport, Reportable
<1>2. e \in Exchanges /\ e \in issued
  BY <1>1 DEF AnswersIn, Inv, TypeOK, Rows, Saved
<1>3. /\ report \in Store!Reports
      /\ report.message = e /\ report.answer = e
      /\ report.status = "new" /\ report.seen = FALSE /\ report.owed = FALSE
  BY <1>0, <1>1, <1>2, RequestType
  DEF Store!NewReport, Store!Reports, Store!Statuses
<1>4. /\ reports \in Seq(Store!Reports) /\ Len(reports) \in Nat
      /\ DOMAIN reports = 1..Len(reports)
  BY LenProperties DEF Inv, TypeOK
<1>5. /\ reports' \in Seq(Store!Reports)
      /\ DOMAIN reports' = 1..(Len(reports) + 1)
      /\ \A i \in DOMAIN reports : reports'[i] = reports[i]
      /\ reports'[Len(reports) + 1] = report
  BY <1>1, <1>3, <1>4, AppendProperties, LenProperties
<1>6. \A i \in DOMAIN reports' :
        i \in DOMAIN reports \/ i = Len(reports) + 1
  BY <1>4, <1>5
<1>7. \A i \in DOMAIN reports : reports[i].answer # e
  BY <1>1 DEF Inv, Reported
<1>8. TypeOK'
  BY <1>1, <1>5, EndTypes DEF Inv, TypeOK
<1>9. Reported'
  <2>1. \A i \in DOMAIN reports' :
          /\ reports'[i].answer \in issued
          /\ reports'[i].answer \in AnswersIn(rows)
               => reports'[i].message = reports'[i].answer
    BY <1>2, <1>3, <1>5, <1>6 DEF Inv, Reported
  <2>2. \A i, j \in DOMAIN reports' :
          reports'[i].answer = reports'[j].answer => i = j
    BY <1>3, <1>5, <1>6, <1>7
    DEF Inv, Reported, OneReportPerAnswer, Store!OneReportPerAnswer
  <2> QED
    BY <1>1, <2>1, <2>2
    DEF Reported, AnswersIn, OneReportPerAnswer, Store!OneReportPerAnswer
<1>10. News'
  <2>1. Unread(report)
    BY <1>3 DEF Unread, Store!IsNews
  <2>2. \A i \in DOMAIN reports' : Unread(reports'[i])
    BY <1>5, <1>6, <2>1 DEF Inv, News
  <2> QED
    BY <2>2 DEF News, Unread, Store!IsNews
<1>11. Saved'
  BY <1>1 DEF Inv, Saved
<1> QED
  BY <1>1, <1>8, <1>9, <1>10, <1>11, EndHolds, EndCounted, SameRows DEF Inv

(* Reviewing changes reports one by one, and keeps what they are about.    *)
LEMMA ReviewKeeps ==
  ASSUME Inv, NEW reviewed,
         reports' = [i \in DOMAIN reports |-> reviewed[i]],
         \A i \in DOMAIN reports :
           /\ reviewed[i] \in Store!Reports /\ Unread(reviewed[i])
           /\ reviewed[i].message = reports[i].message
           /\ reviewed[i].answer = reports[i].answer,
         UNCHANGED <<dialogs, title, issued, feedback, rows, calls>>
  PROVE  Inv'
<1>1. /\ DOMAIN reports = 1..Len(reports) /\ Len(reports) \in Nat
  BY LenProperties DEF Inv, TypeOK
<1>2. reports' \in [1..Len(reports) -> Store!Reports]
  BY <1>1
<1>3. reports' \in Seq(Store!Reports)
  BY <1>1, <1>2, SeqDef
<1>4. TypeOK'
  BY <1>3 DEF Inv, TypeOK, calls
<1>5. /\ DOMAIN reports' = DOMAIN reports
      /\ \A i \in DOMAIN reports : reports'[i] = reviewed[i]
  OBVIOUS
<1>6. Reported'
  BY <1>5 DEF Inv, Reported, AnswersIn, OneReportPerAnswer,
              Store!OneReportPerAnswer
<1>7. News'
  BY <1>5 DEF News
<1>8. Holds' /\ Counted' /\ Saved'
  BY DEF Inv, Holds, Appending, Counted, RowsOf, Saved, calls
<1> QED
  BY <1>4, <1>6, <1>7, <1>8, SameRows DEF Inv

LEMMA ReportsAreReports ==
  ASSUME Inv, NEW i \in DOMAIN reports
  PROVE  reports[i] \in Store!Reports /\ Unread(reports[i])
<1>1. DOMAIN reports = 1..Len(reports)
  BY LenProperties DEF Inv, TypeOK
<1> QED
  BY <1>1, ElementOfSeq DEF Inv, TypeOK, News

LEMMA ReviewedReport ==
  ASSUME NEW report \in Store!Reports, Unread(report),
         NEW status \in Store!Statuses
  PROVE  /\ Reviewed(report, status) \in Store!Reports
         /\ Unread(Reviewed(report, status))
         /\ Reviewed(report, status).message = report.message
         /\ Reviewed(report, status).answer = report.answer
<1>1. Reviewed(report, status) \in Store!Reports
  BY DEF Reviewed, Store!Reports, Store!Statuses
<1>2. /\ Reviewed(report, status).message = report.message
      /\ Reviewed(report, status).answer = report.answer
  BY DEF Reviewed, Store!Reports
<1>3. CASE status = "new"
  BY <1>1, <1>2, <1>3
  DEF Reviewed, Store!Reports, Store!Statuses, Unread, Store!IsNews
<1>4. CASE status # "new"
  BY <1>1, <1>2, <1>4
  DEF Reviewed, Store!Reports, Store!Statuses, Unread, Store!IsNews
<1> QED
  BY <1>1, <1>2, <1>3, <1>4

LEMMA StatusKeeps ==
  ASSUME Inv, NEW i \in DOMAIN reports, NEW status \in Store!Statuses,
         SetStatus(i, status)
  PROVE  Inv'
<1>1. PICK reviewed :
        reviewed = [j \in DOMAIN reports |->
          IF j = i THEN Reviewed(reports[i], status) ELSE reports[j]]
  OBVIOUS
<1>2. reports' = [j \in DOMAIN reports |-> reviewed[j]]
  BY <1>1 DEF SetStatus
<1>3. \A j \in DOMAIN reports :
        /\ reviewed[j] \in Store!Reports /\ Unread(reviewed[j])
        /\ reviewed[j].message = reports[j].message
        /\ reviewed[j].answer = reports[j].answer
  BY <1>1, ReportsAreReports, ReviewedReport
<1> QED
  BY <1>2, <1>3, ReviewKeeps DEF SetStatus

LEMMA SeenKeeps ==
  ASSUME Inv, NEW ids \in SUBSET DOMAIN reports, MarkSeen(ids) PROVE Inv'
<1>1. PICK reviewed :
        reviewed = [j \in DOMAIN reports |->
          IF j \in ids /\ UnseenNews(j)
            THEN [reports[j] EXCEPT !.seen = TRUE, !.owed = FALSE]
            ELSE reports[j]]
  OBVIOUS
<1>2. reports' = [j \in DOMAIN reports |-> reviewed[j]]
  BY <1>1 DEF MarkSeen
<1>3. \A report \in Store!Reports :
        LET marked == [report EXCEPT !.seen = TRUE, !.owed = FALSE]
        IN  /\ marked \in Store!Reports
            /\ report.status # "new" => Unread(marked)
            /\ marked.message = report.message
            /\ marked.answer = report.answer
  BY DEF Store!Reports, Unread, Store!IsNews
<1>4. \A j \in DOMAIN reports :
        /\ reviewed[j] \in Store!Reports /\ Unread(reviewed[j])
        /\ reviewed[j].message = reports[j].message
        /\ reviewed[j].answer = reports[j].answer
  BY <1>1, <1>3, ReportsAreReports DEF UnseenNews
<1> QED
  BY <1>2, <1>4, ReviewKeeps DEF MarkSeen

LEMMA OwnKeeps ==
  ASSUME Inv, NEW c \in Clients, NEW e \in Exchanges,
         NEW statement \in {"rate", "clear", "report"},
         OwnAnswer(c, e, statement)
  PROVE  Inv'
<1>1. /\ pc[c] = "idle" /\ pc' = [pc EXCEPT ![c] = statement]
      /\ e \in AnswersIn(rows)
      /\ exchange' = [exchange EXCEPT ![c] = e]
      /\ UNCHANGED <<dialogs, title, issued, feedback, reports, rows, lock,
                     dialog, position>>
  BY DEF OwnAnswer, tables
<1>2. TypeOK'
  BY <1>1 DEF Inv, TypeOK, Statements
<1>3. Holds'
  BY <1>1 DEF Inv, TypeOK, Holds, Appending
<1>4. Counted'
  BY <1>1 DEF Inv, TypeOK, Counted, RowsOf
<1> QED
  BY <1>1, <1>2, <1>3, <1>4, SameRows, SameReports DEF Inv

LEMMA CreateKeeps ==
  ASSUME Inv, NEW d \in Dialogs, Create(d) PROVE Inv'
<1>1. /\ dialogs' = [dialogs EXCEPT ![d] = "stored"]
      /\ UNCHANGED <<title, issued, feedback, reports, rows, lock, pc, dialog,
                     exchange, position>>
  BY DEF Create, calls
<1>2. TypeOK'
  BY <1>1 DEF Inv, TypeOK
<1>3. Holds' /\ Counted'
  BY <1>1 DEF Inv, Holds, Appending, Counted, RowsOf
<1> QED
  BY <1>1, <1>2, <1>3, SameRows, SameReports DEF Inv

LEMMA StutterKeeps == Inv /\ UNCHANGED vars => Inv'
<1> SUFFICES ASSUME Inv, UNCHANGED vars PROVE Inv'
  OBVIOUS
<1>1. TypeOK' /\ Holds' /\ Counted'
  BY DEF Inv, TypeOK, Holds, Appending, Counted, RowsOf, vars, tables, calls
<1> QED
  BY <1>1, SameRows, SameReports DEF Inv, vars, tables

-----------------------------------------------------------------------------
LEMMA InvNext == Inv /\ [Next]_vars => Inv'
<1> SUFFICES ASSUME Inv, [Next]_vars PROVE Inv'
  OBVIOUS
<1>1. ASSUME NEW c \in Clients,
             Rollback(c) \/ ReportExists(c) \/ ClearFeedback(c)
             \/ \E score \in Scores : SetFeedback(c, score)
      PROVE  Inv'
  <2>1. feedback' \in [Exchanges -> Scores \cup {None}]
    BY <1>1 DEF Rollback, ReportExists, ClearFeedback, SetFeedback, tables,
                Inv, TypeOK
  <2> QED
    BY <1>1, <2>1, EndKeeps
    DEF Rollback, ReportExists, ClearFeedback, SetFeedback, tables
<1> QED
  BY <1>1, CreateKeeps, LockKeeps, ReadKeeps, InsertKeeps, DeleteKeeps,
     OwnKeeps, ReportKeeps, StatusKeeps, SeenKeeps, StutterKeeps DEF Next

(* Type correctness.                                                       *)
THEOREM HistoryTypeCorrect == Spec => []TypeOK
<1>1. Inv => TypeOK
  BY DEF Inv
<1> QED
  BY <1>1, InvInit, InvNext, PTL DEF Spec

(* Positions count up without gaps, whatever clients append to a dialog    *)
(* together.                                                               *)
THEOREM PositionsStayDense == Spec => []PositionsDense
<1>1. Inv => PositionsDense
  <2> SUFFICES ASSUME Inv, NEW d \in Dialogs, NEW row \in RowsOf(d)
               PROVE  Paired(row) \in rows
    BY DEF Inv, Dense, PositionsDense, Paired
  <2> QED
    BY DEF Inv, Pairs, RowsOf
<1> QED
  BY <1>1, InvInit, InvNext, PTL DEF Spec

(* An answer is reported once, also after its dialog was deleted.          *)
THEOREM AnswersReportedOnce == Spec => []OneReportPerAnswer
<1>1. Inv => OneReportPerAnswer
  BY DEF Inv, Reported
<1> QED
  BY <1>1, InvInit, InvNext, PTL DEF Spec

(* A concluded review is news exactly until the user dismissed it.         *)
THEOREM NewsUntilSeen == Spec => []ReviewIsNewsUntilSeen
<1>1. Inv => ReviewIsNewsUntilSeen
  BY DEF Inv, News, Unread, ReviewIsNewsUntilSeen, Store!ReviewIsNewsUntilSeen
<1> QED
  BY <1>1, InvInit, InvNext, PTL DEF Spec

-----------------------------------------------------------------------------
(* The refinement.  Positions are dense, so a row with position k is the   *)
(* k-th message of its dialog (Placed); what the contract asks of a dialog *)
(* or an answer is then asked of its rows.                                 *)

LEMMA PositionsTell ==
  ASSUME NEW set, IsFiniteSet(set),
         {row.position : row \in set} = 0..(Cardinality(set) - 1)
  PROVE  \A row, other \in set : row.position = other.position => row = other
<1>1. PICK n : n = Cardinality(set) /\ n \in Nat
  BY FS_CardinalityType
<1>2. Cardinality(0..(n - 1)) = n
  BY <1>1, FS_Interval
<1>3. PICK place : place = [row \in set |-> row.position]
  OBVIOUS
<1>4. place \in Surjection(set, 0..(n - 1))
  BY <1>1, <1>3 DEF Surjection
<1>5. place \in Injection(set, 0..(n - 1))
  BY <1>1, <1>2, <1>4, FS_SurjSameCardinalityImpliesInj
<1> QED
  BY <1>3, <1>5 DEF Injection, IsInjective

LEMMA RowsBefore ==
  ASSUME NEW set, IsFiniteSet(set),
         {row.position : row \in set} = 0..(Cardinality(set) - 1),
         NEW row \in set
  PROVE  Cardinality({q \in set : q.position < row.position}) = row.position
<1>1. PICK before : before = {q \in set : q.position < row.position}
  OBVIOUS
<1>2. PICK n : n = Cardinality(set) /\ n \in Nat
  BY FS_CardinalityType
<1>3. PICK p : p = row.position /\ p \in 0..(n - 1)
  BY <1>2
<1>4. IsFiniteSet(before)
  BY <1>1, FS_Subset
<1>5. PICK place : place = [q \in before |-> q.position]
  OBVIOUS
<1>6. \A q \in before : q.position \in 0..(p - 1)
  <2>1. \A q \in set : q.position \in 0..(n - 1)
    BY <1>2
  <2> QED
    BY <2>1, <1>1, <1>2, <1>3
<1>7. \A k \in 0..(p - 1) : \E q \in before : q.position = k
  <2>1. \A k \in 0..(n - 1) : \E q \in set : q.position = k
    BY <1>2
  <2> QED
    BY <2>1, <1>1, <1>2, <1>3
<1>8. place \in Bijection(before, 0..(p - 1))
  <2>1. place \in Injection(before, 0..(p - 1))
    BY <1>1, <1>5, <1>6, PositionsTell DEF Injection, IsInjective
  <2>2. place \in Surjection(before, 0..(p - 1))
    BY <1>5, <1>6, <1>7 DEF Surjection
  <2> QED
    BY <2>1, <2>2 DEF Bijection
<1>9. Cardinality(0..(p - 1)) = Cardinality(before)
  BY <1>4, <1>8, FS_Bijection DEF ExistsBijection
<1>10. Cardinality(0..(p - 1)) = p
  BY <1>3, FS_Interval
<1> QED
  BY <1>1, <1>3, <1>9, <1>10

MessageOf(row) == [exchange |-> row.exchange, role |-> row.role]

InOrder(set) ==
  [i \in 1..Cardinality(set) |->
     LET row == CHOOSE r \in set :
                  Cardinality({q \in set : q.position < r.position}) = i - 1
     IN  [exchange |-> row.exchange, role |-> row.role]]

LEMMA Placed ==
  ASSUME NEW set \in SUBSET Rows, IsFiniteSet(set),
         {row.position : row \in set} = 0..(Cardinality(set) - 1),
         NEW n, n = Cardinality(set)
  PROVE  /\ n \in Nat
         /\ InOrder(set) \in Seq(Store!Messages)
         /\ Len(InOrder(set)) = n
         /\ DOMAIN InOrder(set) = 1..n
         /\ \A row \in set : /\ row.position + 1 \in 1..n
                             /\ InOrder(set)[row.position + 1] = MessageOf(row)
         /\ \A i \in 1..n : \E row \in set : row.position + 1 = i
<1>1. n \in Nat
  BY FS_CardinalityType
<1>2. \A row \in set : row.position \in 0..(n - 1)
  OBVIOUS
<1>3. \A i \in 1..n : \E row \in set : row.position + 1 = i
  <2>1. \A k \in 0..(n - 1) : \E row \in set : row.position = k
    OBVIOUS
  <2>2. \A i \in 1..n : i - 1 \in 0..(n - 1)
    BY <1>1
  <2> QED
    BY <1>1, <1>2, <2>1, <2>2
<1>4. ASSUME NEW row \in set
      PROVE  InOrder(set)[row.position + 1] = MessageOf(row)
  <2>1. PICK i : i = row.position + 1 /\ i \in 1..n /\ i - 1 = row.position
    BY <1>1, <1>2
  <2>2. \A r \in set : Cardinality({q \in set : q.position < r.position})
                       = r.position
    BY RowsBefore
  <2>3. \A r \in set : Cardinality({q \in set : q.position < r.position}) = i - 1
                       <=> r = row
    BY <2>1, <2>2, PositionsTell
  <2>4. (CHOOSE r \in set :
           Cardinality({q \in set : q.position < r.position}) = i - 1) = row
    BY <2>3
  <2> QED
    BY <2>1, <2>4 DEF InOrder, MessageOf
<1>5. \A i \in 1..n : InOrder(set)[i] \in Store!Messages
  <2>1. \A row \in set : MessageOf(row) \in Store!Messages
    BY DEF MessageOf, Rows, Store!Messages, Store!Roles
  <2> QED
    BY <1>3, <1>4, <2>1
<1>6. InOrder(set) \in [1..n -> Store!Messages]
  BY <1>5 DEF InOrder
<1>7. InOrder(set) \in Seq(Store!Messages)
  BY <1>1, <1>6, SeqDef
<1>8. Len(InOrder(set)) = n /\ DOMAIN InOrder(set) = 1..n
  BY <1>1, <1>6, <1>7, LenProperties
<1> QED
  BY <1>1, <1>2, <1>3, <1>4, <1>7, <1>8

LEMMA Sorted ==
  ASSUME Inv, NEW d \in Dialogs, NEW n, n = Cardinality(RowsOf(d))
  PROVE  /\ n \in Nat
         /\ Ordered(d) \in Seq(Store!Messages)
         /\ Len(Ordered(d)) = n
         /\ DOMAIN Ordered(d) = 1..n
         /\ \A row \in RowsOf(d) :
              /\ row.position + 1 \in 1..n
              /\ Ordered(d)[row.position + 1] = MessageOf(row)
         /\ \A i \in 1..n : \E row \in RowsOf(d) : row.position + 1 = i
<1>1. RowsOf(d) \in SUBSET Rows
  BY DEF Inv, TypeOK, RowsOf
<1>2. IsFiniteSet(RowsOf(d))
      /\ {row.position : row \in RowsOf(d)} = 0..(Cardinality(RowsOf(d)) - 1)
  BY DEF Inv, Dense
<1>3. Ordered(d) = InOrder(RowsOf(d))
  BY DEF Ordered, InOrder
<1> HIDE DEF InOrder, Ordered, RowsOf
<1> QED
  BY <1>1, <1>2, <1>3, Placed

LEMMA Found ==
  ASSUME Inv, NEW d \in Dialogs, NEW e
  PROVE  /\ Store!In(Store!Answer(e), d) <=> e \in AnswersIn(RowsOf(d))
         /\ e \in AnswersIn(RowsOf(d)) => e \in Exchanges
<1>1. PICK n : n = Cardinality(RowsOf(d))
  OBVIOUS
<1>2. ASSUME Store!In(Store!Answer(e), d) PROVE e \in AnswersIn(RowsOf(d))
  <2>1. PICK i \in DOMAIN Ordered(d) :
          Ordered(d)[i] = [exchange |-> e, role |-> "assistant"]
    BY <1>2 DEF Store!In, Store!Answer
  <2>2. PICK row \in RowsOf(d) : row.position + 1 = i
    BY <1>1, <2>1, Sorted
  <2>3. MessageOf(row) = [exchange |-> e, role |-> "assistant"]
    BY <1>1, <2>1, <2>2, Sorted
  <2> QED
    BY <2>3 DEF MessageOf, AnswersIn
<1>3. ASSUME e \in AnswersIn(RowsOf(d)) PROVE Store!In(Store!Answer(e), d)
  <2>1. PICK row \in RowsOf(d) : row.role = "assistant" /\ row.exchange = e
    BY <1>3 DEF AnswersIn
  <2>2. PICK i \in DOMAIN Ordered(d) : Ordered(d)[i] = MessageOf(row)
    BY <1>1, Sorted
  <2> QED
    BY <2>1, <2>2 DEF Store!In, Store!Answer, MessageOf
<1>4. e \in AnswersIn(RowsOf(d)) => e \in Exchanges
  BY DEF AnswersIn, RowsOf, Inv, TypeOK, Rows
<1> QED
  BY <1>2, <1>3, <1>4

LEMMA AnswersOfDialogs ==
  ASSUME Inv, NEW e
  PROVE  /\ e \in AnswersIn(rows)
              <=> \E d \in Dialogs : e \in AnswersIn(RowsOf(d))
         /\ e \in AnswersIn(rows) => e \in Exchanges
BY DEF AnswersIn, RowsOf, Inv, TypeOK, Rows

LEMMA FoundAnywhere ==
  ASSUME Inv, NEW e
  PROVE  Store!Answered(e) <=> e \in AnswersIn(rows)
BY Found, AnswersOfDialogs DEF Store!Answered

(* A dialog somebody appends to is stored: its row is locked, and DELETE   *)
(* waits for it.  A rating has an answer it rates.                         *)
Kept ==
  \A c \in Clients : Appending(c) => dialogs[dialog[c]] = "stored"

Rated == \A e \in Exchanges : feedback[e] # None => e \in AnswersIn(rows)

LEMMA KeptNext == Inv /\ Kept /\ [Next]_vars => Kept'
<1> SUFFICES ASSUME Inv, Kept, [Next]_vars PROVE Kept'
  OBVIOUS
<1> USE DEF Appending, Kept
<1>1. ASSUME NEW c \in Clients, EndCall(c), UNCHANGED dialogs PROVE Kept'
  BY <1>1 DEF EndCall, Inv, TypeOK
<1>2. ASSUME NEW d \in Dialogs, Create(d) PROVE Kept'
  BY <1>2 DEF Create, calls, Inv, TypeOK, Holds
<1>3. ASSUME NEW c \in Clients, NEW d \in Dialogs, NEW e \in Exchanges,
             LockDialog(c, d, e)
      PROVE  Kept'
  BY <1>3 DEF LockDialog, tables, Inv, TypeOK
<1>4. ASSUME NEW c \in Clients, ReadLastPosition(c) PROVE Kept'
  BY <1>4 DEF ReadLastPosition, tables, Inv, TypeOK
<1>5. ASSUME NEW d \in Dialogs, Delete(d) PROVE Kept'
  BY <1>5 DEF Delete, calls, Inv, TypeOK, Holds
<1>6. ASSUME NEW c \in Clients, NEW e \in Exchanges,
             NEW statement \in {"rate", "clear", "report"},
             OwnAnswer(c, e, statement)
      PROVE  Kept'
  BY <1>6 DEF OwnAnswer, tables, Inv, TypeOK
<1>7. ASSUME UNCHANGED <<dialogs, calls>> PROVE Kept'
  BY <1>7 DEF calls
<1> QED
  BY <1>1, <1>2, <1>3, <1>4, <1>5, <1>6, <1>7
  DEF Next, Rollback, InsertMessages, SetFeedback, ClearFeedback, InsertReport,
      ReportExists, SetStatus, MarkSeen, tables, vars

LEMMA RatedNext == Inv /\ Rated /\ [Next]_vars => Rated'
<1> SUFFICES ASSUME Inv, Rated, [Next]_vars PROVE Rated'
  OBVIOUS
<1>1. ASSUME UNCHANGED <<feedback, rows>> PROVE Rated'
  BY <1>1 DEF Rated, AnswersIn
<1>2. ASSUME NEW c \in Clients, InsertMessages(c) PROVE Rated'
  BY <1>2 DEF InsertMessages, Rated, AnswersIn
<1>3. ASSUME NEW d \in Dialogs, Delete(d) PROVE Rated'
  BY <1>3 DEF Delete, Rated, AnswersIn, RowsOf
<1>4. ASSUME NEW c \in Clients, NEW score \in Scores, SetFeedback(c, score)
      PROVE  Rated'
  BY <1>4 DEF SetFeedback, Rated, AnswersIn, Inv, TypeOK
<1>5. ASSUME NEW c \in Clients, ClearFeedback(c) PROVE Rated'
  BY <1>5 DEF ClearFeedback, Rated, AnswersIn, Inv, TypeOK
<1> QED
  BY <1>1, <1>2, <1>3, <1>4, <1>5
  DEF Next, Rollback, Create, LockDialog, ReadLastPosition, OwnAnswer,
      InsertReport, ReportExists, SetStatus, MarkSeen, tables, vars

-----------------------------------------------------------------------------
(* What each statement does to the contract's variables.                   *)

Mapped == [d \in Dialogs |-> Ordered(d)]

LEMMA SameMessages == ASSUME UNCHANGED rows PROVE Mapped' = Mapped
BY DEF Mapped, Ordered, RowsOf

LEMMA CreateMaps == ASSUME NEW d \in Dialogs, Create(d) PROVE Store!Create(d)
BY SameMessages DEF Create, Store!Create, Mapped

(* The two new rows are the next two messages.                             *)
LEMMA AppendedInOrder ==
  ASSUME Inv, Inv', NEW c \in Clients, InsertMessages(c),
         NEW d, d = dialog[c], NEW e, e = exchange[c]
  PROVE  Ordered(d)' = Ordered(d) \o <<Store!Request(e), Store!Answer(e)>>
<1>0. PICK first, second, n, old, new :
        /\ n = Cardinality(RowsOf(d)) /\ old = Ordered(d) /\ new = Ordered(d)'
        /\ first = Row(c, 0, "user") /\ second = Row(c, 1, "assistant")
  OBVIOUS
<1>1. /\ d \in Dialogs
      /\ rows' = rows \cup {first, second}
      /\ first = [dialog |-> d, position |-> n,
                  exchange |-> e, role |-> "user"]
      /\ second = [dialog |-> d, position |-> n + 1,
                   exchange |-> e, role |-> "assistant"]
      /\ e \in Exchanges
  <2>1. e \in Exchanges
    BY DEF InsertMessages, Inv, Holds, Appending
  <2> QED
    BY <1>0, <2>1, InsertedRows
<1>2. /\ n \in Nat /\ old \in Seq(Store!Messages) /\ Len(old) = n
      /\ \A row \in RowsOf(d) : old[row.position + 1] = MessageOf(row)
      /\ \A i \in 1..n : \E row \in RowsOf(d) : row.position + 1 = i
  BY <1>0, <1>1, Sorted
<1>3. PICK after :
        /\ after = RowsOf(d)' /\ after = RowsOf(d) \cup {first, second}
        /\ after \in SUBSET Rows /\ IsFiniteSet(after)
        /\ {row.position : row \in after} = 0..(Cardinality(after) - 1)
  <2>1. RowsOf(d)' = RowsOf(d) \cup {first, second}
    BY <1>1 DEF RowsOf
  <2>2. RowsOf(d)' \in SUBSET Rows
    BY DEF RowsOf, Inv, TypeOK
  <2>3. /\ IsFiniteSet(RowsOf(d)')
        /\ {row.position : row \in RowsOf(d)'} = 0..(Cardinality(RowsOf(d)') - 1)
    BY <1>1 DEF Inv, Dense
  <2> QED
    BY <2>1, <2>2, <2>3
<1>4. Cardinality(after) = n + 2
  <2>1. PICK k : k = Cardinality(after) /\ k \in Nat
    BY <1>3, FS_CardinalityType
  <2>2. {row.position : row \in after} = 0..(n + 1)
    <3>1. {row.position : row \in RowsOf(d)} = 0..(n - 1)
      BY <1>0, <1>1 DEF Inv, Dense
    <3>2. {row.position : row \in after} = 0..(n - 1) \cup {n, n + 1}
      BY <1>1, <1>3, <3>1
    <3> QED
      BY <1>2, <3>2
  <2>3. 0..(k - 1) = 0..(n + 1)
    BY <1>3, <2>1, <2>2
  <2>4. Cardinality(0..(k - 1)) = k
    BY <2>1, FS_Interval
  <2>5. Cardinality(0..(n + 1)) = n + 2
    <3>1. n + 1 \in Int /\ ~(0 > n + 1) /\ n + 1 - 0 + 1 = n + 2
      BY <1>2
    <3> QED
      BY <3>1, FS_Interval
  <2> QED
    BY <2>1, <2>3, <2>4, <2>5
<1>5. new = InOrder(after)
  BY <1>0, <1>3 DEF Ordered, InOrder
<1>6. /\ new \in Seq(Store!Messages) /\ Len(new) = n + 2
      /\ \A row \in after : new[row.position + 1] = MessageOf(row)
  BY <1>3, <1>4, <1>5, Placed
<1>7. PICK pair : /\ pair = <<Store!Request(e), Store!Answer(e)>>
                  /\ pair \in Seq(Store!Messages) /\ Len(pair) = 2
                  /\ pair[1] = MessageOf(first) /\ pair[2] = MessageOf(second)
  <2>1. PICK one, two :
          /\ one = Store!Request(e) /\ one = MessageOf(first)
          /\ two = Store!Answer(e) /\ two = MessageOf(second)
    BY <1>1 DEF Store!Request, Store!Answer, MessageOf
  <2>2. one \in Store!Messages /\ two \in Store!Messages
    BY <1>1, <2>1 DEF Store!Request, Store!Answer, Store!Messages, Store!Roles
  <2>3. /\ <<one, two>> \in Seq(Store!Messages) /\ Len(<<one, two>>) = 2
        /\ <<one, two>>[1] = one /\ <<one, two>>[2] = two
    BY <2>2
  <2> QED
    BY <2>1, <2>3
<1>8. /\ old \o pair \in Seq(Store!Messages) /\ Len(old \o pair) = n + 2
      /\ \A i \in 1..(n + 2) :
           (old \o pair)[i] = IF i <= n THEN old[i] ELSE pair[i - n]
  BY <1>2, <1>7, ConcatProperties
<1>9. \A i \in 1..(n + 2) : new[i] = (old \o pair)[i]
  <2>1. \A i \in 1..n : new[i] = old[i]
    BY <1>2, <1>3, <1>6
  <2>2. new[n + 1] = pair[1] /\ new[n + 2] = pair[2]
    <3>1. new[n + 1] = MessageOf(first)
      BY <1>1, <1>3, <1>6
    <3>2. new[n + 1 + 1] = MessageOf(second)
      BY <1>1, <1>3, <1>6
    <3>3. n + 1 + 1 = n + 2
      BY <1>2
    <3> QED
      BY <1>7, <3>1, <3>2, <3>3
  <2>3. ASSUME NEW i \in 1..(n + 2) PROVE new[i] = (old \o pair)[i]
    <3>1. CASE i <= n
      BY <1>2, <1>8, <2>1, <3>1
    <3>2. CASE i = n + 1
      <4>1. ~(i <= n) /\ i - n = 1
        BY <1>2, <3>2
      <4> QED
        BY <1>8, <2>2, <3>2, <4>1
    <3>3. CASE i = n + 2
      <4>1. ~(i <= n) /\ i - n = 2
        BY <1>2, <3>3
      <4> QED
        BY <1>8, <2>2, <3>3, <4>1
    <3>4. i <= n \/ i = n + 1 \/ i = n + 2
      BY <1>2
    <3> QED
      BY <3>1, <3>2, <3>3, <3>4
  <2> QED
    BY <2>3
<1>10. new = old \o pair
  BY <1>6, <1>8, <1>9, SeqEqual
<1> QED
  BY <1>0, <1>7, <1>10

LEMMA InsertMaps ==
  ASSUME Inv, Inv', Kept, NEW c \in Clients, InsertMessages(c)
  PROVE  Store!Save(dialog[c], exchange[c]) /\ dialog[c] \in Dialogs
                                           /\ exchange[c] \in Exchanges
<1>0. PICK d, e : d = dialog[c] /\ e = exchange[c]
  OBVIOUS
<1>1. /\ d \in Dialogs /\ e \in Exchanges \ issued /\ dialogs[d] = "stored"
  BY <1>0 DEF InsertMessages, Inv, Holds, Appending, Kept
<1>2. /\ title' = [title EXCEPT ![d] = IF @ = None THEN e ELSE @]
      /\ issued' = issued \cup {e}
      /\ UNCHANGED <<dialogs, feedback, reports>>
  BY <1>0 DEF InsertMessages
<1>3. Ordered(d)' = Ordered(d) \o <<Store!Request(e), Store!Answer(e)>>
  BY <1>0, AppendedInOrder
<1>4. \A other \in Dialogs \ {d} : Ordered(other)' = Ordered(other)
  <2>1. \A other \in Dialogs \ {d} : RowsOf(other)' = RowsOf(other)
    BY <1>0, InsertedRows DEF RowsOf, InsertMessages, Row
  <2> QED
    BY <2>1 DEF Ordered
<1>5. Mapped' = [Mapped EXCEPT ![d] = @ \o <<Store!Request(e), Store!Answer(e)>>]
  BY <1>1, <1>3, <1>4 DEF Mapped
<1> QED
  BY <1>0, <1>1, <1>2, <1>5 DEF Store!Save, Mapped

LEMMA DeleteMaps ==
  ASSUME Inv, NEW d \in Dialogs, Delete(d) PROVE Store!Delete(d)
<1>1. /\ dialogs[d] = "stored" /\ dialogs' = [dialogs EXCEPT ![d] = "gone"]
      /\ title' = [title EXCEPT ![d] = None]
      /\ rows' = rows \ RowsOf(d)
      /\ UNCHANGED issued
  BY DEF Delete
<1>2. \A other \in Dialogs \ {d} : Ordered(other)' = Ordered(other)
  <2>1. \A other \in Dialogs \ {d} : RowsOf(other)' = RowsOf(other)
    BY <1>1 DEF RowsOf
  <2> QED
    BY <2>1 DEF Ordered
<1>3. Ordered(d)' = <<>>
  <2>1. RowsOf(d)' = {}
    BY <1>1 DEF RowsOf
  <2>2. InOrder({}) \in Seq(Store!Messages) /\ Len(InOrder({})) = 0
    <3>1. {row.position : row \in {}} = {} /\ 0..(0 - 1) = {}
      OBVIOUS
    <3> QED
      BY <3>1, FS_EmptySet, Placed
  <2>3. InOrder({}) = <<>>
    BY <2>2, EmptySeq
  <2>4. Ordered(d)' = InOrder({})
    BY <2>1 DEF Ordered, InOrder
  <2> QED
    BY <2>3, <2>4
<1>4. Mapped' = [Mapped EXCEPT ![d] = <<>>]
  BY <1>2, <1>3 DEF Mapped
<1>5. feedback' = [e \in Exchanges |->
                     IF Store!In(Store!Answer(e), d) THEN None ELSE feedback[e]]
  BY Found DEF Delete
<1>6. reports' =
        [i \in DOMAIN reports |->
          IF \E e \in Exchanges :
               Store!In(Store!Answer(e), d) /\ reports[i].message = e
            THEN [reports[i] EXCEPT !.message = None]
            ELSE reports[i]]
  <2>1. \A i : (\E e \in Exchanges :
                 Store!In(Store!Answer(e), d) /\ reports[i].message = e)
               <=> reports[i].message \in AnswersIn(RowsOf(d))
    BY Found
  <2> QED
    BY <2>1 DEF Delete
<1> QED
  BY <1>1, <1>4, <1>5, <1>6 DEF Store!Delete, Mapped

LEMMA RateMaps ==
  ASSUME Inv, NEW c \in Clients, NEW score \in Scores, SetFeedback(c, score)
  PROVE  Store!Rate(exchange[c], score) /\ exchange[c] \in Exchanges
<1>1. Store!Answered(exchange[c]) /\ exchange[c] \in Exchanges
  BY FoundAnywhere, AnswersOfDialogs DEF SetFeedback
<1>2. /\ feedback' = [feedback EXCEPT ![exchange[c]] = score]
      /\ UNCHANGED <<dialogs, title, issued, reports, rows>>
  BY DEF SetFeedback
<1> QED
  BY <1>1, <1>2, SameMessages DEF Store!Rate, Mapped

(* Clearing the rating of an answer deleted meanwhile changes nothing.     *)
LEMMA ClearMaps ==
  ASSUME Inv, Rated, NEW c \in Clients, ClearFeedback(c)
  PROVE  \/ Store!Rate(exchange[c], None) /\ exchange[c] \in Exchanges
         \/ UNCHANGED tables
<1>1. /\ feedback' = [feedback EXCEPT ![exchange[c]] = None]
      /\ UNCHANGED <<dialogs, title, issued, reports, rows>>
  BY DEF ClearFeedback
<1>2. CASE exchange[c] \in AnswersIn(rows)
  <2>1. Store!Answered(exchange[c]) /\ exchange[c] \in Exchanges
    BY <1>2, FoundAnywhere, AnswersOfDialogs
  <2> QED
    BY <1>1, <2>1, SameMessages DEF Store!Rate, Mapped
<1>3. CASE exchange[c] \notin AnswersIn(rows)
  <2>1. feedback' = feedback
    BY <1>1, <1>3 DEF Rated, Inv, TypeOK
  <2> QED
    BY <1>1, <2>1 DEF tables
<1> QED
  BY <1>2, <1>3

(* The request of an answer is the message before it, for both.            *)
LEMMA RequestsAgree ==
  ASSUME Inv, NEW e, e \in AnswersIn(rows)
  PROVE  \E d \in Dialogs : \E i \in DOMAIN Mapped[d] :
           /\ Mapped[d][i] = Store!Answer(e)
           /\ Store!RequestBefore(d, i) = RequestOf(e)
<1>1. PICK answer : answer = CHOOSE row \in rows :
                               row.exchange = e /\ row.role = "assistant"
  OBVIOUS
<1>2. answer \in rows /\ answer.exchange = e /\ answer.role = "assistant"
  BY <1>1 DEF AnswersIn
<1>3. PICK d, p, n, story :
        /\ d = answer.dialog /\ p = answer.position
        /\ n = Cardinality(RowsOf(d)) /\ story = Ordered(d)
  OBVIOUS
<1>4. /\ d \in Dialogs /\ p \in Nat /\ answer \in RowsOf(d)
      /\ \A row \in RowsOf(d) : row \in Rows
  BY <1>2, <1>3 DEF Inv, TypeOK, Rows, RowsOf
<1>5. /\ n \in Nat /\ DOMAIN story = 1..n
      /\ \A row \in RowsOf(d) : /\ row.position + 1 \in 1..n
                                /\ story[row.position + 1] = MessageOf(row)
      /\ \A i \in 1..n : \E row \in RowsOf(d) : row.position + 1 = i
  BY <1>3, <1>4, Sorted
<1>6. PICK request : request = [answer EXCEPT !.role = "user",
                                              !.position = answer.position - 1]
  OBVIOUS
<1>7. /\ request \in RowsOf(d) /\ request.role = "user"
      /\ request.exchange = e /\ request.position = p - 1
  <2>1. request \in rows
    BY <1>2, <1>6 DEF Inv, Pairs, Paired
  <2>2. request.dialog = d /\ request.role = "user"
        /\ request.exchange = e /\ request.position = p - 1
    BY <1>2, <1>3, <1>6 DEF Inv, TypeOK, Rows
  <2> QED
    BY <2>1, <2>2 DEF RowsOf
<1>8. RequestOf(e) = e
  <2>1. PICK earlier : earlier = {row \in RowsOf(d) :
                          row.role = "user" /\ row.position < p}
    OBVIOUS
  <2>2. /\ request \in earlier
        /\ \A other \in earlier : other.position <= request.position
    BY <1>4, <1>7, <2>1 DEF Rows
  <2>3. \A row \in earlier :
          (\A other \in earlier : other.position <= row.position)
             => row = request
    <3>1. \A row, other \in RowsOf(d) :
            row.position = other.position => row = other
      BY <1>4, PositionsTell DEF Inv, Dense
    <3>2. \A row \in earlier :
            row \in RowsOf(d) /\ row.position \in Nat /\ row.position < p
      BY <1>4, <2>1 DEF Rows
    <3> QED
      BY <1>4, <1>7, <2>2, <3>1, <3>2
  <2>4. (CHOOSE row \in earlier :
          \A other \in earlier : other.position <= row.position) = request
    BY <2>2, <2>3
  <2> QED
    BY <1>1, <1>3, <1>7, <2>1, <2>2, <2>4 DEF RequestOf
<1>9. PICK i, j : i = p + 1 /\ j = p /\ i \in 1..n /\ j \in 1..(i - 1)
                  /\ story[i] = Store!Answer(e) /\ story[j] = Store!Request(e)
  <2>1. p + 1 \in 1..n /\ story[p + 1] = Store!Answer(e)
    BY <1>2, <1>3, <1>4, <1>5 DEF MessageOf, Store!Answer
  <2>2. p - 1 + 1 \in 1..n /\ story[p - 1 + 1] = Store!Request(e)
    BY <1>5, <1>7 DEF MessageOf, Store!Request
  <2>3. p - 1 + 1 = p /\ p \in 1..(p + 1 - 1)
    BY <1>4, <2>2
  <2> QED
    BY <2>1, <2>2, <2>3
<1>10. Store!RequestBefore(d, i) = e
  <2>1. PICK earlier : earlier = {k \in 1..(i - 1) : story[k].role = "user"}
    OBVIOUS
  <2>2. j \in earlier /\ \A k \in earlier : k <= j
    BY <1>4, <1>9, <2>1 DEF Store!Request
  <2>3. (CHOOSE k \in earlier : \A l \in earlier : l <= k) = j
    <3>1. \A k \in earlier : (\A l \in earlier : l <= k) => k = j
      BY <1>4, <1>9, <2>1, <2>2
    <3> QED
      BY <2>2, <3>1
  <2>4. story[j].exchange = e
    BY <1>9 DEF Store!Request
  <2> QED
    BY <1>3, <1>4, <2>1, <2>2, <2>3, <2>4 DEF Store!RequestBefore
<1> QED
  BY <1>3, <1>4, <1>5, <1>8, <1>9, <1>10 DEF Mapped

LEMMA ReportMaps ==
  ASSUME Inv, NEW c \in Clients, InsertReport(c)
  PROVE  Store!Report(exchange[c]) /\ exchange[c] \in Exchanges
<1>0. PICK e : e = exchange[c]
  OBVIOUS
<1>1. /\ e \in AnswersIn(rows) /\ \A i \in DOMAIN reports : reports[i].message # e
      /\ reports' = Append(reports, Store!NewReport(e, RequestOf(e)))
      /\ UNCHANGED <<dialogs, title, issued, feedback, rows>>
  BY <1>0 DEF InsertReport, Reportable
<1>2. PICK d \in Dialogs : \E i \in DOMAIN Mapped[d] :
        /\ Mapped[d][i] = Store!Answer(e)
        /\ Store!RequestBefore(d, i) = RequestOf(e)
  BY <1>1, RequestsAgree
<1>3. ~Store!Reported(e)
  BY <1>1 DEF Store!Reported
<1>4. Mapped' = Mapped
  BY <1>1, SameMessages
<1>5. e \in Exchanges
  BY <1>1, AnswersOfDialogs
<1> QED
  BY <1>0, <1>1, <1>2, <1>3, <1>4, <1>5 DEF Store!Report, Mapped

LEMMA StatusMaps ==
  ASSUME NEW i \in DOMAIN reports, NEW status, SetStatus(i, status)
  PROVE  Store!SetStatus(i, status)
BY SameMessages
DEF SetStatus, Store!SetStatus, Reviewed, Store!Reviewed, Mapped

LEMMA SeenMaps ==
  ASSUME NEW ids, MarkSeen(ids) PROVE Store!MarkSeen(ids)
BY SameMessages
DEF MarkSeen, Store!MarkSeen, UnseenNews, Store!IsNews, Mapped

LEMMA QuietMaps ==
  ASSUME UNCHANGED tables PROVE UNCHANGED Store!storeVars
BY SameMessages DEF tables, Store!storeVars, Mapped

LEMMA StepsMap ==
  ASSUME Inv, Inv', Kept, Rated, [Next]_vars
  PROVE  [Store!Next]_(Store!storeVars)
<1>1. ASSUME NEW d \in Dialogs, Create(d) PROVE Store!Next
  BY <1>1, CreateMaps DEF Store!Next
<1>2. ASSUME NEW c \in Clients, InsertMessages(c) PROVE Store!Next
  BY <1>2, InsertMaps DEF Store!Next
<1>3. ASSUME NEW d \in Dialogs, Delete(d) PROVE Store!Next
  BY <1>3, DeleteMaps DEF Store!Next
<1>4. ASSUME NEW c \in Clients, NEW score \in Scores, SetFeedback(c, score)
      PROVE  Store!Next
  BY <1>4, RateMaps DEF Store!Next
<1>5. ASSUME NEW c \in Clients, ClearFeedback(c)
      PROVE  Store!Next \/ UNCHANGED tables
  BY <1>5, ClearMaps DEF Store!Next
<1>6. ASSUME NEW c \in Clients, InsertReport(c) PROVE Store!Next
  BY <1>6, ReportMaps DEF Store!Next
<1>7. ASSUME NEW i \in DOMAIN reports, NEW status \in Store!Statuses,
             SetStatus(i, status)
      PROVE  Store!Next
  BY <1>7, StatusMaps DEF Store!Next
<1>8. ASSUME NEW ids \in SUBSET DOMAIN reports, MarkSeen(ids) PROVE Store!Next
  BY <1>8, SeenMaps DEF Store!Next
<1>9. Store!Next \/ UNCHANGED tables
  BY <1>1, <1>2, <1>3, <1>4, <1>5, <1>6, <1>7, <1>8
  DEF Next, Rollback, LockDialog, ReadLastPosition, OwnAnswer, ReportExists, vars
<1> QED
  BY <1>9, QuietMaps

(* Every call, statement by statement and beside the calls of any number   *)
(* of other processes, has the effect of one operation of HistoryStore or  *)
(* none.                                                                   *)
THEOREM CallsAreAtomic == Spec => ImplementsStore
<1>1. Init => Store!Init
  <2> SUFFICES ASSUME Init PROVE Mapped = [d \in Dialogs |-> <<>>]
    BY DEF Init, Store!Init, Mapped
  <2>1. \A d \in Dialogs : Len(Ordered(d)) = 0 /\ Ordered(d) \in Seq(Store!Messages)
    <3>1. \A d \in Dialogs : RowsOf(d) = {}
      BY DEF Init, RowsOf
    <3> QED
      BY <3>1, InvInit, Sorted, FS_EmptySet
  <2> QED
    BY <2>1, EmptySeq DEF Mapped
<1>2. Init => Kept /\ Rated
  BY DEF Init, Kept, Appending, Rated
<1>3. Inv /\ Inv' /\ Kept /\ Rated /\ [Next]_vars => [Store!Next]_(Store!storeVars)
  BY StepsMap
<1> QED
  BY <1>1, <1>2, <1>3, InvInit, InvNext, KeptNext, RatedNext, PTL
  DEF Spec, ImplementsStore, Store!Spec

=============================================================================
