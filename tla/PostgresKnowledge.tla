-------------------------- MODULE PostgresKnowledge --------------------------
(***************************************************************************)
(* Loads and lookups of knowledge in PostgreSQL (rag/postgres.py, with the *)
(* use cases rag/services.py and rag/lookup.py).                           *)
(*                                                                         *)
(* A loader is a process that runs the load command, again and again.  A   *)
(* load is one transaction under an advisory lock, one action for the      *)
(* statements that belong together; what it wrote is in working[l] until   *)
(* COMMIT.  A lookup is a call of the agent's tool; its statements read    *)
(* one REPEATABLE READ snapshot.  Either can lose the database anywhere.   *)
(*                                                                         *)
(* The rows of an aggregate are one record, of columns of its root row and *)
(* of child rows, which save() writes at different times.                  *)
(***************************************************************************)
EXTENDS KnowledgeRules, Sequences, FiniteSetsExt

CONSTANTS Packages, LoadIds, Loaders, Lookups

ASSUME LoadAssumption ==
  /\ LoadIds \subseteq Nat \ {0}
  /\ \A p \in Packages : IsKnowledge(p)
  /\ None \notin Contents \cup Loaders

VARIABLES
  tables,     (* committed rows, per entity; None without a root row       *)
  revisions,  (* rag_revisions, a set of rows                              *)
  loads,      (* rag_loads, committed                                      *)
  sequence,   (* the identity of rag_loads; a rollback does not return it  *)
  lock,       (* the loader that holds the advisory lock                   *)
  step,       (* per loader                                                *)
  package,    (* per loader, what it loads                                 *)
  current,    (* per loader, the set it read                               *)
  working,    (* per loader, the rows as its transaction sees them         *)
  loadId,     (* per loader                                                *)
  report,     (* per loader, what the last load told its author            *)
  lost,       (* history: the connection failed in that load               *)
  asks,       (* per lookup, the name it was called with                   *)
  asked,      (* history: the last load committed when it took a snapshot  *)
  snapshot,   (* per lookup                                                *)
  answer      (* per lookup, a record with status and cards                *)

database == <<tables, revisions, loads, sequence, lock>>
loader == <<step, package, current, working, loadId, report, lost>>
lookup == <<asks, asked, snapshot, answer>>
vars == <<database, loader, lookup>>

Steps == {"idle", "lock", "read", "start", "clear", "upsert", "insert", "finish"}
Reports == {"none", "loaded", "rejected", "unavailable"}
Rows == [Entities -> Contents \cup {None}]

(* What of an entity is in child rows, by kind; an episode has its title,  *)
(* its work and its number in the root row.                                *)
CharacterChildren == {"names", "canons", "ties"}
PlaceChildren == {"names", "canons", "refs"}
EpisodeChildren == {"refs", "ties"}
Children(e) ==
  CASE e \in Characters -> CharacterChildren
    [] e \in Places -> PlaceChildren
    [] OTHER -> EpisodeChildren

RootRow(e, content) ==
  [f \in DOMAIN content |-> IF f \in Children(e) THEN {} ELSE content[f]]
WithChildren(e, root, content) ==
  [f \in DOMAIN root |-> IF f \in Children(e) THEN content[f] ELSE root[f]]

Stored(rows) == [e \in {x \in Entities : rows[x] # None} |-> rows[e]]

Revisions ==
  [entity : Entities, revision : Nat \ {0}, operation : {"create", "update"},
   load : LoadIds, payload : Contents]

(* The last revision of an entity, 0 without one.                          *)
Latest(e) == Max({0} \cup {r.revision : r \in {q \in revisions : q.entity = e}})

RevisionOf(e, n) ==
  CHOOSE r \in revisions : r.entity = e /\ r.revision = n
Journal(e) ==
  [n \in 1..Latest(e) |->
     LET r == RevisionOf(e, n)
     IN  [operation |-> r.operation, load |-> r.load, payload |-> r.payload]]

Store == INSTANCE KnowledgeStore WITH
           entities <- Stored(tables),
           revisions <- [e \in Entities |-> Journal(e)]

NoAnswer == [status |-> "none", cards |-> None]

TypeOK ==
  /\ tables \in Rows
  /\ revisions \subseteq Revisions
  /\ DOMAIN loads \subseteq LoadIds
  /\ sequence \in LoadIds \cup {0}
  /\ lock \in Loaders \cup {None}
  /\ step \in [Loaders -> Steps]
  /\ package \in [Loaders -> Packages \cup {None}]
  /\ \A l \in Loaders : current[l] # None => IsKnowledge(current[l])
  /\ working \in [Loaders -> Rows \cup {None}]
  /\ loadId \in [Loaders -> LoadIds \cup {0}]
  /\ report \in [Loaders -> Reports]
  /\ lost \in [Loaders -> BOOLEAN]
  /\ asks \in [Lookups -> Names \cup {None}]
  /\ asked \in [Lookups -> LoadIds \cup {0}]
  /\ snapshot \in [Lookups -> Rows \cup {None}]
  /\ \A q \in Lookups :
       answer[q].status \in {"none", "matched", "missing",
                             "found", "not_found", "unavailable"}

Init ==
  /\ tables = [e \in Entities |-> None]
  /\ revisions = {}
  /\ loads = [id \in {} |-> None]
  /\ sequence = 0
  /\ lock = None
  /\ step = [l \in Loaders |-> "idle"]
  /\ package = [l \in Loaders |-> None]
  /\ current = [l \in Loaders |-> None]
  /\ working = [l \in Loaders |-> None]
  /\ loadId = [l \in Loaders |-> 0]
  /\ report = [l \in Loaders |-> "none"]
  /\ lost = [l \in Loaders |-> FALSE]
  /\ asks = [q \in Lookups |-> None]
  /\ asked = [q \in Lookups |-> 0]
  /\ snapshot = [q \in Lookups |-> None]
  /\ answer = [q \in Lookups |-> NoAnswer]

-----------------------------------------------------------------------------
(* A load.                                                                 *)

(* The package is checked by itself; an invalid one never opens the        *)
(* database.                                                               *)
BeginLoad(l, p) ==
  /\ step[l] = "idle"
  /\ Valid(p)
  /\ step' = [step EXCEPT ![l] = "lock"]
  /\ package' = [package EXCEPT ![l] = p]
  /\ report' = [report EXCEPT ![l] = "none"]
  /\ lost' = [lost EXCEPT ![l] = FALSE]
  /\ UNCHANGED <<database, current, working, loadId, lookup>>

(* The transaction ends: its lock is released, its process reports.        *)
EndLoad(l, told) ==
  /\ step' = [step EXCEPT ![l] = "idle"]
  /\ package' = [package EXCEPT ![l] = None]
  /\ current' = [current EXCEPT ![l] = None]
  /\ working' = [working EXCEPT ![l] = None]
  /\ loadId' = [loadId EXCEPT ![l] = 0]
  /\ lock' = IF lock = l THEN None ELSE lock
  /\ report' = [report EXCEPT ![l] = told]

(* Read committed: the statements after this one see every earlier load.   *)
LockKnowledgeShared(l) ==        (* mutant: no lock                        *)
  /\ step[l] = "lock"
  /\ step' = [step EXCEPT ![l] = "read"]
  /\ UNCHANGED <<database, package, current, working, loadId, report, lost,
                 lookup>>
LockKnowledge(l) ==
  /\ step[l] = "lock" /\ lock = None
  /\ lock' = l
  /\ step' = [step EXCEPT ![l] = "read"]
  /\ UNCHANGED <<tables, revisions, loads, sequence, package, current, working,
                 loadId, report, lost, lookup>>

AcceptablePackageAlone(k, p) == Integral(Merged(k, p)) \/ Valid(p)  (* mutant *)
Acceptable(k, p) == Integral(Merged(k, p))

(* read_all and the rules on the merged set.                               *)
ReadAll(l) ==
  /\ step[l] = "read"
  /\ IF Acceptable(Stored(tables), package[l])
       THEN /\ current' = [current EXCEPT ![l] = Stored(tables)]
            /\ working' = [working EXCEPT ![l] = tables]
            /\ step' = [step EXCEPT ![l] = "start"]
            /\ UNCHANGED <<package, loadId, report, lock>>
       ELSE EndLoad(l, "rejected")
  /\ UNCHANGED <<tables, revisions, loads, sequence, lost, lookup>>

ToWrite(l) == Changed(current[l], package[l])

StartLoad(l) ==
  /\ step[l] = "start"
  /\ sequence + 1 \in LoadIds
  /\ sequence' = sequence + 1
  /\ loadId' = [loadId EXCEPT ![l] = sequence + 1]
  /\ step' = [step EXCEPT ![l] = IF ToWrite(l) = {} THEN "finish" ELSE "clear"]
  /\ UNCHANGED <<tables, revisions, loads, lock, package, current, working,
                 report, lost, lookup>>

(* save: the child rows of the changed aggregates go first.                *)
DeleteChildren(l) ==
  /\ step[l] = "clear"
  /\ working' =
       [working EXCEPT ![l] =
          [e \in Entities |->
             IF e \in ToWrite(l) /\ @[e] # None
               THEN RootRow(e, @[e])
               ELSE @[e]]]
  /\ step' = [step EXCEPT ![l] = "upsert"]
  /\ UNCHANGED <<database, package, current, loadId, report, lost, lookup>>

(* Root rows are written in the order of ids, and UNIQUE (work, season,    *)
(* number) is checked at each: an episode that the load has not reached    *)
(* still has its old number.                                               *)
NumberAt(l, e, f) ==
  IF e \in ToWrite(l) /\ e < f
    THEN package[l][e].number
    ELSE IF working[l][e] = None THEN None ELSE working[l][e].number
NumbersCollide(l) ==
  \E f \in ToWrite(l) \cap Episodes : \E e \in Episodes \ {f} :
    NumberAt(l, e, f) = package[l][f].number

UpsertRoots(l) ==
  /\ step[l] = "upsert"
  /\ ~NumbersCollide(l)
  /\ working' =
       [working EXCEPT ![l] =
          [e \in Entities |->
             IF e \in ToWrite(l)
               THEN RootRow(e, package[l][e])
               ELSE @[e]]]
  /\ step' = [step EXCEPT ![l] = "insert"]
  /\ UNCHANGED <<database, package, current, loadId, report, lost, lookup>>

(* The IntegrityError is a SQLAlchemyError: KnowledgeStoreUnavailableError.*)
UpsertFails(l) ==
  /\ step[l] = "upsert"
  /\ NumbersCollide(l)
  /\ EndLoad(l, "unavailable")
  /\ UNCHANGED <<tables, revisions, loads, sequence, lost, lookup>>

InsertChildren(l) ==
  /\ step[l] = "insert"
  /\ working' =
       [working EXCEPT ![l] =
          [e \in Entities |->
             IF e \in ToWrite(l)
               THEN WithChildren(e, @[e], package[l][e])
               ELSE @[e]]]
  /\ step' = [step EXCEPT ![l] = "finish"]
  /\ UNCHANGED <<database, package, current, loadId, report, lost, lookup>>

(* The last revision of each entity plus one.                              *)
NewRevisionsUnnumbered(l) ==     (* mutant: the last revision again        *)
  {[entity |-> e, revision |-> Latest(e),
    operation |-> Operation(current[l], e), load |-> loadId[l],
    payload |-> package[l][e]] : e \in ToWrite(l)}
NewRevisions(l) ==
  {[entity |-> e, revision |-> Latest(e) + 1,
    operation |-> Operation(current[l], e), load |-> loadId[l],
    payload |-> package[l][e]] : e \in ToWrite(l)}

(* The revisions, the summary and COMMIT, which replaces the rows of the   *)
(* changed aggregates.  told is "unavailable" when the connection broke    *)
(* after the COMMIT.                                                       *)
FinishLoad(l, told) ==
  /\ step[l] = "finish"
  /\ tables' = [e \in Entities |->
                  IF e \in ToWrite(l) THEN working[l][e] ELSE tables[e]]
  /\ revisions' = revisions \cup NewRevisions(l)
  /\ loads' = [id \in DOMAIN loads \cup {loadId[l]} |->
                 IF id = loadId[l]
                   THEN Summary(current[l], package[l])
                   ELSE loads[id]]
  /\ lost' = [lost EXCEPT ![l] = told = "unavailable"]
  /\ EndLoad(l, told)
  /\ UNCHANGED <<sequence, lookup>>

LoadLost(l) ==
  /\ step[l] # "idle"
  /\ EndLoad(l, "unavailable")
  /\ lost' = [lost EXCEPT ![l] = TRUE]
  /\ UNCHANGED <<tables, revisions, loads, sequence, lookup>>

-----------------------------------------------------------------------------
(* A lookup.                                                               *)

(* The first query of find takes the snapshot and finds the matching rows. *)
FindMatches(q, name) ==
  /\ asks[q] = None
  /\ asks' = [asks EXCEPT ![q] = name]
  /\ asked' = [asked EXCEPT ![q] = Max({0} \cup DOMAIN loads)]
  /\ snapshot' = [snapshot EXCEPT ![q] = tables]
  /\ answer' =
       [answer EXCEPT
          ![q] = [status |-> IF Found(Stored(tables), name) = {}
                               THEN "missing" ELSE "matched",
                  cards |-> None]]
  /\ UNCHANGED <<database, loader>>

(* The remaining queries: aggregates, and the names they refer to.         *)
ReadNamesCommitted(q) ==         (* mutant: no snapshot                    *)
  /\ answer[q].status = "matched"
  /\ answer' =
       [answer EXCEPT
          ![q] = [status |-> "found", cards |-> Cards(Stored(tables), asks[q])]]
  /\ UNCHANGED <<database, loader, asks, asked, snapshot>>
ReadNames(q) ==
  /\ answer[q].status = "matched"
  /\ answer' =
       [answer EXCEPT
          ![q] = [status |-> "found",
                  cards |-> Cards(Stored(snapshot[q]), asks[q])]]
  /\ UNCHANGED <<database, loader, asks, asked, snapshot>>

(* Without a match, has_knowledge asks in a snapshot of its own.           *)
HasKnowledge(q) ==
  /\ answer[q].status = "missing"
  /\ answer' =
       [answer EXCEPT
          ![q] = [status |-> IF loads = [id \in {} |-> None]
                               THEN "unavailable" ELSE "not_found",
                  cards |-> None]]
  /\ UNCHANGED <<database, loader, asks, asked, snapshot>>

LookupLost(q) ==
  /\ answer[q].status \in {"matched", "missing"}
  /\ answer' = [answer EXCEPT ![q] = [status |-> "unavailable", cards |-> None]]
  /\ UNCHANGED <<database, loader, asks, asked, snapshot>>

(* The tool returns the answer.                                            *)
Return(q) ==
  /\ answer[q].status \in {"found", "not_found", "unavailable"}
  /\ asks' = [asks EXCEPT ![q] = None]
  /\ asked' = [asked EXCEPT ![q] = 0]
  /\ snapshot' = [snapshot EXCEPT ![q] = None]
  /\ answer' = [answer EXCEPT ![q] = NoAnswer]
  /\ UNCHANGED <<database, loader>>

-----------------------------------------------------------------------------

Next ==
  \/ \E l \in Loaders, p \in Packages : BeginLoad(l, p)
  \/ \E l \in Loaders : LockKnowledge(l)
  \/ \E l \in Loaders : ReadAll(l)
  \/ \E l \in Loaders : StartLoad(l)
  \/ \E l \in Loaders : DeleteChildren(l)
  \/ \E l \in Loaders : UpsertRoots(l)
  \/ \E l \in Loaders : UpsertFails(l)
  \/ \E l \in Loaders : InsertChildren(l)
  \/ \E l \in Loaders, told \in {"loaded", "unavailable"} : FinishLoad(l, told)
  \/ \E l \in Loaders : LoadLost(l)
  \/ \E q \in Lookups, name \in Names : FindMatches(q, name)
  \/ \E q \in Lookups : ReadNames(q)
  \/ \E q \in Lookups : HasKnowledge(q)
  \/ \E q \in Lookups : LookupLost(q)
  \/ \E q \in Lookups : Return(q)

Spec == Init /\ [][Next]_vars

-----------------------------------------------------------------------------
(* Properties.                                                             *)

(* Whatever loads run beside each other, the stored set obeys all rules,   *)
(* also those that no constraint of the schema knows.                      *)
AlwaysIntegral == Integral(Stored(tables))

(* The rows of an entity after the load, from the journal alone.           *)
AfterLoad(id) ==
  [e \in Entities |->
     LET past == {r \in revisions : r.entity = e /\ r.load <= id}
     IN  IF past = {} THEN None
         ELSE (CHOOSE r \in past : \A s \in past : s.revision <= r.revision).payload]

(* The journal is the history of the tables: revisions of an entity count  *)
(* from 1, in the order of their loads, begin with its creation, differ    *)
(* from the one before, and the last is what is stored.                    *)
JournalReplays ==
  /\ \A e \in Entities :
       /\ {r.revision : r \in {s \in revisions : s.entity = e}} = 1..Latest(e)
       /\ tables[e] # None => Latest(e) > 0 /\ RevisionOf(e, Latest(e)).payload = tables[e]
  /\ \A r, s \in revisions : r.entity = s.entity =>
       /\ r.revision = s.revision => r = s
       /\ r.revision < s.revision => r.load < s.load
       /\ s.revision = r.revision + 1 => r.payload # s.payload
  /\ \A r \in revisions :
       r.operation = "create" <=> r.revision = 1

(* Every load takes effect as one step of the contract, also when loads    *)
(* run beside each other, and one that breaks before its COMMIT leaves     *)
(* nothing.                                                                *)
ImplementsKnowledge == Store!Spec

(* ports.py: lookups "see either the state before it or after it".  The    *)
(* cards of an answer, with the names they show, come from one state.      *)
CardsOfOneState ==
  \A q \in Lookups :
    answer[q].status = "found" =>
      answer[q].cards = Cards(Stored(AfterLoad(asked[q])), asks[q])

(* docs/rag.md: a load ends with 1 when "пакет невалиден, нарушена         *)
(* целостность, БД недоступна или схема не готова": a valid package whose  *)
(* merged set is integral fails only if the database does.                 *)
UnavailableMeansLost ==
  \A l \in Loaders : report[l] = "unavailable" => lost[l]
=============================================================================
