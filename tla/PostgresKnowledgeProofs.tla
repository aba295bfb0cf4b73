---------------------- MODULE PostgresKnowledgeProofs ------------------------
(***************************************************************************)
(* Theorems about PostgresKnowledge, for any packages, loaders and lookups *)
(* and any limits.                                                         *)
(*                                                                         *)
(* The load checks the set it read (Checked) and writes it in pieces       *)
(* (Written); that this is still the stored set when it commits is the     *)
(* advisory lock's doing (Exclusive).  The lock also orders the loads, so  *)
(* the revisions of an entity are numbered in the order of the commits     *)
(* (Journaled, Youngest); a load is then one step of KnowledgeStore, and   *)
(* what a lookup answers is of the state its snapshot had (Answers).       *)
(***************************************************************************)
EXTENDS PostgresKnowledge, SequenceTheorems, TLAPS

USE LoadAssumption

Locking == {"read", "start", "clear", "upsert", "insert", "finish"}
Writing == Locking \ {"read"}

Types ==
  /\ tables \in Rows
  /\ step \in [Loaders -> Steps]
  /\ package \in [Loaders -> Packages \cup {None}]
  /\ DOMAIN working = Loaders /\ DOMAIN current = Loaders

Exclusive == \A l \in Loaders : step[l] \in Locking => lock = l

Checked ==
  \A l \in Loaders :
    /\ step[l] # "idle" => package[l] \in Packages
    /\ step[l] \in Writing =>
         /\ current[l] = Stored(tables)
         /\ Acceptable(current[l], package[l])

Written ==
  \A l \in Loaders : \A e \in ToWrite(l) :
    /\ step[l] = "insert" => working[l][e] = RootRow(e, package[l][e])
    /\ step[l] = "finish" => working[l][e] = package[l][e]

Inv == Types /\ Exclusive /\ Checked /\ Written /\ AlwaysIntegral

-----------------------------------------------------------------------------
(* Knowledge sets.                                                         *)

LEMMA PackageContents ==
  ASSUME NEW p \in Packages, NEW e \in DOMAIN p
  PROVE  e \in Entities /\ p[e] \in Contents /\ p[e] # None
BY DEF IsKnowledge

LEMMA ToWriteIsPackaged ==
  ASSUME NEW l \in Loaders PROVE ToWrite(l) \subseteq DOMAIN package[l]
BY DEF ToWrite, Changed, Added, Updated

LEMMA EmptyIsIntegral ==
  ASSUME NEW rows, \A e \in Entities : rows[e] = None
  PROVE  Integral(Stored(rows))
<1>1. DOMAIN Stored(rows) = {}
  BY DEF Stored
<1> QED
  BY <1>1 DEF Integral, Valid, ReferencesResolve, CanonsMatch, NamesUnique,
              NumbersUnique, InteractionsAmongCast, RelationshipsMatch

(* The root row and the child rows of an entity are its content.           *)
LEMMA RowsOfContents ==
  ASSUME NEW e, NEW c \in Contents
  PROVE  /\ RootRow(e, c) \in Contents
         /\ WithChildren(e, RootRow(e, c), c) = c
<1> DEFINE fields == {"names", "canons", "number", "refs", "ties"}
<1>1. DOMAIN c = fields /\ c = [f \in fields |-> c[f]]
  BY DEF Contents
<1>2. "number" \notin Children(e)
  BY DEF Children, CharacterChildren, PlaceChildren, EpisodeChildren
<1> DEFINE root == RootRow(e, c)
<1>3. root = [f \in fields |-> IF f \in Children(e) THEN {} ELSE c[f]]
  BY <1>1 DEF RootRow
<1>4. root \in Contents
  <2>1. root = [names |-> root.names, canons |-> root.canons,
                number |-> root.number, refs |-> root.refs, ties |-> root.ties]
    BY <1>3
  <2>2. /\ root.names \in SUBSET Names /\ root.canons \in SUBSET Canons
        /\ root.number \in Numbers \cup {None}
        /\ root.refs \in SUBSET (Characters \cup Places)
        /\ root.ties \in SUBSET Ties
    BY <1>2, <1>3 DEF Contents
  <2> QED
    BY <2>1, <2>2 DEF Contents
<1>5. WithChildren(e, root, c) = [f \in fields |-> c[f]]
  BY <1>3 DEF WithChildren
<1> QED
  BY <1>1, <1>4, <1>5

(* Rows that took the changed entities of a package hold the merged set.   *)
LEMMA WritingMerges ==
  ASSUME NEW old, NEW p \in Packages,
         NEW new, new = [e \in Entities |->
           IF e \in Changed(Stored(old), p) THEN p[e] ELSE old[e]]
  PROVE  Stored(new) = Merged(Stored(old), p)
<1> DEFINE merged == Merged(Stored(old), p)
<1>1. DOMAIN Stored(old) = {e \in Entities : old[e] # None}
  BY DEF Stored
<1>2. DOMAIN p \subseteq Entities
  BY DEF IsKnowledge
<1>3. ASSUME NEW e \in Entities
      PROVE  /\ e \in DOMAIN p => new[e] = p[e] /\ new[e] # None
             /\ e \notin DOMAIN p => new[e] = old[e]
  <2>1. CASE e \in DOMAIN p
    <3>1. e \notin Changed(Stored(old), p) => old[e] = p[e]
      BY <1>1, <2>1 DEF Changed, Added, Updated, Stored
    <3> QED
      BY <2>1, <3>1, PackageContents
  <2>2. CASE e \notin DOMAIN p
    BY <2>2 DEF Changed, Added, Updated
  <2> QED
    BY <2>1, <2>2
<1>4. {e \in Entities : new[e] # None} = DOMAIN Stored(old) \cup DOMAIN p
  BY <1>1, <1>2, <1>3
<1>5. \A e \in DOMAIN Stored(old) \cup DOMAIN p :
        new[e] = IF e \in DOMAIN p THEN p[e] ELSE Stored(old)[e]
  BY <1>1, <1>2, <1>3 DEF Stored
<1> QED
  BY <1>4, <1>5 DEF Stored, Merged

-----------------------------------------------------------------------------
(* Steps.                                                                  *)

LEMMA InvInit == Init => Inv
<1> SUFFICES ASSUME Init PROVE Inv
  OBVIOUS
<1>1. AlwaysIntegral
  BY EmptyIsIntegral DEF Init, AlwaysIntegral
<1>2. Types
  BY DEF Init, Types, Rows, Steps
<1> QED
  BY <1>1, <1>2 DEF Init, Inv, Exclusive, Checked, Written, Locking, Writing

(* A load that ends without a COMMIT.                                      *)
LEMMA EndKeeps ==
  ASSUME Inv, NEW l \in Loaders, NEW told, EndLoad(l, told), UNCHANGED tables
  PROVE  Inv'
<1> USE DEF Inv, EndLoad
<1>1. Types'
  BY DEF Types, Steps
<1>2. Exclusive'
  BY DEF Exclusive, Types, Locking
<1>3. Checked'
  BY DEF Checked, Types, Writing, Locking
<1>4. Written'
  BY DEF Written, Types, ToWrite
<1> QED
  BY <1>1, <1>2, <1>3, <1>4 DEF AlwaysIntegral

(* A load that goes on.                                                    *)
LEMMA StepKeeps ==
  ASSUME Inv, NEW l \in Loaders, NEW to \in Steps,
         step' = [step EXCEPT ![l] = to],
         UNCHANGED <<tables, lock, package, current>>,
         step[l] \in Locking, to \in Writing, step[l] \in Writing,
         DOMAIN working' = Loaders,
         \A m \in Loaders \ {l} : working'[m] = working[m],
         \A e \in ToWrite(l) :
           /\ to = "insert" => working'[l][e] = RootRow(e, package[l][e])
           /\ to = "finish" => working'[l][e] = package[l][e]
  PROVE  Inv'
<1> USE DEF Inv
<1>1. Types'
  BY DEF Types
<1>2. Exclusive'
  BY DEF Exclusive, Types
<1>3. Checked'
  BY DEF Checked, Types, Writing, Locking
<1>4. Written'
  BY DEF Written, Types, ToWrite
<1> QED
  BY <1>1, <1>2, <1>3, <1>4 DEF AlwaysIntegral

LEMMA FinishKeeps ==
  ASSUME Inv, NEW l \in Loaders, NEW told, FinishLoad(l, told) PROVE Inv'
<1> USE DEF Inv
<1>1. /\ step[l] = "finish" /\ EndLoad(l, told)
      /\ tables' = [e \in Entities |->
                     IF e \in ToWrite(l) THEN working[l][e] ELSE tables[e]]
  BY DEF FinishLoad
<1>2. /\ package[l] \in Packages /\ current[l] = Stored(tables)
      /\ Acceptable(current[l], package[l]) /\ lock = l
  BY <1>1 DEF Checked, Exclusive, Writing, Locking
<1>3. \A e \in ToWrite(l) : working[l][e] = package[l][e]
  BY <1>1 DEF Written
<1>4. tables' = [e \in Entities |-> IF e \in Changed(Stored(tables), package[l])
                                      THEN package[l][e] ELSE tables[e]]
  BY <1>1, <1>2, <1>3 DEF ToWrite
<1>5. Stored(tables)' = Merged(Stored(tables), package[l])
  <2> DEFINE new == tables'
  <2>1. Stored(new) = Merged(Stored(tables), package[l])
    BY <1>2, <1>4, WritingMerges
  <2> QED
    BY <2>1 DEF Stored
<1>6. AlwaysIntegral'
  BY <1>2, <1>5 DEF AlwaysIntegral, Acceptable, Integral, Valid,
     ReferencesResolve, CanonsMatch, NamesUnique, NumbersUnique,
     InteractionsAmongCast, RelationshipsMatch
<1>7. \A m \in Loaders : step'[m] \notin Locking
  BY <1>1, <1>2 DEF Exclusive, EndLoad, Types, Locking
<1>8. Types'
  <2>1. tables' \in Rows
    BY <1>2, <1>4, PackageContents
    DEF Rows, Types, Changed, Added, Updated
  <2> QED
    BY <1>1, <2>1 DEF Types, EndLoad, Steps
<1>9. Exclusive' /\ Written'
  BY <1>7 DEF Exclusive, Written, Locking
<1>10. Checked'
  BY <1>1, <1>7 DEF Checked, EndLoad, Types, Writing
<1> QED
  BY <1>6, <1>8, <1>9, <1>10

LEMMA BeginKeeps ==
  ASSUME Inv, NEW l \in Loaders, NEW p \in Packages, BeginLoad(l, p)
  PROVE  Inv'
<1> USE DEF Inv
<1>1. /\ step[l] = "idle" /\ step' = [step EXCEPT ![l] = "lock"]
      /\ package' = [package EXCEPT ![l] = p]
      /\ UNCHANGED <<tables, lock, current, working>>
  BY DEF BeginLoad, database
<1>2. Types'
  BY <1>1 DEF Types, Steps
<1>3. Exclusive' /\ Checked'
  BY <1>1 DEF Exclusive, Checked, Types, Locking, Writing
<1>4. Written'
  BY <1>1 DEF Written, Types, ToWrite
<1> QED
  BY <1>1, <1>2, <1>3, <1>4 DEF AlwaysIntegral

LEMMA LockKeeps ==
  ASSUME Inv, NEW l \in Loaders, LockKnowledge(l) PROVE Inv'
<1> USE DEF Inv
<1>1. /\ lock = None /\ lock' = l /\ step[l] = "lock"
      /\ step' = [step EXCEPT ![l] = "read"]
      /\ UNCHANGED <<tables, package, current, working>>
  BY DEF LockKnowledge
<1>2. Types'
  BY <1>1 DEF Types, Steps
<1>3. Exclusive'
  BY <1>1 DEF Exclusive, Types
<1>4. Checked'
  BY <1>1 DEF Checked, Types, Locking, Writing
<1>5. Written'
  BY <1>1 DEF Written, Types, ToWrite
<1> QED
  BY <1>1, <1>2, <1>3, <1>4, <1>5 DEF AlwaysIntegral

LEMMA ReadKeeps ==
  ASSUME Inv, NEW l \in Loaders, ReadAll(l) PROVE Inv'
<1>1. CASE Acceptable(Stored(tables), package[l])
  <2> USE DEF Inv
  <2>1. /\ step[l] = "read" /\ step' = [step EXCEPT ![l] = "start"]
        /\ current' = [current EXCEPT ![l] = Stored(tables)]
        /\ working' = [working EXCEPT ![l] = tables]
        /\ UNCHANGED <<tables, lock, package>>
    BY <1>1 DEF ReadAll
  <2>2. Types'
    BY <2>1 DEF Types, Steps
  <2>3. Exclusive'
    BY <2>1 DEF Exclusive, Types, Locking
  <2>4. Stored(tables)' = Stored(tables)
    BY <2>1 DEF Stored
  <2>5. \A m \in Loaders : /\ m # l => current'[m] = current[m]
                           /\ m = l => current'[m] = Stored(tables)
    BY <2>1 DEF Types
  <2>6. Checked'
    BY <1>1, <2>1, <2>4, <2>5 DEF Checked, Types, Writing, Locking, Acceptable
  <2>7. Written'
    BY <2>1, <2>5 DEF Written, Types, ToWrite
  <2> QED
    BY <2>1, <2>2, <2>3, <2>6, <2>7 DEF AlwaysIntegral
<1>2. CASE ~Acceptable(Stored(tables), package[l])
  BY <1>2, EndKeeps DEF ReadAll
<1> QED
  BY <1>1, <1>2

LEMMA InvNext == Inv /\ [Next]_vars => Inv'
<1> SUFFICES ASSUME Inv, [Next]_vars PROVE Inv'
  OBVIOUS
<1>1. ASSUME NEW l \in Loaders, NEW p \in Packages, BeginLoad(l, p)
      PROVE  Inv'
  BY <1>1, BeginKeeps
<1>2. ASSUME NEW l \in Loaders, LockKnowledge(l) PROVE Inv'
  BY <1>2, LockKeeps
<1>3. ASSUME NEW l \in Loaders, ReadAll(l) PROVE Inv'
  BY <1>3, ReadKeeps
<1>4. ASSUME NEW l \in Loaders, StartLoad(l) PROVE Inv'
  <2>1. PICK to \in {"clear", "finish"} :
          /\ step' = [step EXCEPT ![l] = to]
          /\ to = "finish" => ToWrite(l) = {}
    BY <1>4 DEF StartLoad
  <2>2. to \in Steps /\ to \in Writing /\ to # "insert"
    BY <2>1 DEF Steps, Writing, Locking
  <2>3. step[l] \in Locking /\ step[l] \in Writing
        /\ UNCHANGED <<tables, lock, package, current, working>>
    BY <1>4 DEF StartLoad, Writing, Locking
  <2> QED
    BY <2>1, <2>2, <2>3, StepKeeps DEF Inv, Types
<1>5. ASSUME NEW l \in Loaders, DeleteChildren(l) PROVE Inv'
  <2>1. /\ step[l] = "clear" /\ step' = [step EXCEPT ![l] = "upsert"]
        /\ UNCHANGED <<tables, lock, package, current>>
        /\ DOMAIN working' = Loaders
        /\ \A m \in Loaders \ {l} : working'[m] = working[m]
    BY <1>5 DEF DeleteChildren, database, Inv, Types
  <2> QED
    BY <2>1, StepKeeps DEF Steps, Writing, Locking
<1>6. ASSUME NEW l \in Loaders, UpsertRoots(l) PROVE Inv'
  <2>1. /\ step[l] = "upsert" /\ step' = [step EXCEPT ![l] = "insert"]
        /\ UNCHANGED <<tables, lock, package, current>>
        /\ DOMAIN working' = Loaders
        /\ \A m \in Loaders \ {l} : working'[m] = working[m]
    BY <1>6 DEF UpsertRoots, database, Inv, Types
  <2>2. package[l] \in Packages
    BY <2>1 DEF Inv, Checked
  <2>3. \A e \in ToWrite(l) : e \in Entities
    BY <2>2, ToWriteIsPackaged, PackageContents
  <2>4. \A e \in ToWrite(l) : working'[l][e] = RootRow(e, package[l][e])
    BY <1>6, <2>3 DEF UpsertRoots, Inv, Types
  <2> QED
    BY <2>1, <2>4, StepKeeps DEF Steps, Writing, Locking
<1>7. ASSUME NEW l \in Loaders, UpsertFails(l) PROVE Inv'
  BY <1>7, EndKeeps DEF UpsertFails
<1>8. ASSUME NEW l \in Loaders, InsertChildren(l) PROVE Inv'
  <2>1. /\ step[l] = "insert" /\ step' = [step EXCEPT ![l] = "finish"]
        /\ UNCHANGED <<tables, lock, package, current>>
        /\ DOMAIN working' = Loaders
        /\ \A m \in Loaders \ {l} : working'[m] = working[m]
    BY <1>8 DEF InsertChildren, database, Inv, Types
  <2>2. package[l] \in Packages
    BY <2>1 DEF Inv, Checked
  <2>3. ASSUME NEW e \in ToWrite(l) PROVE working'[l][e] = package[l][e]
    <3>1. e \in Entities /\ package[l][e] \in Contents
      BY <2>2, ToWriteIsPackaged, PackageContents
    <3>2. working'[l][e] = WithChildren(e, working[l][e], package[l][e])
      BY <1>8, <3>1 DEF InsertChildren, Inv, Types
    <3>3. working[l][e] = RootRow(e, package[l][e])
      BY <2>1 DEF Inv, Written
    <3> QED
      BY <3>1, <3>2, <3>3, RowsOfContents
  <2> QED
    BY <2>1, <2>3, StepKeeps DEF Steps, Writing, Locking
<1>9. ASSUME NEW l \in Loaders, NEW told \in {"loaded", "unavailable"},
             FinishLoad(l, told)
      PROVE  Inv'
  BY <1>9, FinishKeeps
<1>10. ASSUME NEW l \in Loaders, LoadLost(l) PROVE Inv'
  BY <1>10, EndKeeps DEF LoadLost
<1>11. CASE UNCHANGED <<database, loader>>
  BY <1>11 DEF database, loader, Inv, Types, Exclusive, Checked, Written,
               ToWrite, AlwaysIntegral, Stored
<1>12. ASSUME NEW q \in Lookups,
              \/ \E name \in Names : FindMatches(q, name)
              \/ ReadNames(q) \/ HasKnowledge(q) \/ LookupLost(q) \/ Return(q)
       PROVE  Inv'
  BY <1>11, <1>12 DEF FindMatches, ReadNames, HasKnowledge, LookupLost, Return
<1> QED
  BY <1>1, <1>2, <1>3, <1>4, <1>5, <1>6, <1>7, <1>8, <1>9, <1>10, <1>11, <1>12
  DEF Next, vars

(* Whatever loads run beside each other and wherever they break, the       *)
(* stored set obeys all rules: the one that was checked is the one that is *)
(* merged into.                                                            *)
THEOREM StoredSetIsIntegral == Spec => []AlwaysIntegral
<1>1. Inv => AlwaysIntegral
  BY DEF Inv
<1> QED
  BY <1>1, InvInit, InvNext, PTL DEF Spec

-----------------------------------------------------------------------------
(* The journal.  Only who holds the advisory lock gets a load id, so the   *)
(* id of an unfinished load is greater than all that are committed         *)
(* (Youngest), and the revision a load adds comes last.                    *)

OfEntity(e) == {r \in revisions : r.entity = e}
Counted(e) == {r.revision : r \in OfEntity(e)}

Journaled ==
  /\ revisions \subseteq Revisions
  /\ \A e \in Entities :
       /\ Latest(e) \in Nat /\ Counted(e) = 1..Latest(e)
       /\ tables[e] = None <=> Latest(e) = 0
  /\ \A r \in revisions :
       /\ r.revision = Latest(r.entity) => r.payload = tables[r.entity]
       /\ r.operation = "create" <=> r.revision = 1
  /\ \A r, s \in revisions : r.entity = s.entity =>
       /\ r.revision = s.revision => r = s
       /\ r.revision < s.revision => r.load < s.load
       /\ s.revision = r.revision + 1 => r.payload # s.payload

Youngest ==
  /\ sequence \in LoadIds \cup {0}
  /\ DOMAIN loads \subseteq LoadIds
  /\ \A id \in DOMAIN loads : id <= sequence
  /\ \A r \in revisions : r.load \in DOMAIN loads
  /\ \A l \in Loaders : step[l] \in {"clear", "upsert", "insert", "finish"} =>
       /\ loadId[l] = sequence /\ sequence \in LoadIds
       /\ \A id \in DOMAIN loads : id < sequence
  /\ DOMAIN loadId = Loaders

JournalInv == Inv /\ Journaled /\ Youngest

LEMMA LatestIs ==
  ASSUME NEW n \in Nat, NEW numbers, numbers = 1..n
  PROVE  Max({0} \cup numbers) = n
<1>1. n \in {0} \cup numbers /\ \A x \in {0} \cup numbers : n >= x
  OBVIOUS
<1>2. \A m \in {0} \cup numbers : (\A x \in {0} \cup numbers : m >= x) => m = n
  BY <1>1
<1> QED
  BY <1>1, <1>2 DEF Max

LEMMA JournalInit == Init => JournalInv
<1> SUFFICES ASSUME Init PROVE JournalInv
  OBVIOUS
<1>1. \A e \in Entities : Counted(e) = {} /\ Latest(e) = 0
  <2>1. \A e \in Entities : {r.revision : r \in {q \in revisions : q.entity = e}} = 1..0
    BY DEF Init
  <2>2. \A e \in Entities :
          Max({0} \cup {r.revision : r \in {q \in revisions : q.entity = e}}) = 0
    BY <2>1, LatestIs
  <2> QED
    BY <2>1, <2>2 DEF Counted, OfEntity, Latest
<1>2. Journaled
  <2>0. 1..0 = {} /\ \A e \in Entities : tables[e] = None
    BY DEF Init
  <2>1. \A e \in Entities : (tables[e] = None <=> Latest(e) = 0)
                           /\ Latest(e) \in Nat /\ Counted(e) = 1..Latest(e)
    BY <1>1, <2>0
  <2>2. revisions = {}
    BY DEF Init
  <2> QED
    BY <2>1, <2>2 DEF Journaled
<1>3. Youngest
  BY DEF Init, Youngest
<1> QED
  BY <1>2, <1>3, InvInit DEF JournalInv

(* What a load appends.                                                    *)
LEMMA Appended ==
  ASSUME JournalInv, NEW l \in Loaders, NEW told, FinishLoad(l, told),
         NEW p, p = package[l], NEW id, id = loadId[l]
  PROVE  /\ p \in Packages /\ id \in LoadIds /\ ToWrite(l) \subseteq DOMAIN p
         /\ current[l] = Stored(tables)
         /\ ToWrite(l) = Changed(Stored(tables), p)
         /\ revisions' = revisions \cup NewRevisions(l)
         /\ NewRevisions(l) \subseteq Revisions
         /\ \A r \in NewRevisions(l) :
              /\ r.entity \in ToWrite(l) /\ r.revision = Latest(r.entity) + 1
              /\ r.load = id /\ r.payload = p[r.entity]
              /\ r.operation = Operation(Stored(tables), r.entity)
         /\ \A e \in ToWrite(l) : \E r \in NewRevisions(l) : r.entity = e
         /\ \A e \in ToWrite(l) : tables'[e] = p[e]
         /\ \A e \in Entities \ ToWrite(l) : tables'[e] = tables[e]
<1>1. step[l] = "finish"
  BY DEF FinishLoad
<1>2. /\ p \in Packages /\ current[l] = Stored(tables)
      /\ id \in LoadIds /\ ToWrite(l) \subseteq DOMAIN p
  BY <1>1, ToWriteIsPackaged
  DEF JournalInv, Inv, Checked, Writing, Locking, Youngest
<1>3. \A e \in ToWrite(l) : /\ e \in Entities /\ p[e] \in Contents
                            /\ working[l][e] = p[e]
                            /\ Latest(e) \in Nat
  BY <1>1, <1>2, PackageContents DEF JournalInv, Inv, Written, Journaled
<1>4. NewRevisions(l) \subseteq Revisions
  <2>1. \A e \in ToWrite(l) :
          [entity |-> e, revision |-> Latest(e) + 1,
           operation |-> Operation(current[l], e), load |-> loadId[l],
           payload |-> package[l][e]] \in Revisions
    <3>1. \A e : Operation(current[l], e) \in {"create", "update"}
      BY DEF Operation
    <3> QED
      BY <1>2, <1>3, <3>1 DEF Revisions
  <2> QED
    BY <2>1 DEF NewRevisions
<1>5. \A r \in NewRevisions(l) :
        /\ r.entity \in ToWrite(l) /\ r.revision = Latest(r.entity) + 1
        /\ r.load = id /\ r.payload = p[r.entity]
        /\ r.operation = Operation(Stored(tables), r.entity)
  BY <1>2 DEF NewRevisions
<1>6. \A e \in ToWrite(l) : \E r \in NewRevisions(l) : r.entity = e
  <2> SUFFICES ASSUME NEW e \in ToWrite(l)
               PROVE  \E r \in NewRevisions(l) : r.entity = e
    OBVIOUS
  <2>1. PICK new : new = [entity |-> e, revision |-> Latest(e) + 1,
                          operation |-> Operation(current[l], e),
                          load |-> loadId[l], payload |-> package[l][e]]
    OBVIOUS
  <2>2. new \in NewRevisions(l) /\ new.entity = e
    BY <2>1 DEF NewRevisions
  <2> QED
    BY <2>2
<1>7. revisions' = revisions \cup NewRevisions(l)
  BY DEF FinishLoad
<1>8. /\ \A e \in ToWrite(l) : tables'[e] = p[e]
      /\ \A e \in Entities \ ToWrite(l) : tables'[e] = tables[e]
  BY <1>3 DEF FinishLoad
<1>9. ToWrite(l) = Changed(Stored(tables), p)
  BY <1>2 DEF ToWrite
<1> QED
  BY <1>2, <1>4, <1>5, <1>6, <1>7, <1>8, <1>9

(* Each written entity gets the next number, the others keep theirs.       *)
LEMMA NextNumbers ==
  ASSUME JournalInv, NEW l \in Loaders, NEW told, FinishLoad(l, told),
         NEW e \in Entities
  PROVE  /\ Latest(e)' = IF e \in ToWrite(l) THEN Latest(e) + 1 ELSE Latest(e)
         /\ Counted(e)' = 1..Latest(e)'
<1>1. PICK n : n = Latest(e) /\ n \in Nat /\ Counted(e) = 1..n
  BY DEF JournalInv, Journaled
<1>2. PICK after :
        /\ after = {r.revision : r \in {q \in revisions' : q.entity = e}}
        /\ after = IF e \in ToWrite(l) THEN 1..(n + 1) ELSE 1..n
  <2>0. 1..(n + 1) = (1..n) \cup {n + 1}
    BY <1>1
  <2>1. CASE e \in ToWrite(l)
    <3>1. \E r \in NewRevisions(l) : r.entity = e
      BY <2>1, Appended
    <3>2. \A r \in NewRevisions(l) : r.entity = e => r.revision = n + 1
      BY <1>1, Appended
    <3>3. revisions' = revisions \cup NewRevisions(l)
      BY Appended
    <3>4. {r.revision : r \in {q \in revisions' : q.entity = e}}
            = Counted(e) \cup {n + 1}
      BY <3>1, <3>2, <3>3 DEF Counted, OfEntity
    <3> QED
      BY <1>1, <2>0, <2>1, <3>4
  <2>2. CASE e \notin ToWrite(l)
    <3>1. \A r \in NewRevisions(l) : r.entity # e
      BY <2>2, Appended
    <3>2. revisions' = revisions \cup NewRevisions(l)
      BY Appended
    <3>3. {r.revision : r \in {q \in revisions' : q.entity = e}} = Counted(e)
      BY <3>1, <3>2 DEF Counted, OfEntity
    <3> QED
      BY <1>1, <2>2, <3>3
  <2> QED
    BY <2>1, <2>2
<1>3. PICK m \in Nat : m = (IF e \in ToWrite(l) THEN n + 1 ELSE n) /\ after = 1..m
  <2>1. CASE e \in ToWrite(l)
    BY <1>1, <1>2, <2>1
  <2>2. CASE e \notin ToWrite(l)
    BY <1>1, <1>2, <2>2
  <2> QED
    BY <2>1, <2>2
<1>4. Max({0} \cup after) = m
  BY <1>3, LatestIs
<1>5. Latest(e)' = m
  BY <1>2, <1>4 DEF Latest
<1>6. Counted(e)' = 1..m
  BY <1>2, <1>3 DEF Counted, OfEntity
<1> QED
  BY <1>1, <1>3, <1>5, <1>6

LEMMA FinishJournaled ==
  ASSUME JournalInv, NEW l \in Loaders, NEW told, FinishLoad(l, told)
  PROVE  Journaled'
<1>0. PICK p, id, new, top, over :
        /\ p = package[l] /\ id = loadId[l] /\ new = NewRevisions(l)
        /\ top = [e \in Entities |-> Latest(e)]
        /\ over = [e \in Entities |-> Latest(e)']
  OBVIOUS
<1>1. /\ p \in Packages /\ ToWrite(l) \subseteq DOMAIN p
      /\ ToWrite(l) = Changed(Stored(tables), p)
      /\ revisions' = revisions \cup new
      /\ new \subseteq Revisions
      /\ \A r \in new :
           /\ r.entity \in ToWrite(l) /\ r.revision = Latest(r.entity) + 1
           /\ r.load = id /\ r.payload = p[r.entity]
           /\ r.operation = Operation(Stored(tables), r.entity)
      /\ \A e \in ToWrite(l) : tables'[e] = p[e]
      /\ \A e \in Entities \ ToWrite(l) : tables'[e] = tables[e]
  BY <1>0, Appended
<1>2. \A e \in ToWrite(l) : e \in Entities /\ p[e] # None
  BY <1>1, PackageContents
<1>3. /\ revisions \subseteq Revisions
      /\ \A e \in Entities : top[e] \in Nat /\ (tables[e] = None <=> top[e] = 0)
      /\ \A r \in revisions :
           /\ r.entity \in Entities /\ r.revision \in 1..top[r.entity]
           /\ r.revision = top[r.entity] => r.payload = tables[r.entity]
           /\ r.operation = "create" <=> r.revision = 1
      /\ \A r, q \in revisions : r.entity = q.entity =>
           /\ r.revision = q.revision => r = q
           /\ r.revision < q.revision => r.load < q.load
           /\ q.revision = r.revision + 1 => r.payload # q.payload
  <2>1. \A r \in revisions : r.entity \in Entities
    BY DEF JournalInv, Journaled, Revisions
  <2>2. \A r \in revisions : r.revision \in Counted(r.entity)
    BY DEF Counted, OfEntity
  <2>3. \A e \in Entities : top[e] = Latest(e) /\ Counted(e) = 1..top[e]
    BY <1>0 DEF JournalInv, Journaled
  <2> QED
    BY <2>1, <2>2, <2>3 DEF JournalInv, Journaled
<1>4. \A r \in revisions : r.load < id
  BY <1>0 DEF JournalInv, Youngest, FinishLoad
<1>5. \A e \in Entities :
        /\ over[e] = Latest(e)'
        /\ over[e] = IF e \in ToWrite(l) THEN top[e] + 1 ELSE top[e]
        /\ Counted(e)' = 1..over[e]
  <2>1. \A e \in Entities :
          /\ Latest(e)' = IF e \in ToWrite(l) THEN Latest(e) + 1 ELSE Latest(e)
          /\ Counted(e)' = 1..Latest(e)'
    BY NextNumbers
  <2> QED
    BY <1>0, <2>1
<1>6. \A r \in new : /\ r.entity \in Entities
                     /\ r.revision = top[r.entity] + 1
  BY <1>0, <1>1, <1>2
<1>7. \A r \in new : r.operation = "create" <=> top[r.entity] = 0
  <2>1. \A e \in Entities : e \in DOMAIN Stored(tables) <=> tables[e] # None
    BY DEF Stored
  <2> QED
    BY <1>1, <1>3, <1>6, <2>1 DEF Operation
<1>8. \A e \in ToWrite(l) : tables[e] # p[e]
  <2>1. \A e \in DOMAIN Stored(tables) : Stored(tables)[e] = tables[e]
    BY DEF Stored
  <2>2. \A e \in Entities \ DOMAIN Stored(tables) : tables[e] = None
    BY DEF Stored
  <2> QED
    BY <1>1, <1>2, <2>1, <2>2 DEF Changed, Added, Updated
<1>9. \A e \in Entities :
        /\ Latest(e)' \in Nat /\ Counted(e)' = 1..Latest(e)'
        /\ tables'[e] = None <=> Latest(e)' = 0
  <2>1. \A e \in Entities : over[e] \in Nat /\ (tables'[e] = None <=> over[e] = 0)
    BY <1>1, <1>2, <1>3, <1>5
  <2> QED
    BY <1>5, <2>1
<1>10. \A r \in revisions' :
         /\ r.revision = Latest(r.entity)' => r.payload = tables'[r.entity]
         /\ r.operation = "create" <=> r.revision = 1
  <2>1. ASSUME NEW r \in revisions, r.revision = over[r.entity]
        PROVE  r.payload = tables'[r.entity]
    BY <1>1, <1>3, <1>5, <2>1
  <2>2. ASSUME NEW r \in new
        PROVE  r.payload = tables'[r.entity] /\ (r.operation = "create" <=> r.revision = 1)
    BY <1>1, <1>3, <1>6, <1>7
  <2>3. \A r \in revisions' : r.entity \in Entities
                             /\ Latest(r.entity)' = over[r.entity]
    BY <1>1, <1>3, <1>5, <1>6
  <2> QED
    BY <1>1, <1>3, <2>1, <2>2, <2>3
<1>11. \A r, q \in revisions' : r.entity = q.entity =>
         /\ r.revision = q.revision => r = q
         /\ r.revision < q.revision => r.load < q.load
         /\ q.revision = r.revision + 1 => r.payload # q.payload
  <2>1. ASSUME NEW r \in revisions, NEW q \in new, r.entity = q.entity
        PROVE  /\ r.revision < q.revision /\ r.load < q.load
               /\ q.revision = r.revision + 1 => r.payload # q.payload
    <3>1. r.revision \in 1..top[r.entity] /\ q.revision = top[r.entity] + 1
          /\ top[r.entity] \in Nat
      BY <1>3, <1>6, <2>1
    <3>2. q.revision = r.revision + 1 => r.revision = top[r.entity]
      BY <3>1
    <3>3. r.revision = top[r.entity] => r.payload # q.payload
      BY <1>1, <1>3, <1>8, <2>1
    <3>4. r.load < q.load
      BY <1>1, <1>4
    <3> QED
      BY <3>1, <3>2, <3>3, <3>4
  <2>2. ASSUME NEW r \in new, NEW q \in new, r.entity = q.entity
        PROVE  r = q
    <3>1. r \in Revisions /\ q \in Revisions
      BY <1>1
    <3>2. /\ r.revision = q.revision /\ r.load = q.load
          /\ r.payload = q.payload /\ r.operation = q.operation
      BY <1>1, <2>2
    <3> QED
      BY <2>2, <3>1, <3>2 DEF Revisions
  <2>3. \A r \in revisions' : r.revision \in Nat /\ r.load \in Nat
    BY <1>1, <1>3 DEF Revisions
  <2>4. \A r \in revisions' : r \in revisions \/ r \in new
    BY <1>1
  <2>5. \A r, q \in revisions' : r.entity = q.entity =>
          \/ r \in revisions /\ q \in revisions
          \/ r.revision < q.revision /\ r.load < q.load
               /\ (q.revision = r.revision + 1 => r.payload # q.payload)
          \/ q.revision < r.revision
          \/ r = q
    BY <2>1, <2>2, <2>4
  <2>6. ASSUME NEW r \in revisions', NEW q \in revisions', r.entity = q.entity
        PROVE  /\ r.revision = q.revision => r = q
               /\ r.revision < q.revision => r.load < q.load
               /\ q.revision = r.revision + 1 => r.payload # q.payload
    <3>1. CASE r \in revisions /\ q \in revisions
      BY <1>3, <2>6, <3>1
    <3>2. CASE r.revision < q.revision /\ r.load < q.load
               /\ (q.revision = r.revision + 1 => r.payload # q.payload)
      BY <2>3, <3>2
    <3>3. CASE q.revision < r.revision
      BY <2>3, <3>3
    <3>4. CASE r = q
      BY <2>3, <3>4
    <3> QED
      BY <2>5, <2>6, <3>1, <3>2, <3>3, <3>4
  <2> QED
    BY <2>6
<1>12. revisions' \subseteq Revisions
  BY <1>1, <1>3
<1> QED
  BY <1>9, <1>10, <1>11, <1>12 DEF Journaled

LEMMA SameJournal ==
  ASSUME JournalInv, UNCHANGED <<tables, revisions>> PROVE Journaled'
BY DEF JournalInv, Journaled, Latest, Counted, OfEntity

(* Ids of loads that have not committed are not used again.                *)
LEMMA EndYoungest ==
  ASSUME JournalInv, NEW l \in Loaders, NEW told, EndLoad(l, told),
         UNCHANGED <<revisions, loads, sequence>>
  PROVE  Youngest'
BY DEF JournalInv, Inv, Types, Youngest, EndLoad

LEMMA StepYoungest ==
  ASSUME JournalInv, NEW l \in Loaders, NEW to,
         step' = [step EXCEPT ![l] = to],
         \/ to \in {"lock", "read", "start"}
         \/ step[l] \in {"clear", "upsert", "insert", "finish"},
         UNCHANGED <<revisions, loads, sequence, loadId>>
  PROVE  Youngest'
BY DEF JournalInv, Inv, Types, Youngest

LEMMA StartYoungest ==
  ASSUME JournalInv, NEW l \in Loaders, StartLoad(l) PROVE Youngest'
<1>1. /\ step[l] = "start" /\ sequence + 1 \in LoadIds
      /\ sequence' = sequence + 1
      /\ loadId' = [loadId EXCEPT ![l] = sequence + 1]
      /\ step' \in [Loaders -> Steps] /\ \A m \in Loaders \ {l} : step'[m] = step[m]
      /\ UNCHANGED <<revisions, loads>>
  BY DEF StartLoad, JournalInv, Inv, Types, Steps
<1>2. /\ sequence \in Nat /\ DOMAIN loads \subseteq Nat
      /\ \A id \in DOMAIN loads : id < sequence + 1
  <2>1. sequence \in Nat /\ DOMAIN loads \subseteq Nat
    <3>1. LoadIds \subseteq Nat
      BY LoadAssumption
    <3>2. sequence \in LoadIds \cup {0} /\ DOMAIN loads \subseteq LoadIds
      BY DEF JournalInv, Youngest
    <3>3. DOMAIN loads \subseteq Nat
      BY <3>1, <3>2, Zenon
    <3>4. sequence \in Nat
      BY <3>1, <3>2
    <3> QED
      BY <3>3, <3>4
  <2>2. \A id \in DOMAIN loads : id <= sequence
    BY DEF JournalInv, Youngest
  <2>3. \A id \in Nat : id <= sequence => id < sequence + 1
    BY <2>1
  <2> QED
    BY <2>1, <2>2, <2>3
<1>3. \A m \in Loaders \ {l} : step[m] \notin Locking
  BY <1>1 DEF JournalInv, Inv, Exclusive, Locking
<1>4. ASSUME NEW m \in Loaders,
             step'[m] \in {"clear", "upsert", "insert", "finish"}
      PROVE  m = l
  BY <1>1, <1>3, <1>4 DEF Locking
<1>5. loadId'[l] = sequence + 1 /\ DOMAIN loadId' = Loaders
  BY <1>1 DEF JournalInv, Youngest
<1>6. \A r \in revisions' : r.load \in DOMAIN loads'
  BY <1>1 DEF JournalInv, Youngest
<1>7. \A id \in DOMAIN loads' : id <= sequence'
  BY <1>1, <1>2
<1>8. DOMAIN loads' \subseteq LoadIds
  BY <1>1 DEF JournalInv, Youngest
<1> QED
  BY <1>1, <1>2, <1>4, <1>5, <1>6, <1>7, <1>8 DEF Youngest

LEMMA FinishYoungest ==
  ASSUME JournalInv, NEW l \in Loaders, NEW told, FinishLoad(l, told)
  PROVE  Youngest'
<1>0. PICK id : id = loadId[l]
  OBVIOUS
<1>1. /\ step[l] = "finish" /\ EndLoad(l, told) /\ sequence' = sequence
      /\ revisions' = revisions \cup NewRevisions(l)
      /\ DOMAIN loads' = DOMAIN loads \cup {id}
  BY <1>0 DEF FinishLoad
<1>2. /\ id = sequence /\ id \in LoadIds
      /\ \A r \in NewRevisions(l) : r.load = id
  BY <1>0, <1>1, Appended DEF JournalInv, Youngest
<1>3. \A m \in Loaders : step'[m] \notin Locking
  BY <1>1 DEF JournalInv, Inv, Exclusive, EndLoad, Types, Locking
<1>4. DOMAIN loadId' = Loaders
  BY <1>1 DEF JournalInv, Youngest, EndLoad
<1>5. \A r \in revisions' : r.load \in DOMAIN loads'
  BY <1>1, <1>2 DEF JournalInv, Youngest
<1>6. /\ DOMAIN loads' \subseteq LoadIds
      /\ \A i \in DOMAIN loads' : i <= sequence'
  BY <1>1, <1>2 DEF JournalInv, Youngest
<1> QED
  BY <1>1, <1>3, <1>4, <1>5, <1>6 DEF JournalInv, Youngest, Locking

LEMMA JournalNext == JournalInv /\ [Next]_vars => JournalInv'
<1> SUFFICES ASSUME JournalInv, [Next]_vars PROVE Journaled' /\ Youngest'
  BY InvNext DEF JournalInv
<1>1. ASSUME NEW l \in Loaders, NEW told, FinishLoad(l, told)
      PROVE  Journaled' /\ Youngest'
  BY <1>1, FinishJournaled, FinishYoungest
<1>2. ASSUME NEW l \in Loaders, StartLoad(l) PROVE Journaled' /\ Youngest'
  BY <1>2, SameJournal, StartYoungest DEF StartLoad
<1>3. ASSUME NEW l \in Loaders,
             UpsertFails(l) \/ LoadLost(l)
               \/ (ReadAll(l) /\ ~Acceptable(Stored(tables), package[l]))
      PROVE  Journaled' /\ Youngest'
  BY <1>3, SameJournal, EndYoungest DEF UpsertFails, LoadLost, ReadAll
<1>4. ASSUME NEW l \in Loaders,
             \/ \E p \in Packages : BeginLoad(l, p)
             \/ LockKnowledge(l)
             \/ ReadAll(l) /\ Acceptable(Stored(tables), package[l])
             \/ DeleteChildren(l) \/ UpsertRoots(l) \/ InsertChildren(l)
      PROVE  Journaled' /\ Youngest'
  <2>1. \E to : /\ step' = [step EXCEPT ![l] = to]
                /\ \/ to \in {"lock", "read", "start"}
                   \/ step[l] \in {"clear", "upsert", "insert", "finish"}
    BY <1>4 DEF BeginLoad, LockKnowledge, ReadAll, DeleteChildren, UpsertRoots,
                InsertChildren
  <2>2. UNCHANGED <<tables, revisions, loads, sequence, loadId>>
    BY <1>4 DEF BeginLoad, LockKnowledge, ReadAll, DeleteChildren, UpsertRoots,
                InsertChildren, database
  <2> QED
    BY <2>1, <2>2, SameJournal, StepYoungest
<1>5. ASSUME UNCHANGED <<database, loader>> PROVE Journaled' /\ Youngest'
  BY <1>5, SameJournal DEF database, loader, JournalInv, Youngest
<1>6. ASSUME NEW q \in Lookups,
             \/ \E name \in Names : FindMatches(q, name)
             \/ ReadNames(q) \/ HasKnowledge(q) \/ LookupLost(q) \/ Return(q)
      PROVE  UNCHANGED <<database, loader>>
  BY <1>6 DEF FindMatches, ReadNames, HasKnowledge, LookupLost, Return
<1> QED
  BY <1>1, <1>2, <1>3, <1>4, <1>5, <1>6 DEF Next, vars

LEMMA JournalCorrect == Spec => []JournalInv
BY JournalInit, JournalNext, PTL DEF Spec

LEMMA LastRevision ==
  ASSUME JournalInv, NEW e \in Entities, NEW n \in 1..Latest(e)
  PROVE  /\ RevisionOf(e, n) \in revisions
         /\ RevisionOf(e, n).entity = e /\ RevisionOf(e, n).revision = n
<1>1. n \in Counted(e)
  BY DEF JournalInv, Journaled
<1>2. \E r \in revisions : r.entity = e /\ r.revision = n
  BY <1>1 DEF Counted, OfEntity
<1> QED
  BY <1>2 DEF RevisionOf

(* The journal is the history of the tables, with any number of loads      *)
(* beside each other, lost and repeated.                                   *)
THEOREM JournalIsHistory == Spec => []JournalReplays
<1>1. JournalInv => JournalReplays
  <2> SUFFICES ASSUME JournalInv PROVE JournalReplays
    OBVIOUS
  <2>1. ASSUME NEW e \in Entities
        PROVE  /\ {r.revision : r \in {s \in revisions : s.entity = e}} = 1..Latest(e)
               /\ tables[e] # None =>
                    /\ Latest(e) > 0
                    /\ RevisionOf(e, Latest(e)).payload = tables[e]
    <3>1. PICK n : n = Latest(e) /\ n \in Nat
      BY DEF JournalInv, Journaled
    <3>2. ASSUME tables[e] # None
          PROVE  n > 0 /\ RevisionOf(e, n).payload = tables[e]
      <4>1. n > 0 /\ n \in 1..Latest(e)
        BY <3>1, <3>2 DEF JournalInv, Journaled
      <4> QED
        BY <3>1, <4>1, LastRevision DEF JournalInv, Journaled
    <3> QED
      BY <3>1, <3>2 DEF JournalInv, Journaled, Counted, OfEntity
  <2> QED
    BY <2>1 DEF JournalReplays, JournalInv, Journaled
<1> QED
  BY <1>1, JournalCorrect, PTL

-----------------------------------------------------------------------------
(* The refinement.  A load takes effect with its COMMIT.                   *)

Entries ==
  [operation : {"create", "update"}, load : LoadIds, payload : Contents]

LEMMA JournalIsSequence ==
  ASSUME JournalInv, NEW e \in Entities, NEW n, n = Latest(e)
  PROVE  /\ n \in Nat /\ Journal(e) \in Seq(Entries) /\ Len(Journal(e)) = n
         /\ \A r \in revisions : r.entity = e =>
              /\ r.revision \in 1..n
              /\ Journal(e)[r.revision] = [operation |-> r.operation,
                                           load |-> r.load, payload |-> r.payload]
<1>1. n \in Nat
  BY DEF JournalInv, Journaled
<1>2. \A r \in revisions : r \in Revisions
  BY DEF JournalInv, Journaled
<1>3. ASSUME NEW k \in 1..n PROVE Journal(e)[k] \in Entries
  <2>1. PICK r : r = RevisionOf(e, k) /\ r \in Revisions
    BY <1>2, LastRevision
  <2>2. Journal(e)[k] = [operation |-> r.operation, load |-> r.load,
                         payload |-> r.payload]
    BY <2>1 DEF Journal
  <2> QED
    BY <2>1, <2>2 DEF Revisions, Entries
<1>4. Journal(e) \in [1..n -> Entries]
  BY <1>3 DEF Journal
<1>5. Journal(e) \in Seq(Entries) /\ Len(Journal(e)) = n
  <2>1. Journal(e) \in Seq(Entries)
    BY <1>1, <1>4, SeqDef
  <2> QED
    BY <1>1, <1>4, <2>1, LenProperties
<1>6. ASSUME NEW r \in revisions, r.entity = e
      PROVE  /\ r.revision \in 1..n
             /\ Journal(e)[r.revision] = [operation |-> r.operation,
                                          load |-> r.load, payload |-> r.payload]
  <2>1. r.revision \in 1..n
    BY <1>6 DEF JournalInv, Journaled, Counted, OfEntity
  <2>2. RevisionOf(e, r.revision) = r
    BY <1>6, <2>1, LastRevision DEF JournalInv, Journaled
  <2> QED
    BY <2>1, <2>2 DEF Journal
<1> QED
  BY <1>1, <1>5, <1>6

(* The same after a step.                                                  *)
LEMMA JournalIsSequenceNext ==
  ASSUME JournalInv', NEW e \in Entities, NEW n, n = Latest(e)'
  PROVE  /\ n \in Nat /\ Journal(e)' \in Seq(Entries) /\ Len(Journal(e)') = n
         /\ \A r \in revisions' : r.entity = e =>
              /\ r.revision \in 1..n
              /\ Journal(e)'[r.revision] = [operation |-> r.operation,
                                            load |-> r.load, payload |-> r.payload]
<1>1. /\ n \in Nat
      /\ {r.revision : r \in {q \in revisions' : q.entity = e}} = 1..n
      /\ \A r \in revisions' : r \in Revisions
      /\ \A r, q \in revisions' : r.entity = q.entity =>
           (r.revision = q.revision => r = q)
  BY DEF JournalInv, Journaled, Counted, OfEntity
<1>2. PICK after : after = [k \in 1..n |->
        LET r == CHOOSE q \in revisions' : q.entity = e /\ q.revision = k
        IN  [operation |-> r.operation, load |-> r.load, payload |-> r.payload]]
  OBVIOUS
<1>3. Journal(e)' = after
  BY <1>2 DEF Journal, RevisionOf
<1>4. ASSUME NEW r \in revisions', r.entity = e
      PROVE  /\ r.revision \in 1..n
             /\ after[r.revision] = [operation |-> r.operation,
                                     load |-> r.load, payload |-> r.payload]
  <2>1. r.revision \in 1..n
    BY <1>1, <1>4
  <2>2. (CHOOSE q \in revisions' : q.entity = e /\ q.revision = r.revision) = r
    BY <1>1, <1>4
  <2> QED
    BY <1>2, <2>1, <2>2
<1>5. \A k \in 1..n : after[k] \in Entries
  <2>1. \A k \in 1..n : \E r \in revisions' : r.entity = e /\ r.revision = k
    BY <1>1
  <2>2. ASSUME NEW k \in 1..n PROVE after[k] \in Entries
    <3>1. PICK r \in revisions' : r.entity = e /\ r.revision = k
      BY <2>1
    <3>2. after[k] = [operation |-> r.operation, load |-> r.load,
                      payload |-> r.payload]
      BY <1>4, <3>1
    <3>3. r \in Revisions
      BY <1>1
    <3> QED
      BY <3>2, <3>3 DEF Revisions, Entries
  <2> QED
    BY <2>2
<1>6. after \in [1..n -> Entries]
  BY <1>2, <1>5
<1>7. after \in Seq(Entries)
  BY <1>1, <1>6, SeqDef
<1>8. Len(after) = n
  BY <1>1, <1>6, <1>7, LenProperties
<1> QED
  BY <1>1, <1>3, <1>4, <1>7, <1>8

LEMMA SameRules ==
  ASSUME NEW k, NEW p
  PROVE  /\ Store!Merged(k, p) = Merged(k, p)
         /\ Store!Integral(k) <=> Integral(k)
         /\ Store!Changed(k, p) = Changed(k, p)
         /\ Store!Summary(k, p) = Summary(k, p)
         /\ \A e : Store!Operation(k, e) = Operation(k, e)
<1>1. Store!Merged(k, p) = Merged(k, p)
  BY DEF Store!Merged, Merged
<1>2. Store!Integral(k) <=> Integral(k)
  BY DEF Store!Integral, Store!Valid, Store!ReferencesResolve,
     Store!CanonsMatch, Store!NamesUnique, Store!NumbersUnique,
     Store!InteractionsAmongCast, Store!RelationshipsMatch, Store!References,
     Store!SameTie, Store!MutualTypes, InteractionsAmongCast, RelationshipsMatch, References,
     SameTie, MutualTypes,
     Integral, Valid, ReferencesResolve, CanonsMatch, NamesUnique, NumbersUnique
<1>3. Store!Changed(k, p) = Changed(k, p)
  BY DEF Store!Changed, Store!Added, Store!Updated, Changed, Added, Updated
<1>4. Store!Summary(k, p) = Summary(k, p)
  <2>1. \A set : Store!Cardinality(set) = Cardinality(set)
    BY DEF Store!Cardinality, Cardinality
  <2> QED
    BY <1>1, <1>3, <2>1
    DEF Store!Summary, Store!Added, Store!Updated, Summary, Added, Updated
<1>5. \A e : Store!Operation(k, e) = Operation(k, e)
  BY DEF Store!Operation, Operation
<1> QED
  BY <1>1, <1>2, <1>3, <1>4, <1>5

LEMMA JournalGrows ==
  ASSUME JournalInv, JournalInv', NEW l \in Loaders, NEW told,
         FinishLoad(l, told), NEW e \in Entities
  PROVE  Journal(e)' =
           IF e \in Changed(Stored(tables), package[l])
             THEN Append(Journal(e), Store!Revision(loadId[l], package[l], e))
             ELSE Journal(e)
<1>0. PICK n, old, new : /\ n = Latest(e) /\ old = Journal(e)
                         /\ new = Journal(e)'
  OBVIOUS
<1>1. /\ n \in Nat /\ old \in Seq(Entries) /\ Len(old) = n
      /\ \A r \in revisions : r.entity = e =>
           old[r.revision] = [operation |-> r.operation, load |-> r.load,
                              payload |-> r.payload]
  BY <1>0, JournalIsSequence
<1>2. PICK m : /\ m = Latest(e)' /\ m \in Nat
               /\ new \in Seq(Entries) /\ Len(new) = m
               /\ \A r \in revisions' : r.entity = e =>
                    new[r.revision] = [operation |-> r.operation,
                                       load |-> r.load, payload |-> r.payload]
  BY <1>0, JournalIsSequenceNext
<1>3. /\ ToWrite(l) = Changed(Stored(tables), package[l])
      /\ revisions \subseteq revisions'
      /\ m = IF e \in ToWrite(l) THEN n + 1 ELSE n
  BY <1>0, <1>2, Appended, NextNumbers
<1>4. \A k \in 1..n : new[k] = old[k]
  <2>1. \A k \in 1..n : \E r \in revisions : r.entity = e /\ r.revision = k
    BY <1>0, LastRevision
  <2>2. ASSUME NEW k \in 1..n PROVE new[k] = old[k]
    <3>1. PICK r \in revisions : r.entity = e /\ r.revision = k
      BY <2>1
    <3>2. old[k] = [operation |-> r.operation, load |-> r.load,
                    payload |-> r.payload]
      BY <1>1, <3>1
    <3>3. new[k] = [operation |-> r.operation, load |-> r.load,
                    payload |-> r.payload]
      BY <1>2, <1>3, <3>1
    <3> QED
      BY <3>2, <3>3
  <2> QED
    BY <2>2
<1>5. CASE e \notin ToWrite(l)
  <2>1. new = old
    BY <1>1, <1>2, <1>3, <1>4, <1>5, SeqEqual
  <2> QED
    BY <1>0, <1>3, <1>5, <2>1
<1>6. CASE e \in ToWrite(l)
  <2>1. PICK r \in NewRevisions(l) : r.entity = e
    BY <1>6, Appended
  <2>2. /\ r \in revisions' /\ r.revision = n + 1
        /\ r.operation = Operation(Stored(tables), e)
        /\ r.load = loadId[l] /\ r.payload = package[l][e]
    BY <1>0, <2>1, Appended
  <2>3. PICK entry : entry = Store!Revision(loadId[l], package[l], e)
    OBVIOUS
  <2>4. new[n + 1] = entry
    <3>1. new[n + 1] = [operation |-> r.operation, load |-> r.load,
                        payload |-> r.payload]
      BY <1>2, <2>1, <2>2
    <3>2. Store!Operation(Stored(tables), e) = Operation(Stored(tables), e)
      BY SameRules
    <3> QED
      BY <2>2, <2>3, <3>1, <3>2 DEF Store!Revision
  <2>5. new[n + 1] \in Entries
    BY <1>1, <1>2, <1>3, <1>6, ElementOfSeq
  <2>6. /\ Append(old, entry) \in Seq(Entries) /\ Len(Append(old, entry)) = n + 1
        /\ \A k \in 1..n : Append(old, entry)[k] = old[k]
        /\ Append(old, entry)[n + 1] = entry
    BY <1>1, <2>4, <2>5, AppendProperties
  <2>7. \A k \in 1..(n + 1) : new[k] = Append(old, entry)[k]
    BY <1>1, <1>4, <2>4, <2>6
  <2>8. new = Append(old, entry)
    BY <1>2, <1>3, <1>6, <2>6, <2>7, SeqEqual
  <2> QED
    BY <1>0, <1>3, <1>6, <2>3, <2>8
<1> QED
  BY <1>5, <1>6

LEMMA FinishMerges ==
  ASSUME JournalInv, NEW l \in Loaders, NEW told, FinishLoad(l, told)
  PROVE  Stored(tables)' = Merged(Stored(tables), package[l])
<1>1. PICK p, new :
        /\ p = package[l] /\ p \in Packages
        /\ new = tables'
        /\ new = [e \in Entities |->
                    IF e \in Changed(Stored(tables), p) THEN p[e] ELSE tables[e]]
  <2>1. \A e \in Entities : tables'[e] = IF e \in Changed(Stored(tables), package[l])
                                          THEN package[l][e] ELSE tables[e]
    BY Appended
  <2>2. tables' = [e \in Entities |-> tables'[e]]
    BY DEF FinishLoad
  <2> QED
    BY <2>1, <2>2, Appended
<1>2. Stored(new) = Merged(Stored(tables), p)
  BY <1>1, WritingMerges
<1> QED
  BY <1>1, <1>2 DEF Stored

LEMMA LoadMaps ==
  ASSUME JournalInv, JournalInv', NEW l \in Loaders, NEW told,
         FinishLoad(l, told)
  PROVE  Store!Next
<1>0. PICK p, id, set : p = package[l] /\ id = loadId[l] /\ set = Stored(tables)
  OBVIOUS
<1>1. /\ p \in Packages /\ id \in LoadIds /\ current[l] = set
  BY <1>0, Appended
<1>2. /\ step[l] = "finish"
      /\ loads' = [i \in DOMAIN loads \cup {id} |->
                     IF i = id THEN Summary(set, p) ELSE loads[i]]
  BY <1>0, <1>1 DEF FinishLoad
<1>3. Integral(Merged(set, p))
  BY <1>0, <1>1, <1>2
  DEF JournalInv, Inv, Checked, Writing, Locking, Acceptable
<1>4. \A earlier \in DOMAIN loads : id > earlier
  <2>1. \A i \in DOMAIN loads : i < id /\ i \in Nat /\ id \in Nat
    BY <1>0, <1>1, <1>2 DEF JournalInv, Youngest
  <2> QED
    BY <2>1
<1>5. Stored(tables)' = Merged(set, p)
  BY <1>0, FinishMerges
<1>6. [e \in Entities |-> Journal(e)]' =
        [e \in Entities |->
           IF e \in Changed(set, p)
             THEN Append(Journal(e), Store!Revision(id, p, e))
             ELSE Journal(e)]
  BY <1>0, JournalGrows
<1>7. Store!Load(p, id)
  <2>1. /\ Store!Merged(set, p) = Merged(set, p)
        /\ Store!Changed(set, p) = Changed(set, p)
        /\ Store!Summary(set, p) = Summary(set, p)
        /\ Store!Integral(Merged(set, p)) <=> Integral(Merged(set, p))
    BY SameRules
  <2>2. Store!Entities = Entities
    BY DEF Store!Entities, Entities
  <2>3. Store!Integral(Store!Merged(Stored(tables), p))
    BY <1>0, <1>3, <2>1
  <2>4. Stored(tables)' = Store!Merged(Stored(tables), p)
    BY <1>0, <1>5, <2>1
  <2>5. loads' = [i \in DOMAIN loads \cup {id} |->
                   IF i = id THEN Store!Summary(Stored(tables), p) ELSE loads[i]]
    BY <1>0, <1>2, <2>1
  <2>6. [e \in Entities |-> Journal(e)]' =
          [e \in Store!Entities |->
             IF e \in Store!Changed(Stored(tables), p)
               THEN Append([x \in Entities |-> Journal(x)][e],
                           Store!Revision(id, p, e))
               ELSE [x \in Entities |-> Journal(x)][e]]
    BY <1>0, <1>6, <2>1, <2>2
  <2> QED
    BY <1>4, <2>3, <2>4, <2>5, <2>6 DEF Store!Load
<1> QED
  BY <1>1, <1>7 DEF Store!Next

LEMMA OtherStepsMap ==
  ASSUME [Next]_vars, ~(\E l \in Loaders : \E told : FinishLoad(l, told))
  PROVE  UNCHANGED Store!storeVars
<1>1. UNCHANGED <<tables, revisions, loads>>
  BY DEF Next, vars, database, loader, BeginLoad, LockKnowledge, ReadAll,
         StartLoad, DeleteChildren, UpsertRoots, UpsertFails, InsertChildren,
         LoadLost, FindMatches, ReadNames, HasKnowledge, LookupLost, Return
<1> QED
  BY <1>1 DEF Store!storeVars, Stored, Journal, RevisionOf, Latest

(* Loads beside each other and lookups between them: each load takes       *)
(* effect at its COMMIT as one step of KnowledgeStore, or not at all.      *)
THEOREM LoadsAreAtomic == Spec => ImplementsKnowledge
<1>1. Init => Store!Init
  <2> SUFFICES ASSUME Init PROVE Store!Init
    OBVIOUS
  <2>1. Stored(tables) = [e \in {} |-> None]
    BY DEF Init, Stored
  <2>2. \A e \in Entities : Journal(e) = <<>>
    <3>1. \A e \in Entities : Latest(e) = 0
      BY JournalInit DEF JournalInv, Journaled, Init
    <3>2. \A e \in Entities : Journal(e) \in Seq(Entries) /\ Len(Journal(e)) = 0
      BY <3>1, JournalInit, JournalIsSequence
    <3> QED
      BY <3>2, EmptySeq
  <2> QED
    BY <2>1, <2>2 DEF Init, Store!Init, Store!Entities, Entities
<1>2. JournalInv /\ JournalInv' /\ [Next]_vars => [Store!Next]_(Store!storeVars)
  BY LoadMaps, OtherStepsMap
<1> QED
  BY <1>1, <1>2, JournalCorrect, PTL DEF Spec, ImplementsKnowledge, Store!Spec

-----------------------------------------------------------------------------
(* Lookups.  A snapshot is the state after the load that was the newest,   *)
(* and later loads have greater ids: what the journal says of that state   *)
(* does not change any more.                                               *)

Newest ==
  \E m \in {0} \cup DOMAIN loads : \A id \in DOMAIN loads : id <= m

Answers ==
  /\ DOMAIN asked = Lookups /\ DOMAIN snapshot = Lookups
  /\ DOMAIN answer = Lookups /\ DOMAIN asks = Lookups
  /\ \A q \in Lookups :
       /\ answer[q].status \in {"matched", "found"} =>
            asked[q] \in {0} \cup DOMAIN loads
       /\ answer[q].status = "matched" => snapshot[q] = AfterLoad(asked[q])
       /\ answer[q].status = "found" =>
            answer[q].cards = Cards(Stored(AfterLoad(asked[q])), asks[q])

LookupInv == JournalInv /\ Newest /\ Answers

LEMMA LookupInit == Init => LookupInv
<1> SUFFICES ASSUME Init PROVE Newest /\ Answers
  BY JournalInit DEF LookupInv
<1>1. Newest
  BY DEF Init, Newest
<1>2. Answers
  BY DEF Init, Answers, NoAnswer
<1> QED
  BY <1>1, <1>2

(* The state after the newest load is the present one.                     *)
LEMMA NewestState ==
  ASSUME JournalInv, NEW m, \A id \in DOMAIN loads : id <= m
  PROVE  AfterLoad(m) = tables
<1>1. \A r \in revisions : r.load <= m
  BY DEF JournalInv, Youngest
<1>2. ASSUME NEW e \in Entities, NEW past,
             past = {r \in revisions : r.entity = e /\ r.load <= m}
      PROVE  tables[e] = IF past = {} THEN None
                         ELSE (CHOOSE r \in past :
                                 \A s \in past : s.revision <= r.revision).payload
  <2>1. PICK n : n = Latest(e) /\ n \in Nat
                 /\ (tables[e] = None <=> n = 0)
    BY DEF JournalInv, Journaled
  <2>2. \A r \in past : r \in revisions /\ r.entity = e /\ r.revision \in 1..n
    BY <1>2, <2>1 DEF JournalInv, Journaled, Counted, OfEntity
  <2>3. CASE n = 0
    BY <2>1, <2>2, <2>3
  <2>4. CASE n > 0
    <3>1. PICK last : last = RevisionOf(e, n)
      OBVIOUS
    <3>2. /\ last \in past /\ last.revision = n /\ last.payload = tables[e]
      BY <1>1, <1>2, <2>1, <2>4, <3>1, LastRevision DEF JournalInv, Journaled
    <3>3. \A s \in past : s.revision <= last.revision
      BY <2>1, <2>2, <3>2
    <3>4. \A r \in past : (\A s \in past : s.revision <= r.revision) => r = last
      <4>1. \A r \in past : r.revision = n => r = last
        BY <2>2, <3>2 DEF JournalInv, Journaled
      <4> QED
        BY <2>1, <2>2, <3>2, <4>1
    <3>5. (CHOOSE r \in past : \A s \in past : s.revision <= r.revision) = last
      BY <3>2, <3>3, <3>4
    <3> QED
      BY <3>2, <3>5
  <2> QED
    BY <2>1, <2>3, <2>4
<1>3. AfterLoad(m) = [e \in Entities |-> tables[e]]
  BY <1>2 DEF AfterLoad
<1> QED
  BY <1>3 DEF JournalInv, Inv, Types, Rows

Payload(past) ==
  IF past = {} THEN None
  ELSE (CHOOSE r \in past : \A s \in past : s.revision <= r.revision).payload

LEMMA LoadIdsAreNumbers ==
  ASSUME JournalInv
  PROVE  /\ \A i \in LoadIds : i \in Nat /\ 0 < i
         /\ \A i \in {0} \cup DOMAIN loads : i \in Nat
<1>1. \A i \in LoadIds : i \in Nat /\ 0 < i
  OBVIOUS
<1>2. DOMAIN loads \subseteq LoadIds
  BY DEF JournalInv, Youngest
<1>3. \A i \in DOMAIN loads : i \in Nat
  BY <1>1, <1>2
<1> QED
  BY <1>1, <1>3

LEMMA FinishedId ==
  ASSUME JournalInv, NEW l \in Loaders, NEW told, FinishLoad(l, told)
  PROVE  /\ loadId[l] \in Nat
         /\ \A i \in {0} \cup DOMAIN loads : i \in Nat /\ i < loadId[l]
<1>1. loadId[l] \in LoadIds /\ \A i \in DOMAIN loads : i < loadId[l]
  BY DEF JournalInv, Youngest, FinishLoad
<1> QED
  BY <1>1, LoadIdsAreNumbers

LEMMA EarlierStates ==
  ASSUME JournalInv, NEW l \in Loaders, NEW told, FinishLoad(l, told),
         NEW id, id \in {0} \cup DOMAIN loads
  PROVE  AfterLoad(id)' = AfterLoad(id)
<1>1. /\ revisions' = revisions \cup NewRevisions(l)
      /\ \A r \in NewRevisions(l) : r.load = loadId[l]
      /\ loadId[l] \in LoadIds
  BY Appended
<1>2. loadId[l] \in Nat /\ id \in Nat /\ id < loadId[l]
  BY FinishedId
<1>3. \A e : {r \in revisions' : r.entity = e /\ r.load <= id}
               = {r \in revisions : r.entity = e /\ r.load <= id}
  BY <1>1, <1>2
<1>4. PICK state : state = AfterLoad(id)'
  OBVIOUS
<1>5. ASSUME NEW e \in Entities PROVE state[e] = AfterLoad(id)[e]
  <2>1. state[e] = Payload({r \in revisions' : r.entity = e /\ r.load <= id})
    BY <1>4 DEF AfterLoad, Payload
  <2>2. AfterLoad(id)[e] =
          Payload({r \in revisions : r.entity = e /\ r.load <= id})
    BY DEF AfterLoad, Payload
  <2> QED
    BY <1>3, <2>1, <2>2
<1>6. /\ state = [e \in Entities |-> state[e]]
      /\ AfterLoad(id) = [e \in Entities |-> AfterLoad(id)[e]]
  BY <1>4 DEF AfterLoad
<1> QED
  BY <1>4, <1>5, <1>6

LEMMA SameAnswers ==
  ASSUME LookupInv, UNCHANGED <<revisions, loads, lookup>>
  PROVE  Newest' /\ Answers'
<1>1. \A id : AfterLoad(id)' = AfterLoad(id)
  BY DEF AfterLoad
<1> QED
  BY <1>1 DEF LookupInv, Newest, Answers, lookup, Stored

LEMMA LookupNext == LookupInv /\ [Next]_vars => LookupInv'
<1> SUFFICES ASSUME LookupInv, [Next]_vars PROVE Newest' /\ Answers'
  BY JournalNext DEF LookupInv
<1> USE DEF LookupInv
<1>1. ASSUME NEW l \in Loaders, NEW told, FinishLoad(l, told)
      PROVE  Newest' /\ Answers'
  <2>1. /\ DOMAIN loads' = DOMAIN loads \cup {loadId[l]}
        /\ UNCHANGED <<asks, asked, snapshot, answer>>
    BY <1>1 DEF FinishLoad, lookup
  <2>2. /\ loadId[l] \in Nat
        /\ \A id \in DOMAIN loads : id <= loadId[l]
    <3>1. /\ loadId[l] \in Nat
          /\ \A id \in DOMAIN loads : id \in Nat /\ id < loadId[l]
      BY <1>1, FinishedId
    <3> QED
      BY <3>1
  <2>3. Newest'
    BY <2>1, <2>2 DEF Newest
  <2>4. \A id \in {0} \cup DOMAIN loads :
          Stored(AfterLoad(id))' = Stored(AfterLoad(id))
          /\ AfterLoad(id)' = AfterLoad(id)
    <3>1. \A id \in {0} \cup DOMAIN loads : AfterLoad(id)' = AfterLoad(id)
      BY <1>1, EarlierStates
    <3> QED
      BY <3>1 DEF Stored
  <2>5. Answers'
    <3>1. ASSUME NEW q \in Lookups, answer[q].status = "matched"
          PROVE  snapshot'[q] = AfterLoad(asked[q])'
      BY <2>1, <2>4, <3>1 DEF Answers
    <3>2. ASSUME NEW q \in Lookups, answer[q].status = "found"
          PROVE  answer'[q].cards = Cards(Stored(AfterLoad(asked[q]))', asks[q])
      BY <2>1, <2>4, <3>2 DEF Answers
    <3> QED
      BY <2>1, <3>1, <3>2 DEF Answers, AfterLoad, Stored
  <2> QED
    BY <2>3, <2>5
<1>2. ASSUME NEW q \in Lookups, NEW name \in Names, FindMatches(q, name)
      PROVE  Newest' /\ Answers'
  <2>1. PICK m \in {0} \cup DOMAIN loads : \A id \in DOMAIN loads : id <= m
    BY DEF Newest
  <2>2. \A i \in {0} \cup DOMAIN loads : i \in Nat
    BY LoadIdsAreNumbers
  <2>3. Max({0} \cup DOMAIN loads) = m
    <3>1. m \in {0} \cup DOMAIN loads /\ \A x \in {0} \cup DOMAIN loads : m >= x
      BY <2>1, <2>2
    <3>2. \A k \in {0} \cup DOMAIN loads :
            (\A x \in {0} \cup DOMAIN loads : k >= x) => k = m
      BY <2>2, <3>1
    <3> QED
      BY <3>1, <3>2 DEF Max
  <2>4. /\ asked' = [asked EXCEPT ![q] = m]
        /\ snapshot' = [snapshot EXCEPT ![q] = AfterLoad(m)]
        /\ asks' = [asks EXCEPT ![q] = name]
        /\ UNCHANGED <<tables, revisions, loads>>
    BY <1>2, <2>1, <2>3, NewestState DEF FindMatches, database
  <2>5. /\ DOMAIN answer' = Lookups
        /\ answer'[q].status \in {"missing", "matched"}
        /\ \A p \in Lookups \ {q} : answer'[p] = answer[p]
    BY <1>2 DEF FindMatches, Answers
  <2>6. \A id : AfterLoad(id)' = AfterLoad(id)
    BY <2>4 DEF AfterLoad
  <2>7. Newest'
    BY <2>4 DEF Newest
  <2>8. Answers'
    BY <2>1, <2>4, <2>5, <2>6 DEF Answers, Stored
  <2> QED
    BY <2>7, <2>8
<1>3. ASSUME NEW q \in Lookups,
             ReadNames(q) \/ HasKnowledge(q) \/ LookupLost(q) \/ Return(q)
      PROVE  Newest' /\ Answers'
  <2>1. /\ UNCHANGED <<revisions, loads>>
        /\ \A p \in Lookups \ {q} :
             /\ asked'[p] = asked[p] /\ snapshot'[p] = snapshot[p]
             /\ answer'[p] = answer[p] /\ asks'[p] = asks[p]
        /\ DOMAIN asked' = Lookups /\ DOMAIN snapshot' = Lookups
        /\ DOMAIN answer' = Lookups /\ DOMAIN asks' = Lookups
    BY <1>3 DEF ReadNames, HasKnowledge, LookupLost, Return, database, Answers
  <2>2. /\ answer'[q].status # "matched"
        /\ answer'[q].status = "found" =>
             /\ answer[q].status = "matched" /\ asked'[q] = asked[q]
             /\ answer'[q].cards = Cards(Stored(snapshot[q]), asks'[q])
    BY <1>3 DEF ReadNames, HasKnowledge, LookupLost, Return, NoAnswer, Answers
  <2>3. \A id : AfterLoad(id)' = AfterLoad(id)
    BY <2>1 DEF AfterLoad
  <2>4. Newest'
    BY <2>1 DEF Newest
  <2>5. Answers'
    BY <2>1, <2>2, <2>3 DEF Answers, Stored
  <2> QED
    BY <2>4, <2>5
<1>4. ASSUME UNCHANGED <<revisions, loads, lookup>> PROVE Newest' /\ Answers'
  BY <1>4, SameAnswers
<1>5. CASE UNCHANGED vars
  BY <1>4, <1>5 DEF vars, database
<1>6. ASSUME NEW l \in Loaders,
             \/ \E p \in Packages : BeginLoad(l, p)
             \/ LockKnowledge(l) \/ ReadAll(l) \/ StartLoad(l)
             \/ DeleteChildren(l) \/ UpsertRoots(l) \/ UpsertFails(l)
             \/ InsertChildren(l) \/ LoadLost(l)
      PROVE  UNCHANGED <<revisions, loads, lookup>>
  BY <1>6 DEF BeginLoad, LockKnowledge, ReadAll, StartLoad, DeleteChildren,
              UpsertRoots, UpsertFails, InsertChildren, LoadLost, database
<1> QED
  BY <1>1, <1>2, <1>3, <1>4, <1>5, <1>6 DEF Next

(* However many loads commit while a lookup reads, its cards and the names *)
(* they show are of one state.                                             *)
THEOREM LookupsSeeOneState == Spec => []CardsOfOneState
<1>1. LookupInv => CardsOfOneState
  BY DEF LookupInv, Answers, CardsOfOneState
<1> QED
  BY <1>1, LookupInit, LookupNext, PTL DEF Spec

-----------------------------------------------------------------------------
(* Types.                                                                  *)

LoaderTypes ==
  /\ lock \in Loaders \cup {None}
  /\ \A l \in Loaders : current[l] # None => IsKnowledge(current[l])
  /\ working \in [Loaders -> Rows \cup {None}]
  /\ \A l \in Loaders : step[l] \in Writing => working[l] \in Rows
  /\ loadId \in [Loaders -> LoadIds \cup {0}]
  /\ report \in [Loaders -> Reports]
  /\ lost \in [Loaders -> BOOLEAN]

LookupTypes ==
  /\ asks \in [Lookups -> Names \cup {None}]
  /\ asked \in [Lookups -> LoadIds \cup {0}]
  /\ snapshot \in [Lookups -> Rows \cup {None}]
  /\ \A q \in Lookups :
       answer[q].status \in {"none", "matched", "missing",
                             "found", "not_found", "unavailable"}

LEMMA StoredIsKnowledge ==
  ASSUME NEW rows \in Rows PROVE IsKnowledge(Stored(rows))
BY DEF Rows, IsKnowledge, Stored

LEMMA EndTypes ==
  ASSUME Inv, LoaderTypes, NEW l \in Loaders, NEW told \in Reports,
         EndLoad(l, told), lost' \in [Loaders -> BOOLEAN]
  PROVE  LoaderTypes'
<1> USE DEF Inv, Types, LoaderTypes, EndLoad
<1>1. lock' \in Loaders \cup {None}
  OBVIOUS
<1>2. \A m \in Loaders : current'[m] # None => IsKnowledge(current'[m])
  OBVIOUS
<1>3. /\ working' \in [Loaders -> Rows \cup {None}]
      /\ \A m \in Loaders : step'[m] \in Writing => working'[m] \in Rows
  BY DEF Writing, Locking
<1>4. loadId' \in [Loaders -> LoadIds \cup {0}]
  OBVIOUS
<1>5. report' \in [Loaders -> Reports]
  OBVIOUS
<1> QED
  BY <1>1, <1>2, <1>3, <1>4, <1>5

(* A step that changes at most the rows of one loader's transaction.       *)
LEMMA WorkTypes ==
  ASSUME Inv, LoaderTypes, NEW l \in Loaders, NEW rows \in Rows, NEW to,
         working' = [working EXCEPT ![l] = rows],
         step' = [step EXCEPT ![l] = to],
         UNCHANGED <<lock, current, loadId, report, lost>>
  PROVE  LoaderTypes'
BY DEF Inv, Types, LoaderTypes

LEMMA LoaderTypesNext ==
  LookupInv /\ LoaderTypes /\ [Next]_vars => LoaderTypes'
<1> SUFFICES ASSUME LookupInv, Inv, LoaderTypes, [Next]_vars PROVE LoaderTypes'
  BY DEF LookupInv, JournalInv
<1>1. ASSUME NEW l \in Loaders, NEW p \in Packages, BeginLoad(l, p)
      PROVE  LoaderTypes'
  BY <1>1 DEF BeginLoad, database, Inv, Types, LoaderTypes, Reports, Writing,
              Locking
<1>2. ASSUME NEW l \in Loaders, LockKnowledge(l) PROVE LoaderTypes'
  BY <1>2 DEF LockKnowledge, Inv, Types, LoaderTypes, Writing
<1>3. ASSUME NEW l \in Loaders, ReadAll(l) PROVE LoaderTypes'
  <2>1. CASE Acceptable(Stored(tables), package[l])
    <3>1. tables \in Rows /\ IsKnowledge(Stored(tables))
      BY StoredIsKnowledge DEF Inv, Types
    <3>2. /\ current' = [current EXCEPT ![l] = Stored(tables)]
          /\ working' = [working EXCEPT ![l] = tables]
          /\ step' = [step EXCEPT ![l] = "start"]
          /\ UNCHANGED <<loadId, report, lock, lost>>
      BY <1>3, <2>1 DEF ReadAll
    <3>3. \A m \in Loaders : current'[m] # None => IsKnowledge(current'[m])
      BY <3>1, <3>2 DEF Inv, Types, LoaderTypes
    <3> QED
      BY <3>1, <3>2, <3>3 DEF Inv, Types, LoaderTypes
  <2>2. CASE ~Acceptable(Stored(tables), package[l])
    BY <1>3, <2>2, EndTypes DEF ReadAll, Reports, LoaderTypes
  <2> QED
    BY <2>1, <2>2
<1>4. ASSUME NEW l \in Loaders, StartLoad(l) PROVE LoaderTypes'
  BY <1>4 DEF StartLoad, Inv, Types, LoaderTypes, Writing, Locking
<1>5. ASSUME NEW l \in Loaders, DeleteChildren(l) PROVE LoaderTypes'
  <2>1. PICK rows : rows = [e \in Entities |->
               IF e \in ToWrite(l) /\ working[l][e] # None
                 THEN RootRow(e, working[l][e])
                 ELSE working[l][e]]
    OBVIOUS
  <2>2. rows \in Rows
    <3>1. working[l] \in Rows
      BY <1>5 DEF DeleteChildren, LoaderTypes, Writing, Locking
    <3> QED
      BY <2>1, <3>1, RowsOfContents DEF Rows
  <2>3. working' = [working EXCEPT ![l] = rows]
    BY <1>5, <2>1 DEF DeleteChildren, LoaderTypes
  <2> QED
    BY <1>5, <2>2, <2>3, WorkTypes DEF DeleteChildren, database
<1>6. ASSUME NEW l \in Loaders, UpsertRoots(l) PROVE LoaderTypes'
  <2>1. PICK rows : rows = [e \in Entities |->
               IF e \in ToWrite(l)
                 THEN RootRow(e, package[l][e])
                 ELSE working[l][e]]
    OBVIOUS
  <2>2. rows \in Rows
    <3>1. working[l] \in Rows /\ package[l] \in Packages
      BY <1>6 DEF UpsertRoots, LoaderTypes, Inv, Checked, Writing, Locking
    <3>2. \A e \in ToWrite(l) : package[l][e] \in Contents
      BY <3>1, ToWriteIsPackaged, PackageContents
    <3> QED
      BY <2>1, <3>1, <3>2, RowsOfContents DEF Rows
  <2>3. working' = [working EXCEPT ![l] = rows]
    BY <1>6, <2>1 DEF UpsertRoots, LoaderTypes
  <2> QED
    BY <1>6, <2>2, <2>3, WorkTypes DEF UpsertRoots, database
<1>7. ASSUME NEW l \in Loaders, InsertChildren(l) PROVE LoaderTypes'
  <2>1. PICK rows : rows = [e \in Entities |->
               IF e \in ToWrite(l)
                 THEN WithChildren(e, working[l][e], package[l][e])
                 ELSE working[l][e]]
    OBVIOUS
  <2>2. rows \in Rows
    <3>1. working[l] \in Rows /\ package[l] \in Packages
      BY <1>7 DEF InsertChildren, LoaderTypes, Inv, Checked, Writing, Locking
    <3>2. \A e \in ToWrite(l) : /\ package[l][e] \in Contents
                                /\ working[l][e] = RootRow(e, package[l][e])
      BY <1>7, <3>1, ToWriteIsPackaged, PackageContents
      DEF InsertChildren, Inv, Written
    <3>3. \A e \in ToWrite(l) :
            WithChildren(e, working[l][e], package[l][e]) \in Contents
      BY <3>2, RowsOfContents
    <3> QED
      BY <2>1, <3>1, <3>3 DEF Rows
  <2>3. working' = [working EXCEPT ![l] = rows]
    BY <1>7, <2>1 DEF InsertChildren, LoaderTypes
  <2> QED
    BY <1>7, <2>2, <2>3, WorkTypes DEF InsertChildren, database
<1>8. ASSUME NEW l \in Loaders, UpsertFails(l) PROVE LoaderTypes'
  BY <1>8, EndTypes DEF UpsertFails, Reports, LoaderTypes
<1>9. ASSUME NEW l \in Loaders, NEW told \in {"loaded", "unavailable"},
             FinishLoad(l, told)
      PROVE  LoaderTypes'
  <2>1. lost' \in [Loaders -> BOOLEAN]
    BY <1>9 DEF FinishLoad, LoaderTypes
  <2> QED
    BY <1>9, <2>1, EndTypes DEF FinishLoad, Reports
<1>10. ASSUME NEW l \in Loaders, LoadLost(l) PROVE LoaderTypes'
  <2>1. lost' \in [Loaders -> BOOLEAN]
    BY <1>10 DEF LoadLost, LoaderTypes
  <2> QED
    BY <1>10, <2>1, EndTypes DEF LoadLost, Reports
<1>11. ASSUME UNCHANGED <<database, loader>> PROVE LoaderTypes'
  BY <1>11 DEF database, loader, LoaderTypes
<1>12. ASSUME NEW q \in Lookups,
              \/ \E name \in Names : FindMatches(q, name)
              \/ ReadNames(q) \/ HasKnowledge(q) \/ LookupLost(q) \/ Return(q)
       PROVE  LoaderTypes'
  BY <1>11, <1>12 DEF FindMatches, ReadNames, HasKnowledge, LookupLost, Return
<1> QED
  BY <1>1, <1>2, <1>3, <1>4, <1>5, <1>6, <1>7, <1>8, <1>9, <1>10, <1>11, <1>12
  DEF Next, vars

LEMMA LookupTypesNext ==
  LookupInv /\ LookupTypes /\ [Next]_vars => LookupTypes'
<1> SUFFICES ASSUME LookupInv, LookupTypes, [Next]_vars PROVE LookupTypes'
  OBVIOUS
<1> USE DEF LookupTypes
<1>1. ASSUME NEW q \in Lookups, NEW name \in Names, FindMatches(q, name)
      PROVE  LookupTypes'
  <2>1. Max({0} \cup DOMAIN loads) \in LoadIds \cup {0}
    <3>1. PICK m \in {0} \cup DOMAIN loads : \A id \in DOMAIN loads : id <= m
      BY DEF LookupInv, Newest
    <3>2. \A i \in {0} \cup DOMAIN loads : i \in Nat
      BY LoadIdsAreNumbers DEF LookupInv
    <3>3. \A x \in {0} \cup DOMAIN loads : m >= x
      BY <3>1, <3>2
    <3>4. Max({0} \cup DOMAIN loads) \in {0} \cup DOMAIN loads
      BY <3>3 DEF Max
    <3> QED
      BY <3>4 DEF LookupInv, JournalInv, Youngest
  <2>2. asked' \in [Lookups -> LoadIds \cup {0}]
    BY <1>1, <2>1 DEF FindMatches
  <2>3. /\ asks' \in [Lookups -> Names \cup {None}]
        /\ snapshot' \in [Lookups -> Rows \cup {None}]
    BY <1>1 DEF FindMatches, LookupInv, JournalInv, Inv, Types
  <2>4. \A p \in Lookups : answer'[p].status \in
          {"none", "matched", "missing", "found", "not_found", "unavailable"}
    BY <1>1 DEF FindMatches, LookupInv, Answers
  <2> QED
    BY <2>2, <2>3, <2>4
<1>2. ASSUME NEW q \in Lookups,
             ReadNames(q) \/ HasKnowledge(q) \/ LookupLost(q) \/ Return(q)
      PROVE  LookupTypes'
  <2>1. /\ asked' \in [Lookups -> LoadIds \cup {0}]
        /\ asks' \in [Lookups -> Names \cup {None}]
        /\ snapshot' \in [Lookups -> Rows \cup {None}]
    BY <1>2 DEF ReadNames, HasKnowledge, LookupLost, Return
  <2>2. \A p \in Lookups : answer'[p].status \in
          {"none", "matched", "missing", "found", "not_found", "unavailable"}
    BY <1>2 DEF ReadNames, HasKnowledge, LookupLost, Return, NoAnswer,
                LookupInv, Answers
  <2> QED
    BY <2>1, <2>2
<1>3. ASSUME UNCHANGED lookup PROVE LookupTypes'
  BY <1>3 DEF lookup
<1>4. ASSUME NEW l \in Loaders,
             \/ \E p \in Packages : BeginLoad(l, p)
             \/ LockKnowledge(l) \/ ReadAll(l) \/ StartLoad(l)
             \/ DeleteChildren(l) \/ UpsertRoots(l) \/ UpsertFails(l)
             \/ InsertChildren(l) \/ LoadLost(l)
             \/ \E told \in {"loaded", "unavailable"} : FinishLoad(l, told)
      PROVE  UNCHANGED lookup
  BY <1>4 DEF BeginLoad, LockKnowledge, ReadAll, StartLoad, DeleteChildren,
              UpsertRoots, UpsertFails, InsertChildren, LoadLost, FinishLoad
<1> QED
  BY <1>1, <1>2, <1>3, <1>4 DEF Next, vars

(* Type correctness.                                                       *)
THEOREM KnowledgeTypeCorrect == Spec => []TypeOK
<1>1. Init => LoaderTypes /\ LookupTypes
  BY DEF Init, LoaderTypes, LookupTypes, NoAnswer, Reports, Writing, Locking
<1>2. LookupInv /\ LoaderTypes /\ LookupTypes => TypeOK
  BY DEF LookupInv, JournalInv, Inv, Types, Journaled, Youngest, LoaderTypes,
         LookupTypes, TypeOK
<1> QED
  BY <1>1, <1>2, LookupInit, LookupNext, LoaderTypesNext, LookupTypesNext, PTL
  DEF Spec
=============================================================================
