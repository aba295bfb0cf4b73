--------------------------- MODULE KnowledgeStore ----------------------------
(***************************************************************************)
(* What the knowledge store promises (rag/ports.py, as the in-memory store *)
(* of rag/memory.py keeps it): a load is one step that merges a package    *)
(* into the set, and journals what it changed.  PostgresKnowledge.tla      *)
(* implements it.                                                          *)
(***************************************************************************)
EXTENDS KnowledgeRules, Sequences

CONSTANTS
  Packages,     (* the sets that authors try to load                       *)
  LoadIds       (* a bound: identifiers that loads can get                 *)

VARIABLES
  entities,     (* the stored set                                          *)
  revisions,    (* per entity, in order                                    *)
  loads         (* the summary of each load, by load id                    *)

storeVars == <<entities, revisions, loads>>

Init ==
  /\ entities = [e \in {} |-> None]
  /\ revisions = [e \in Entities |-> <<>>]
  /\ loads = [id \in {} |-> None]

Revision(id, package, e) ==
  [operation |-> Operation(entities, e), load |-> id, payload |-> package[e]]

Load(package, id) ==
  /\ \A earlier \in DOMAIN loads : id > earlier
  /\ entities' = Merged(entities, package)
  /\ Integral(Merged(entities, package))
  /\ revisions' =
       [e \in Entities |->
          IF e \in Changed(entities, package)
            THEN Append(revisions[e], Revision(id, package, e))
            ELSE revisions[e]]
  /\ loads' = [i \in DOMAIN loads \cup {id} |->
                 IF i = id THEN Summary(entities, package) ELSE loads[i]]

(* Ids need not be consecutive.                                            *)
Next == \E package \in Packages, id \in LoadIds : Load(package, id)

Spec == Init /\ [][Next]_storeVars
=============================================================================
