--------------------------- MODULE KnowledgeRules ----------------------------
(***************************************************************************)
(* Knowledge sets and the rules a set must obey (rag/models.py,            *)
(* rag/integrity.py), with what a load computes from them before it writes *)
(* (rag/services.py).                                                      *)
(*                                                                         *)
(* A knowledge set is a function from its entities to their contents.      *)
(* Three kinds stand for the six: a character is known by names no other   *)
(* character has, a place (a location or an artifact) by names unique      *)
(* within its variants of the canon, an episode by its number.  A canon    *)
(* and a work are not entities here: an episode carries the canon of its   *)
(* work.  Descriptive fields, sources and the rule that a film has one     *)
(* episode are left out.                                                   *)
(***************************************************************************)
EXTENDS Naturals, FiniteSets

CONSTANTS
  Characters, Places,
  Episodes,     (* numbers: packages and tables are read in their order    *)
  Names,        (* normalized names, aliases, titles and ids               *)
  Canons,
  Numbers,      (* season and number within the work                       *)
  None          (* no number, no row, nobody                               *)

Entities == Characters \cup Places \cup Episodes

ASSUME KindsAssumption ==
  /\ Episodes \subseteq Nat
  /\ Characters \cap Places = {}
  /\ (Characters \cup Places) \cap Episodes = {}
  /\ None \notin Entities \cup Numbers

(* Interactions in an episode, and relationships of a character, which     *)
(* hold in some canons.                                                    *)
MutualTypes == {"friendship", "neighborhood", "conflict"}
TieTypes ==
  MutualTypes \cup {"affection", "mentor", "guardian", "support", "empathy"}
Ties ==
  [from : Characters, to : Characters, type : TieTypes, canons : SUBSET Canons]

(* refs: the cast and the places of an episode, the residents of a place.  *)
Contents ==
  [names : SUBSET Names, canons : SUBSET Canons, number : Numbers \cup {None},
   refs : SUBSET (Characters \cup Places), ties : SUBSET Ties]

References(content) == content.refs \cup {t.to : t \in content.ties}

IsKnowledge(k) ==
  /\ DOMAIN k \subseteq Entities
  /\ \A e \in DOMAIN k : k[e] \in Contents

-----------------------------------------------------------------------------
(* The rules.  A reference to an entity outside the set is an error of a   *)
(* complete set; in a package it is external, and what depends on the      *)
(* target is left to the load.                                             *)

ReferencesResolve(k) == \A e \in DOMAIN k : References(k[e]) \subseteq DOMAIN k

(* Cast and places exist in the canon of the episode; residents share a    *)
(* canon with their place.                                                 *)
CanonsMatch(k) ==
  \A e \in DOMAIN k : \A r \in k[e].refs \cap DOMAIN k :
    IF e \in Episodes
      THEN k[e].canons \subseteq k[r].canons
      ELSE k[e].canons \cap k[r].canons # {}

NamesUnique(k) ==
  /\ \A c, d \in DOMAIN k \cap Characters :
       c # d => k[c].names \cap k[d].names = {}
  /\ \A p, q \in DOMAIN k \cap Places :
       p # q /\ k[p].canons \cap k[q].canons # {}
         => k[p].names \cap k[q].names = {}

NumbersUnique(k) ==
  \A e, f \in DOMAIN k \cap Episodes : e # f => k[e].number # k[f].number

(* Two ties that say the same of the same characters.                      *)
SameTie(s, t) ==
  /\ s.type = t.type
  /\ \/ s.from = t.from /\ s.to = t.to
     \/ s.type \in MutualTypes /\ s.from = t.to /\ s.to = t.from

InteractionsAmongCast(k) ==
  \A e \in DOMAIN k \cap Episodes : \A t \in k[e].ties :
    /\ t.from # t.to
    /\ {t.from, t.to} \subseteq k[e].refs
    /\ \A s \in k[e].ties : SameTie(s, t) => s = t

(* A relationship is told once in a canon, by either of the two.           *)
RelationshipsMatch(k) ==
  \A c \in DOMAIN k \cap Characters : \A t \in k[c].ties :
    /\ t.from = c /\ t.to # c
    /\ t.canons \subseteq k[c].canons
    /\ t.to \in DOMAIN k => t.canons \subseteq k[t.to].canons
    /\ \A d \in DOMAIN k \cap Characters : \A s \in k[d].ties :
         SameTie(s, t) /\ s.canons \cap t.canons # {} => s = t

Valid(k) ==
  /\ CanonsMatch(k) /\ NamesUnique(k) /\ NumbersUnique(k)
  /\ InteractionsAmongCast(k) /\ RelationshipsMatch(k)
Integral(k) == ReferencesResolve(k) /\ Valid(k)

-----------------------------------------------------------------------------

(* The package replaces what it names and keeps the rest.                  *)
Merged(current, package) ==
  [e \in DOMAIN current \cup DOMAIN package |->
     IF e \in DOMAIN package THEN package[e] ELSE current[e]]

Added(current, package) == DOMAIN package \ DOMAIN current
Updated(current, package) ==
  {e \in DOMAIN package \cap DOMAIN current : package[e] # current[e]}

(* Entities equal to the stored ones are not written.                      *)
ChangedByEverything(current, package) == DOMAIN package   (* mutant *)
Changed(current, package) ==
  Added(current, package) \cup Updated(current, package)

Operation(current, e) == IF e \in DOMAIN current THEN "update" ELSE "create"

(* The counts of a load's report.                                          *)
Summary(current, package) ==
  [entities |-> Cardinality(DOMAIN Merged(current, package)),
   added |-> Cardinality(Added(current, package)),
   updated |-> Cardinality(Updated(current, package)),
   unchanged |-> Cardinality(DOMAIN package \ Changed(current, package))]

-----------------------------------------------------------------------------
(* Lookup: entities with the name, and the names of what they refer to.    *)

Found(k, name) == {e \in DOMAIN k : name \in k[e].names}

Cards(k, name) ==
  [e \in Found(k, name) |->
     [content |-> k[e],
      shown |-> [r \in References(k[e]) |->
                   IF r \in DOMAIN k THEN k[r].names ELSE {}]]]
=============================================================================
