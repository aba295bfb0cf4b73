------------------------- MODULE MCPostgresKnowledge -------------------------
(* A small instance of PostgresKnowledge: four packages of one world.      *)
EXTENDS PostgresKnowledge, TLC

CONSTANTS krosh, nyusha, house, n1, n2, classic, movies

Character(names, canons, ties) ==
  [names |-> names, canons |-> canons, number |-> None, refs |-> {},
   ties |-> ties]
Episode(name, number, refs, ties) ==
  [names |-> {name}, canons |-> {classic}, number |-> number, refs |-> refs,
   ties |-> ties]

World ==
  krosh :> Character({n1}, {classic, movies},
             {[from |-> krosh, to |-> nyusha, type |-> "friendship",
               canons |-> {classic}]})
    @@ nyusha :> Character({n2}, {classic, movies}, {})
    @@ 1 :> Episode(n2, 1, {krosh}, {})

(* The episodes change places, the characters change names, and nobody     *)
(* tells of a friendship.                                                  *)
Renumbered ==
  krosh :> Character({n2}, {classic, movies}, {})
    @@ nyusha :> Character({n1}, {classic, movies}, {})
    @@ 1 :> Episode(n2, 2, {krosh}, {}) @@ 2 :> Episode(n1, 1, {krosh}, {})

(* An episode beside those stored, in a house that lives there too.        *)
Sequel ==
  house :> [names |-> {n2}, canons |-> {classic}, number |-> None,
            refs |-> {krosh}, ties |-> {}]
    @@ 2 :> Episode(n1, 2, {krosh, nyusha, house},
              {[from |-> krosh, to |-> nyusha, type |-> "conflict",
                canons |-> {}]})

(* A character without its classic version, which may break an episode     *)
(* already stored, or the friendship that another character tells of.      *)
MoviesOnly ==
  nyusha :> Character({n2}, {movies}, {})

WorldPackages == {World, Renumbered, Sequel, MoviesOnly}
Symmetry == Permutations(Loaders)

WorldIds == 1..3
=============================================================================
