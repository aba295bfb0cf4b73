SPECIFICATION Spec
CONSTANTS
  krosh = krosh
  nyusha = nyusha
  house = house
  n1 = n1
  n2 = n2
  classic = classic
  movies = movies
  Characters = {krosh, nyusha}
  Places = {house}
  Episodes = {1, 2}
  Names = {n1, n2}
  Canons = {classic, movies}
  Numbers = {1, 2}
  None = None
  Packages <- WorldPackages
  LoadIds <- WorldIds
  Loaders = {l1}
  Lookups = {}
INVARIANTS
  UnavailableMeansLost
