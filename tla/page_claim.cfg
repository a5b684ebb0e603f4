SPECIFICATION Spec
CONSTANTS
  Trips = {t1, t2, t3}
  Shortlists = {a1}
  Posts = {p1, p2}
  NoSearch = NoSearch
SYMMETRY PageSymmetry
INVARIANT JudgedIsAttached
