CONSTANTS
  Files = {f1, f2, f3, f4}
  Tasks = {t1, t2}
  Snaps = {s1}
  NoSnap = NoSnap
  Exclusive = TRUE
SPECIFICATION Spec
SYMMETRY Interchangeable
INVARIANTS TypeOK ReadersStayOpen NoLeakedFiles
CHECK_DEADLOCK FALSE
