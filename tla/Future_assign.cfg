SPECIFICATION Spec
CONSTANTS
  Vars = {f1, f2, f3}
  Tasks = {t1, t2}
  Null = Null
INVARIANTS NothingIsLeaked
